------------------------------ MODULE AuthzSync -----------------------------
(***************************************************************************)
(* One exit agent mirroring the backend's authorized set into the kernel's *)
(* nftables set `authorized` (agent/agent.go, agent/state.go), composed    *)
(* with the revision log of AuthzLog.                                      *)
(*                                                                         *)
(* The agent's three loops run concurrently and share the kernel set:      *)
(*   runSync       long-polls the backend and applies deltas or full sets, *)
(*   runUsage      applies the revocations inlined in usage acks,          *)
(*   runHeartbeat  reports revision and fingerprint, and relays a resync.  *)
(* Reading the kernel set and writing it are separate steps, so any two    *)
(* loops interleave between them.                                          *)
(***************************************************************************)
EXTENDS AuthzLog

CONSTANTS MassRevokeMin,      \* agent massRevokeMin
          MassRevokeAllowed,  \* allowMassRevoke of the agent or force of the backend
          FullSyncEnabled,    \* fullSyncEvery > 0
          Faults,             \* the faults this instance may meet
          MaxFaults           \* bound: how many of them

FaultKinds == {"crash", "corrupt", "flush", "outage", "failclosed", "nft",
               "persist", "acklost", "compact"}

ASSUME SyncAssumption ==
  /\ MassRevokeMin \in Nat
  /\ MassRevokeAllowed \in BOOLEAN
  /\ FullSyncEnabled \in BOOLEAN
  /\ Faults \subseteq FaultKinds
  /\ MaxFaults \in Nat

VARIABLES kernel,     \* the nftables set `authorized`
          cursor,     \* runtime.AuthzRev in memory
          disk,       \* runtime.AuthzRev in runtime.json
          forceFull,  \* runSync's forceFull
          resync,     \* Agent.forceResync
          pc,         \* where runSync is
          req,        \* the request in flight
          resp,       \* the answer being applied
          plan,       \* the add/del batch computed from it
          upc,        \* where runUsage is with an ack
          ack,        \* ack.Revoke
          udel,       \* the members of it that were listed present
          hpc,        \* where runHeartbeat is
          hb,         \* the heartbeat request being built
          memo,       \* the backend's statusCache
          faults,     \* faults so far
          cut         \* history: members removed other than by runSync

syncVars == <<forceFull, pc, req, resp, plan>>
usageVars == <<upc, ack, udel>>
hbVars == <<hpc, hb, memo>>
vars == <<logVars, kernel, cursor, disk, resync, syncVars, usageVars, hbVars,
          faults, cut>>

NoReq == [rev |-> 0, full |-> FALSE]
NoResp == [full |-> FALSE, rev |-> 0, add |-> {}, del |-> {}]
NoPlan == [add |-> {}, del |-> {}]
NoBeat == [rev |-> 0, set |-> {}]

TypeOK ==
  /\ LogTypeOK
  /\ kernel \in SUBSET Addr
  /\ cursor \in Revs /\ disk \in Revs
  /\ forceFull \in BOOLEAN /\ resync \in BOOLEAN
  /\ pc \in {"idle", "wait", "answered", "planned", "persist", "grace"}
  /\ req \in [rev : Revs, full : BOOLEAN]
  /\ resp \in [full : BOOLEAN, rev : Revs, add : SUBSET Addr, del : SUBSET Addr]
  /\ plan \in [add : SUBSET Addr, del : SUBSET Addr]
  /\ upc \in {"idle", "acked", "listed"}
  /\ ack \in SUBSET Addr /\ udel \in SUBSET Addr
  /\ hpc \in {"idle", "revRead", "listed"}
  /\ hb \in [rev : Revs, set : SUBSET Addr]
  /\ memo \in [rev : Revs \cup {-1}, set : SUBSET Addr]
  /\ faults \in 0 .. MaxFaults
  /\ cut \in SUBSET Addr

Init ==
  /\ LogInit
  /\ kernel = {} /\ cursor = 0 /\ disk = 0
  /\ forceFull = TRUE /\ resync = FALSE
  /\ pc = "idle" /\ req = NoReq /\ resp = NoResp /\ plan = NoPlan
  /\ upc = "idle" /\ ack = {} /\ udel = {}
  /\ hpc = "idle" /\ hb = NoBeat
  /\ memo = [rev |-> -1, set |-> {}]
  /\ faults = 0
  /\ cut = {}

Fault(kind) ==
  /\ kind \in Faults
  /\ faults < MaxFaults
  /\ faults' = faults + 1

-----------------------------------------------------------------------------
(* Backend: anything that changes the desired set ends in a recompute.     *)

Recompute ==
  /\ \E desired \in SUBSET Addr : \E moved \in SUBSET (desired \cap authz_current) :
       RecomputeAuthz(desired, moved)
  /\ UNCHANGED <<kernel, cursor, disk, resync, syncVars, usageVars, hbVars, faults, cut>>

Compact ==
  /\ Fault("compact")
  /\ \E k \in Revs : CompactAuthzRevisions(k)
  /\ UNCHANGED <<kernel, cursor, disk, resync, syncVars, usageVars, hbVars, cut>>

-----------------------------------------------------------------------------
(* runSync                                                                 *)

ToIdle ==
  /\ pc' = "idle"
  /\ req' = NoReq
  /\ resp' = NoResp
  /\ plan' = NoPlan

\* The top of the loop: takeResync, the periodic full reconcile, getAuthz.
SyncRequest ==
  /\ pc = "idle"
  /\ \E periodic \in {FALSE, FullSyncEnabled} :
       LET full == forceFull \/ resync \/ periodic
       IN  /\ forceFull' = full
           /\ req' = [rev |-> IF full THEN 0 ELSE cursor, full |-> full]
  /\ resync' = FALSE
  /\ pc' = "wait"
  /\ UNCHANGED <<logVars, kernel, cursor, disk, resp, plan, usageVars, hbVars, faults, cut>>

\* The authz handler has something past the client's revision, or a full
\* set was asked for: writeAuthz.
AnswerBody ==
  /\ pc = "wait"
  /\ req.full \/ req.rev # rev
  /\ resp' = WriteAuthz(req.rev, req.full)
  /\ pc' = "answered"
  /\ UNCHANGED <<logVars, kernel, cursor, disk, resync, forceFull, req, plan,
                 usageVars, hbVars, faults, cut>>

\* The long poll ran to its deadline: 204, errUnchanged.
AnswerUnchanged ==
  /\ pc = "wait"
  /\ ~req.full /\ req.rev = rev
  /\ ToIdle
  /\ forceFull' = FALSE
  /\ UNCHANGED <<logVars, kernel, cursor, disk, resync, usageVars, hbVars, faults, cut>>

\* No answer; graceCheck keeps the set (within the grace window, or not
\* configured to fail closed).
RequestFails ==
  /\ pc = "wait"
  /\ Fault("outage")
  /\ ToIdle
  /\ UNCHANGED <<logVars, kernel, cursor, disk, resync, forceFull, usageVars, hbVars, cut>>

\* No answer past the grace window with failClosedAfterGrace: graceCheck
\* lists the set and then deletes all of it.
GraceList ==
  /\ pc = "wait"
  /\ Fault("failclosed")
  /\ pc' = "grace"
  /\ plan' = [add |-> {}, del |-> kernel]
  /\ UNCHANGED <<logVars, kernel, cursor, disk, resync, forceFull, req, resp,
                 usageVars, hbVars, cut>>

GraceApply ==
  /\ pc = "grace"
  /\ IF plan.del \subseteq kernel
     THEN kernel' = kernel \ plan.del /\ cut' = cut \cup plan.del
     ELSE UNCHANGED <<kernel, cut>>
  /\ ToIdle
  /\ UNCHANGED <<logVars, cursor, disk, resync, forceFull, usageVars, hbVars, faults>>

\* isMassRevoke
IsMassRevoke(del, current) ==
  /\ Cardinality(del) > MassRevokeMin
  /\ Cardinality(del) * 2 > Cardinality(current)

\* Mutant of BatchFor: a full set is only added to what is there.
BatchAddsOnly(r, listed) ==
  IF r.full THEN [add |-> r.add \ listed, del |-> {}]
            ELSE [add |-> r.add, del |-> r.del \cap listed]

\* diffAuthorized against the listed set, or the delta with presentOnly.
BatchFor(r, listed) ==
  IF r.full THEN [add |-> r.add \ listed, del |-> listed \ r.add]
            ELSE [add |-> r.add, del |-> r.del \cap listed]

Refused(r, listed) ==
  /\ r.full
  /\ ~MassRevokeAllowed
  /\ IsMassRevoke(BatchFor(r, listed).del, listed)

\* Mutant of Regressed: the revision of a delta is not looked at.
NeverRegressed(r) == FALSE

\* A delta behind the cursor.  Only a restored database sends one (NeverBehind),
\* so what applyAuthz does with it is an action of AuthzSyncRestore.
Regressed(r) == ~r.full /\ r.rev < cursor

\* applyAuthz up to the batch it is about to run.
ApplyList ==
  /\ pc = "answered"
  /\ ~Refused(resp, kernel)
  /\ ~Regressed(resp)
  /\ plan' = BatchFor(resp, kernel)
  /\ pc' = "planned"
  /\ UNCHANGED <<logVars, kernel, cursor, disk, resync, forceFull, req, resp,
                 usageVars, hbVars, faults, cut>>

\* massRevokeError: with a cursor to fall back to, go on with deltas.
ApplyRefused ==
  /\ pc = "answered"
  /\ Refused(resp, kernel)
  /\ forceFull' = (forceFull /\ cursor = 0)
  /\ ToIdle
  /\ UNCHANGED <<logVars, kernel, cursor, disk, resync, usageVars, hbVars, faults, cut>>

\* ApplyAuthorized: one nft batch, additions before deletions; it fails as a
\* whole when a deletion names a missing member.
BatchApplies(b) == b.del \subseteq kernel \cup b.add

ApplyBatch ==
  /\ pc = "planned"
  /\ BatchApplies(plan)
  /\ kernel' = (kernel \cup plan.add) \ plan.del
  /\ cut' = cut \ plan.add
  /\ pc' = "persist"
  /\ UNCHANGED <<logVars, cursor, disk, resync, forceFull, req, resp, plan,
                 usageVars, hbVars, faults>>

\* The batch was rejected; runSync logs, backs off and asks again.
ApplyRejected ==
  /\ pc = "planned"
  /\ ~BatchApplies(plan)
  /\ ToIdle
  /\ UNCHANGED <<logVars, kernel, cursor, disk, resync, forceFull, usageVars, hbVars,
                 faults, cut>>

\* nft itself failed, on a list or on the batch.
NftFails ==
  /\ pc \in {"answered", "planned"}
  /\ Fault("nft")
  /\ ToIdle
  /\ UNCHANGED <<logVars, kernel, cursor, disk, resync, forceFull, usageVars, hbVars, cut>>

\* withRuntime: memory first, then runtime.json.
Persist ==
  /\ pc = "persist"
  /\ cursor' = resp.rev
  /\ disk' = resp.rev
  /\ forceFull' = FALSE
  /\ ToIdle
  /\ UNCHANGED <<logVars, kernel, resync, usageVars, hbVars, faults, cut>>

PersistFails ==
  /\ pc = "persist"
  /\ Fault("persist")
  /\ cursor' = resp.rev
  /\ ToIdle
  /\ UNCHANGED <<logVars, kernel, disk, resync, forceFull, usageVars, hbVars, cut>>

\* Every other withRuntime (markAuthzOK, collectAndBuffer, flushBuffer, gcAcct)
\* writes the whole runtime, the cursor included.
SaveRuntime ==
  /\ disk # cursor
  /\ disk' = cursor
  /\ UNCHANGED <<logVars, kernel, cursor, resync, syncVars, usageVars, hbVars, faults, cut>>

-----------------------------------------------------------------------------
(* runUsage: inline revocations                                            *)

\* IngestUsage exhausts a quota: its recompute drops addresses and the ack
\* names them.
IngestRevokes ==
  /\ upc = "idle"
  /\ \E desired \in SUBSET Addr : \E moved \in SUBSET (desired \cap authz_current) :
       /\ Removed(desired) # {}
       /\ RecomputeAuthz(desired, moved)
       /\ ack' = Removed(desired)
  /\ upc' = "acked"
  /\ UNCHANGED <<kernel, cursor, disk, resync, syncVars, udel, hbVars, faults, cut>>

\* The ack is lost, or nft fails while it is applied: the retry of the
\* report is a duplicate and revokes nothing.
AckLost ==
  /\ upc # "idle"
  /\ Fault("acklost")
  /\ upc' = "idle" /\ ack' = {} /\ udel' = {}
  /\ UNCHANGED <<logVars, kernel, cursor, disk, resync, syncVars, hbVars, cut>>

\* applyRevocations: presentOnly ...
RevokeList ==
  /\ upc = "acked"
  /\ udel' = ack \cap kernel
  /\ upc' = "listed"
  /\ UNCHANGED <<logVars, kernel, cursor, disk, resync, syncVars, ack, hbVars, faults, cut>>

\* ... then the batch; a rejected batch is logged and forgotten.
RevokeApply ==
  /\ upc = "listed"
  /\ IF udel \subseteq kernel
     THEN kernel' = kernel \ udel /\ cut' = cut \cup udel
     ELSE UNCHANGED <<kernel, cut>>
  /\ upc' = "idle" /\ ack' = {} /\ udel' = {}
  /\ UNCHANGED <<logVars, cursor, disk, resync, syncVars, hbVars, faults>>

-----------------------------------------------------------------------------
(* runHeartbeat                                                            *)

HeartbeatRev ==
  /\ hpc = "idle"
  /\ hb' = [rev |-> cursor, set |-> {}]
  /\ hpc' = "revRead"
  /\ UNCHANGED <<logVars, kernel, cursor, disk, resync, syncVars, usageVars, memo, faults, cut>>

HeartbeatList ==
  /\ hpc = "revRead"
  /\ hb' = [hb EXCEPT !.set = kernel]
  /\ hpc' = "listed"
  /\ UNCHANGED <<logVars, kernel, cursor, disk, resync, syncVars, usageVars, memo, faults, cut>>

\* Mutant of AuthzStatus: the memo outlives its revision.
StatusEverCached == IF memo.rev # -1 THEN memo.set ELSE authz_current

\* AuthzStatus: the fingerprint is memoised per revision.
AuthzStatus == IF memo.rev = rev THEN memo.set ELSE authz_current

\* Mutants of Drifted: nodes that lag are flagged instead; sizes are compared.
DriftedBehind(beat) == beat.rev < rev /\ beat.set # AuthzStatus
DriftedBySize(beat) == beat.rev = rev /\ Cardinality(beat.set) # Cardinality(AuthzStatus)

\* Drift: the node claims our revision and reports another set.
Drifted(beat) == beat.rev = rev /\ beat.set # AuthzStatus

\* The handler's answer and its arrival are one step: a late arrival only
\* delays the resync it asks for.
HeartbeatPost ==
  /\ hpc = "listed"
  /\ resync' = (resync \/ Drifted(hb))
  /\ memo' = [rev |-> rev, set |-> AuthzStatus]
  /\ hpc' = "idle" /\ hb' = NoBeat
  /\ UNCHANGED <<logVars, kernel, cursor, disk, syncVars, usageVars, faults, cut>>

\* The set cannot be listed (size -1, never drift), or the request or its
\* answer is lost.
HeartbeatFails ==
  /\ hpc # "idle"
  /\ Fault("outage")
  /\ memo' \in {memo, [rev |-> rev, set |-> AuthzStatus]}
  /\ hpc' = "idle" /\ hb' = NoBeat
  /\ UNCHANGED <<logVars, kernel, cursor, disk, resync, syncVars, usageVars, cut>>

-----------------------------------------------------------------------------
(* Faults of the node                                                      *)

\* The process ends and starts again: memory is gone, runtime.json and the
\* kernel set stay, and runSync starts with a forced full reconcile.
Restart(persisted) ==
  /\ disk' = persisted
  /\ cursor' = persisted
  /\ forceFull' = TRUE
  /\ resync' = FALSE
  /\ ToIdle
  /\ upc' = "idle" /\ ack' = {} /\ udel' = {}
  /\ hpc' = "idle" /\ hb' = NoBeat
  /\ UNCHANGED <<logVars, kernel, memo, cut>>

Crash == Fault("crash") /\ Restart(disk)

\* runtime.json is unreadable and load starts from a clean state.
CrashCorrupt == Fault("corrupt") /\ Restart(0)

\* The kernel set is emptied out-of-band (up.sh reload, nft flush).
Flush ==
  /\ Fault("flush")
  /\ kernel # {}
  /\ kernel' = {}
  /\ cut' = cut \cup kernel
  /\ UNCHANGED <<logVars, cursor, disk, resync, syncVars, usageVars, hbVars>>

-----------------------------------------------------------------------------
SyncStep ==
  \/ SyncRequest \/ AnswerBody \/ AnswerUnchanged
  \/ ApplyList \/ ApplyRefused
  \/ ApplyBatch \/ ApplyRejected \/ Persist \/ SaveRuntime \/ GraceApply

UsageStep == RevokeList \/ RevokeApply

HeartbeatStep == HeartbeatRev \/ HeartbeatList \/ HeartbeatPost

FaultStep ==
  \/ RequestFails \/ GraceList \/ NftFails \/ PersistFails \/ AckLost
  \/ HeartbeatFails
  \/ Crash \/ CrashCorrupt \/ Flush

Next ==
  \/ Recompute \/ IngestRevokes \/ Compact
  \/ SyncStep \/ UsageStep \/ HeartbeatStep \/ FaultStep

Spec == Init /\ [][Next]_vars

(***************************************************************************)
(* Each loop of the agent keeps running, and the backend answers unless    *)
(* the request fails: the loops never return while the process lives.      *)
(* Every step of a loop moves its program counter (SaveRuntime the file),  *)
(* so these subscripts say the same as vars and are cheaper to check.      *)
(***************************************************************************)
FairSpec ==
  /\ Spec
  /\ WF_<<pc, disk>>(SyncStep)
  /\ WF_upc(UsageStep)
  /\ WF_hpc(HeartbeatStep)

-----------------------------------------------------------------------------
(* Properties                                                              *)

\* An address in the kernel set that was not authorized at the agent's
\* revision is named by a later row of the log, so the next delta (or full
\* set) takes it out: applyAuthz never strands access the log has passed.
StrayCovered ==
  \A a \in kernel : a \in setAt[cursor] \/ touched[a] > cursor

\* An address that was authorized at the agent's revision and is missing
\* from the kernel set is either still to come in a later row, or was taken
\* out by something other than runSync (inline revoke, flush, fail-closed).
MissingExplained ==
  \A a \in setAt[cursor] \ kernel : touched[a] > cursor \/ a \in cut

\* The fingerprint AuthzStatus memoises for a revision is that of the
\* authorized set as long as the revision stands.
MemoFresh == memo.rev = rev => memo.set = authz_current

\* As long as the database keeps its history, no delta is behind the cursor:
\* applyAuthz never takes its revRegressionError exit.
NeverBehind == pc = "answered" => ~Regressed(resp)

\* The hold documented for the mass-revoke guard: a full set is refused and
\* the agent has no revision from which the log could still be replayed.
Held ==
  /\ Refused(FullSet, kernel)
  /\ cursor = 0 \/ Compacted(cursor)

\* Once the authorized set and the faults come to rest, the kernel set
\* becomes the authorized set and stays so, whatever the loops interleaved:
\* deltas, resyncs on drift and the mass-revoke fallback leave nothing
\* behind, except in the documented hold.
Converges == <>[](kernel = authz_current \/ Held)
=============================================================================
