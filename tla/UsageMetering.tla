---------------------------- MODULE UsageMetering ---------------------------
(***************************************************************************)
(* From the kernel's byte counters to the bytes the backend has billed     *)
(* (agent/agent.go runUsage, agent/usage.go, agent/state.go, and the       *)
(* idempotent part of backend/store/usage.go IngestUsage).                 *)
(*                                                                         *)
(* runUsage is one goroutine: it reads the nftables counters, turns them   *)
(* into a report against the persisted baselines, and posts the buffered   *)
(* reports oldest first.  Traffic, counter resets and crashes happen       *)
(* between any two of its steps.  A counter element that does not exist    *)
(* and one that shows 0, and likewise a baseline, are the same to          *)
(* computeDelta, so both are 0 here.                                       *)
(***************************************************************************)
EXTENDS Integers, Sequences, Sums

CONSTANTS Key,         \* the (address, port) pairs the acct set counts
          MaxTraffic,  \* bound: bytes that pass per key
          BufferCap,   \* agent bufferCap
          Faults,      \* the faults this instance may meet
          MaxFaults    \* bound: how many of them

FaultKinds == {"crash", "corrupt", "recovery", "persist", "lost", "nft", "reset", "revoke"}

ASSUME MeteringAssumption ==
  /\ MaxTraffic \in Nat
  /\ BufferCap \in Nat \ {0}
  /\ Faults \subseteq FaultKinds
  /\ MaxFaults \in Nat

VARIABLES acct,      \* the counters of the nftables set acct
          rt,        \* the runtime in memory
          disk,      \* runtime.json, when it can be read
          file,      \* whether it can
          pc,        \* where runUsage is
          cur,       \* what ReadAcct returned
          report,    \* the report being delivered
          revoke,    \* ack.Revoke
          nextId,    \* the next randID
          ingested,  \* usage_reports.id
          billed,    \* bytes the backend has attributed
          faults,    \* faults so far
          traffic,   \* history: bytes that passed
          lossy,     \* history: bytes were written off by design
          ahead,     \* history: baselines or the prime flag are in memory only
          exposed    \* history: a crash happened while it was

agentVars == <<rt, disk, file, pc, cur, report, revoke, nextId>>
backendVars == <<ingested, billed>>
history == <<ahead, exposed>>
vars == <<acct, agentVars, backendVars, faults, traffic, lossy, history>>

Bytes == [Key -> Nat]
Zero == [k \in Key |-> 0]
Report == [id : Nat, samples : Bytes]
Runtime == [base : Bytes, buf : Seq(Report), prime : BOOLEAN]
NoReport == [id |-> 0, samples |-> Zero]

\* Runtime values: the fresh one, and the one load substitutes for a file it
\* could not parse.
Fresh == [base |-> Zero, buf |-> <<>>, prime |-> FALSE]
Recovered == [base |-> Zero, buf |-> <<>>, prime |-> TRUE]

Init ==
  /\ acct = Zero /\ traffic = Zero
  /\ rt = Fresh /\ disk = Fresh /\ file = "none"
  /\ pc = "collect" /\ cur = Zero /\ report = NoReport /\ revoke = {}
  /\ nextId = 1
  /\ ingested = {} /\ billed = Zero
  /\ faults = 0 /\ lossy = FALSE
  /\ ahead = FALSE /\ exposed = FALSE

Fault(kind) ==
  /\ kind \in Faults
  /\ faults < MaxFaults
  /\ faults' = faults + 1

\* writeJSONAtomic: the whole runtime replaces the file, or nothing does.
Write(r) ==
  /\ disk' = r /\ file' = "ok"
  /\ ahead' = FALSE /\ UNCHANGED exposed

Add(f, g) == [k \in Key |-> f[k] + g[k]]

-----------------------------------------------------------------------------
(* The kernel                                                              *)

Traffic(k) ==
  /\ traffic[k] < MaxTraffic
  /\ traffic' = [traffic EXCEPT ![k] = @ + 1]
  /\ acct' = [acct EXCEPT ![k] = @ + 1]
  /\ UNCHANGED <<agentVars, backendVars, faults, lossy, history>>

\* A reboot or a table reload: every counter starts over.
CounterReset ==
  /\ Fault("reset")
  /\ acct # Zero
  /\ acct' = Zero
  /\ lossy' = TRUE
  /\ UNCHANGED <<agentVars, backendVars, traffic, history>>

-----------------------------------------------------------------------------
(* collectAndBuffer                                                        *)

ReadAcct ==
  /\ pc = "collect"
  /\ cur' = acct
  /\ pc' = "read"
  /\ UNCHANGED <<acct, rt, disk, file, report, revoke, nextId, backendVars, faults, traffic, lossy, history>>

\* The counters cannot be read; what is buffered is still delivered.
ReadFails ==
  /\ pc = "collect"
  /\ Fault("nft")
  /\ pc' = "flush"
  /\ UNCHANGED <<acct, rt, disk, file, cur, report, revoke, nextId, backendVars, traffic, lossy, history>>

\* computeDelta for one element; below its baseline the counter was reset.
Delta(last, abs) == IF abs >= last THEN abs - last ELSE abs

Deltas == [k \in Key |-> Delta(rt.base[k], cur[k])]

\* Mutant of Capped: the buffer grows without bound.
Uncapped(buf) == buf

\* The oldest reports go when the buffer is over its cap.
Capped(buf) == IF Len(buf) > BufferCap
               THEN SubSeq(buf, Len(buf) - BufferCap + 1, Len(buf))
               ELSE buf

\* The function withRuntime runs: baselines and buffer move together.
Collected ==
  IF rt.prime \/ Deltas = Zero
  THEN [rt EXCEPT !.base = cur, !.prime = FALSE]
  ELSE [rt EXCEPT !.base = cur,
                  !.buf = Capped(Append(@, [id |-> nextId, samples |-> Deltas]))]

Collect(saved) ==
  /\ pc = "read"
  /\ rt' = Collected
  /\ IF saved THEN Write(rt')
              ELSE ahead' = TRUE /\ UNCHANGED <<disk, file, exposed>>
  /\ nextId' = IF rt'.buf # rt.buf THEN nextId + 1 ELSE nextId
  /\ lossy' = (lossy \/ rt.prime \/ (Deltas # Zero /\ Len(rt.buf) >= BufferCap))
  /\ cur' = Zero
  /\ pc' = "flush"
  /\ UNCHANGED <<acct, report, revoke, backendVars, traffic>>

CollectAndBuffer == Collect(TRUE) /\ UNCHANGED faults

\* The write fails after memory was changed; runUsage logs it and goes on.
CollectNotSaved == Fault("persist") /\ Collect(FALSE)

-----------------------------------------------------------------------------
(* flushBuffer                                                             *)

FlushDone ==
  /\ pc = "flush" /\ rt.buf = <<>>
  /\ pc' = "collect"
  /\ UNCHANGED <<acct, rt, disk, file, cur, report, revoke, nextId, backendVars, faults, traffic, lossy, history>>

PostUsage ==
  /\ pc = "flush" /\ rt.buf # <<>>
  /\ report' = Head(rt.buf)
  /\ pc' = "posted"
  /\ UNCHANGED <<acct, rt, disk, file, cur, revoke, nextId, backendVars, faults, traffic, lossy, history>>

\* Mutant of Duplicate: the report id is not looked up.
NeverDuplicate(r) == FALSE

Duplicate(r) == r.id \in ingested

\* IngestUsage: a report that was seen before changes and revokes nothing.
\* Otherwise the recompute that follows may name addresses to revoke; which
\* ones is the quota's business, so any keys will do ("revoke" bounds how often).
Ingest ==
  /\ pc = "posted"
  /\ IF Duplicate(report)
     THEN /\ UNCHANGED <<backendVars, faults>>
          /\ revoke' = {}
     ELSE /\ ingested' = ingested \cup {report.id}
          /\ billed' = Add(billed, report.samples)
          /\ \/ revoke' = {} /\ UNCHANGED faults
             \/ revoke' \in (SUBSET Key) \ {{}} /\ Fault("revoke")
  /\ pc' = "acked"
  /\ UNCHANGED <<acct, rt, disk, file, cur, report, nextId, traffic, lossy, history>>

\* Mutant of PostFails: the report is dropped when it cannot be delivered.
PostFailsDrops ==
  /\ pc \in {"posted", "acked"}
  /\ Fault("lost")
  /\ pc' = "collect"
  /\ rt' = [rt EXCEPT !.buf = Tail(@)]
  /\ report' = NoReport /\ revoke' = {}
  /\ UNCHANGED <<acct, disk, file, cur, nextId, backendVars, traffic, lossy, history>>

\* The request does not arrive, or its answer does not (the recompute of
\* IngestUsage failing after its transaction committed included): the report
\* stays buffered and flushBuffer returns.
PostFails ==
  /\ pc \in {"posted", "acked"}
  /\ Fault("lost")
  /\ pc' = "collect"
  /\ report' = NoReport /\ revoke' = {}
  /\ UNCHANGED <<acct, rt, disk, file, cur, nextId, backendVars, traffic, lossy, history>>

\* applyRevocations ends in gcAcct, which deletes the revoked counters with
\* what they counted since they were read.
ApplyRevocations ==
  /\ pc = "acked"
  /\ acct' = [k \in Key |-> IF k \in revoke THEN 0 ELSE acct[k]]
  /\ lossy' = (lossy \/ acct' # acct)
  /\ pc' = "remove"
  /\ UNCHANGED <<rt, disk, file, cur, report, revoke, nextId, backendVars, faults, traffic, history>>

\* An nft failure leaves the counters; it is logged and ignored.
RevocationsFail ==
  /\ pc = "acked" /\ revoke # {}
  /\ Fault("nft")
  /\ pc' = "remove"
  /\ UNCHANGED <<acct, rt, disk, file, cur, report, revoke, nextId, backendVars, traffic, lossy, history>>

\* Mutant of WithoutReport: a delivered report stays at the head.
WithReport == rt

WithoutReport ==
  IF rt.buf # <<>> /\ Head(rt.buf).id = report.id THEN [rt EXCEPT !.buf = Tail(@)] ELSE rt

Dequeue(saved) ==
  /\ pc = "remove"
  /\ rt' = WithoutReport
  /\ IF saved THEN Write(rt') ELSE UNCHANGED <<disk, file, history>>
  /\ pc' = IF saved THEN "flush" ELSE "collect"
  /\ report' = NoReport /\ revoke' = {}
  /\ UNCHANGED <<acct, cur, nextId, backendVars, traffic, lossy>>

RemoveReport == Dequeue(TRUE) /\ UNCHANGED faults

RemoveNotSaved == Fault("persist") /\ Dequeue(FALSE)

\* withRuntime of another loop writes the whole runtime.
SaveRuntime ==
  /\ pc \notin {"down", "recover"}
  /\ disk # rt \/ file # "ok"
  /\ Write(rt)
  /\ UNCHANGED <<acct, rt, pc, cur, report, revoke, nextId, backendVars, faults, traffic, lossy>>

-----------------------------------------------------------------------------
(* Crashes and openStore                                                   *)

Stop ==
  /\ pc' = "down"
  /\ rt' = Fresh /\ cur' = Zero /\ report' = NoReport /\ revoke' = {}
  /\ exposed' = (exposed \/ ahead) /\ ahead' = FALSE
  /\ UNCHANGED <<acct, nextId, backendVars, traffic>>

Crash == pc \notin {"down", "recover"} /\ Fault("crash") /\ Stop /\ UNCHANGED <<disk, file, lossy>>

\* The file is left unreadable; what only it held is written off.
CrashCorrupt ==
  /\ pc \notin {"down", "recover"}
  /\ Fault("corrupt")
  /\ Stop
  /\ file' = "corrupt" /\ disk' = Fresh
  /\ lossy' = TRUE

\* load: a readable file, or none at all (then disk is Fresh).
Start ==
  /\ pc = "down" /\ file # "corrupt"
  /\ rt' = disk
  /\ pc' = "collect"
  /\ UNCHANGED <<acct, disk, file, cur, report, revoke, nextId, backendVars, faults, traffic, lossy, history>>

\* load: an unreadable file is moved aside ...
MoveAside ==
  /\ pc = "down" /\ file = "corrupt"
  /\ file' = "none"
  /\ rt' = Recovered
  /\ pc' = "recover"
  /\ ahead' = TRUE
  /\ UNCHANGED <<acct, disk, cur, report, revoke, nextId, backendVars, faults, traffic, lossy, exposed>>

\* ... and openStore writes the clean state at once.
PersistRecovered ==
  /\ pc = "recover"
  /\ Write(rt)
  /\ pc' = "collect"
  /\ UNCHANGED <<acct, rt, cur, report, revoke, nextId, backendVars, faults, traffic, lossy>>

\* The process ends before that write, or the write fails and openStore with it.
RecoveryFails ==
  /\ pc = "recover"
  /\ Fault("recovery")
  /\ Stop
  /\ UNCHANGED <<disk, file, lossy>>

-----------------------------------------------------------------------------
UsageStep ==
  \/ ReadAcct \/ CollectAndBuffer
  \/ FlushDone \/ PostUsage \/ Ingest \/ ApplyRevocations \/ RemoveReport
  \/ Start \/ MoveAside \/ PersistRecovered

FaultStep ==
  \/ CounterReset \/ ReadFails \/ CollectNotSaved \/ PostFails \/ RevocationsFail
  \/ RemoveNotSaved \/ Crash \/ CrashCorrupt \/ RecoveryFails

Next ==
  \/ \E k \in Key : Traffic(k)
  \/ UsageStep \/ SaveRuntime \/ FaultStep

Spec == Init /\ [][Next]_vars

\* runUsage never returns while the process lives, and the process is
\* restarted when it ends (compose restart policy).
FairSpec == Spec /\ WF_vars(UsageStep)

-----------------------------------------------------------------------------
TypeOK ==
  /\ acct \in Bytes /\ traffic \in Bytes /\ billed \in Bytes /\ cur \in Bytes
  /\ rt \in Runtime
  /\ Len(rt.buf) <= BufferCap
  /\ disk \in Runtime
  /\ file \in {"ok", "none", "corrupt"}
  /\ pc \in {"collect", "read", "flush", "posted", "acked", "remove", "down", "recover"}
  /\ report \in Report /\ revoke \in SUBSET Key
  /\ nextId \in Nat /\ ingested \in SUBSET Nat
  /\ faults \in 0 .. MaxFaults
  /\ lossy \in BOOLEAN /\ ahead \in BOOLEAN /\ exposed \in BOOLEAN

\* The reports of a buffer that the backend has not seen, and their bytes.
Unseen(buf) == {r \in Range(buf) : r.id \notin ingested}
BytesIn(reports, k) == SumOver([r \in reports |-> r.samples[k]], reports)
Undelivered(buf, k) == BytesIn(Unseen(buf), k)

\* A byte is billed twice only after a crash that met a collection, or the
\* recovery of runtime.json, no write had saved: not by a retried report, a
\* lost ack, a report that could not be taken off the buffer, a counter
\* reset, any other crash, nor by a failed write that a later one makes good.
CountedOnce == exposed \/ \A k \in Key : billed[k] <= traffic[k]

\* No byte is billed twice: not by a retried report, a lost ack, a counter
\* reset, a crash of the agent at any point of collectAndBuffer, flushBuffer
\* or openStore, nor after runtime.json was lost.
NeverDoubleCounts == \A k \in Key : billed[k] <= traffic[k]

\* Unless counters were reset or deleted, runtime.json was lost, or the
\* buffer overflowed, every byte that passed is billed, in a report the
\* backend has still to see, or above its baseline: a crash or a failed
\* delivery loses nothing.
NothingLost ==
  (pc \notin {"down", "recover"} /\ ~lossy /\ ~exposed) =>
    \A k \in Key :
      billed[k] + Undelivered(rt.buf, k) + (acct[k] - rt.base[k]) = traffic[k]

\* Every byte that was not written off ends up billed, once: what runUsage
\* metered is delivered however often a delivery or a write fails.
EventuallyBilled == <>[](lossy \/ exposed \/ billed = traffic)
=============================================================================
