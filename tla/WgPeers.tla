------------------------------ MODULE WgPeers -------------------------------
(***************************************************************************)
(* WireGuard devices: the portal issues peers (backend/store/wg.go,        *)
(* backend/portal.go wgNew and wgDelete) and the agent of an exit mirrors  *)
(* the peer table onto its interface (agent/wg.go).                        *)
(*                                                                         *)
(* Issuing is a transaction of several statements under READ COMMITTED.    *)
(* Requests for one address take turns on an advisory lock; requests for   *)
(* different addresses meet in the allocation sequence, which no rollback  *)
(* takes back, and in the unique indexes on pubkey and idx, where the      *)
(* second of two inserts waits for the first to end.  Whom a session may   *)
(* issue for is Whitelist's subject: here the transaction may be refused.  *)
(*                                                                         *)
(* The agent polls with the etag of the last table it applied.  An idx     *)
(* stands for the two inner addresses pool4+idx and pool6::idx, 0 for      *)
(* none.                                                                   *)
(***************************************************************************)
EXTENDS Integers, FiniteSets

CONSTANTS Addr,       \* fips addresses devices are issued to
          Key,        \* client public keys
          Req,        \* portal requests that may run at once
          MaxPeers,   \* MaxWgPeersPerAddr
          PoolSize,   \* addresses of the v4 pool
          Attempts,   \* tries for a free slot
          MaxIssue,   \* bound: requests that ask for a device
          MaxFaults   \* bound: failed wg commands, outside changes, restarts

ASSUME WgAssumption ==
  /\ IsFiniteSet(Key) /\ MaxPeers \in Nat \ {0} /\ Attempts \in Nat \ {0}
  /\ PoolSize \in Nat /\ PoolSize > 3
  /\ MaxIssue \in Nat /\ MaxFaults \in Nat

VARIABLES table,    \* wg_peers as committed: the address and slot of each key
          seq,      \* wg_peer_alloc, modulo the slots
          req,      \* the requests; alone is history: nothing crossed it so far
          issues,   \* requests started
          iface,    \* the interface: the slot routed to each configured key
          etag,     \* wgEtag: the table it was computed from, or nothing
          due,      \* is the next poll a full one?
          job,      \* where runWgSync is
          faults,   \* faults so far
          dirty     \* history: the interface was changed or left behind

reqVars == <<seq, req, issues>>
agentVars == <<iface, etag, due, job, faults, dirty>>
vars == <<table, reqVars, agentVars>>

Slots == PoolSize - 3
PeersOf(t, a) == {k \in DOMAIN t : t[k].addr = a}
Taken(t) == {t[k].idx : k \in DOMAIN t}
Some(S, T) == UNION {[D -> T] : D \in SUBSET S}

\* The tables the unique indexes and the cap allow.
Tables ==
  {t \in Some(Key, [addr : Addr, idx : 2..(Slots + 1)]) :
     /\ \A k, d \in DOMAIN t : t[k].idx = t[d].idx => k = d
     /\ \A a \in Addr : Cardinality(PeersOf(t, a)) <= MaxPeers}

\* What the agent is told, and what the etag is a hash of.
WgPeerTable(t) == [k \in DOMAIN t |-> t[k].idx]

Idle == [pc |-> "idle"]
NoJob == [pc |-> "idle"]
Nobody == [k \in {} |-> 0]
InTx == {"counted", "drawn", "inserted"}

TypeOK ==
  /\ DOMAIN table \subseteq Key /\ \A k \in DOMAIN table : table[k].addr \in Addr
  /\ seq \in 0..(Slots - 1) /\ issues \in 0..MaxIssue
  /\ \A r \in Req : req[r].pc \in InTx \cup {"idle", "asked", "full"}
  /\ iface \in Some(Key, 0..(PoolSize - 1))
  /\ etag \in SUBSET Some(Key, 1..(PoolSize - 1)) /\ Cardinality(etag) <= 1
  /\ job.pc \in {"idle", "answered"}
  /\ due \in BOOLEAN /\ dirty \in BOOLEAN /\ faults \in 0..MaxFaults

\* Devices have come and gone before, so that the sequence stands anywhere.
\* The agent is up to date.
Init ==
  /\ table \in Tables
  /\ seq \in 0..(Slots - 1)
  /\ req = [r \in Req |-> Idle] /\ issues = 0
  /\ iface = WgPeerTable(table) /\ etag = {iface} /\ due = FALSE
  /\ job = NoJob /\ faults = 0 /\ dirty = FALSE

-----------------------------------------------------------------------------
(* CreateWgPeer                                                            *)

Becomes(r, new) == req' = [req EXCEPT ![r] = new]
At(r, pc) == req[r].pc = pc
With(r, pc) == Becomes(r, [req[r] EXCEPT !.pc = pc])
Crossed == [q \in Req |-> IF At(q, "idle") THEN Idle ELSE [req[q] EXCEPT !.alone = FALSE]]

\* The form: a device of one's own or of a guest, with a key of one's own or a
\* generated one.
WgNew(r, a, k) ==
  /\ At(r, "idle") /\ issues < MaxIssue
  /\ req' = [Crossed EXCEPT ![r] = [pc |-> "asked", addr |-> a, key |-> k, tries |-> 0,
                                    idx |-> 0, alone |-> \A q \in Req : At(q, "idle")]]
  /\ issues' = issues + 1
  /\ UNCHANGED <<table, seq, agentVars>>

\* Whose advisory lock a request waits for.
LockedBy(r) == {q \in Req \ {r} : req[q].pc \in InTx /\ req[q].addr = req[r].addr}

\* Mutant of CountPeers: issuance is not serialized.
CountUnlocked(r) ==
  /\ At(r, "asked")
  /\ IF Cardinality(PeersOf(table, req[r].addr)) < MaxPeers THEN With(r, "counted")
                                                            ELSE Becomes(r, Idle)
  /\ UNCHANGED <<table, seq, issues, agentVars>>

\* With the advisory lock of the address: the permission, the account and the
\* cap; ErrWgPeerLimit ends the request.
CountPeers(r) ==
  /\ At(r, "asked") /\ LockedBy(r) = {}
  /\ IF Cardinality(PeersOf(table, req[r].addr)) < MaxPeers THEN With(r, "counted")
                                                            ELSE Becomes(r, Idle)
  /\ UNCHANGED <<table, seq, issues, agentVars>>

\* Mutant of NextSlot: the pool's first address, the exit's own, is not left out.
NextSlotFromGateway(r) ==
  /\ At(r, "counted")
  /\ Becomes(r, [req[r] EXCEPT !.pc = "drawn", !.idx = 1 + seq])
  /\ seq' = (seq + 1) % Slots
  /\ UNCHANGED <<table, issues, agentVars>>

\* Mutant of NextSlot: the same slot is tried again and again.
NextSlotStays(r) ==
  /\ At(r, "counted")
  /\ Becomes(r, [req[r] EXCEPT !.pc = "drawn", !.idx = 2 + seq])
  /\ UNCHANGED <<table, seq, issues, agentVars>>

\* 2 + nextval('wg_peer_alloc') % slots
NextSlot(r) ==
  /\ At(r, "counted")
  /\ Becomes(r, [req[r] EXCEPT !.pc = "drawn", !.idx = 2 + seq])
  /\ seq' = (seq + 1) % Slots
  /\ UNCHANGED <<table, issues, agentVars>>

\* Mutant of InsertedBy: a transaction reserves its slot and key before it
\* inserts them.
ReservedBy(r) ==
  {q \in Req \ {r} : /\ req[q].pc \in {"drawn", "inserted"}
                     /\ req[q].idx = req[r].idx \/ req[q].key = req[r].key}

\* An insert waits for the end of a transaction that inserted the same slot or
\* key.
InsertedBy(r) ==
  {q \in Req \ {r} : /\ At(q, "inserted")
                     /\ req[q].idx = req[r].idx \/ req[q].key = req[r].key}

\* INSERT ... ON CONFLICT (idx) DO NOTHING: a taken slot means another try or
\* ErrWgPoolFull, a key in use ErrWgBadKey.
InsertPeer(r) ==
  /\ At(r, "drawn") /\ InsertedBy(r) = {}
  /\ \/ /\ req[r].idx \in Taken(table)
        /\ Becomes(r, [req[r] EXCEPT
             !.pc = IF req[r].tries + 1 = Attempts THEN "full" ELSE "counted",
             !.tries = @ + 1])
     \/ /\ req[r].idx \notin Taken(table)
        /\ IF req[r].key \in DOMAIN table THEN Becomes(r, Idle) ELSE With(r, "inserted")
  /\ UNCHANGED <<table, seq, issues, agentVars>>

CommitPeer(r) ==
  /\ At(r, "inserted")
  /\ table' = [k \in DOMAIN table \cup {req[r].key} |->
                 IF k = req[r].key THEN [addr |-> req[r].addr, idx |-> req[r].idx] ELSE table[k]]
  /\ Becomes(r, Idle)
  /\ UNCHANGED <<seq, issues, agentVars>>

\* ErrWgForbidden, ErrWgNotActive, a lost connection; a full pool is told to
\* the user.
Refused(r) ==
  /\ req[r].pc \in InTx \cup {"asked", "full"}
  /\ Becomes(r, Idle)
  /\ UNCHANGED <<table, seq, issues, agentVars>>

\* wgDelete: by the account or by the device's own npub.
DeleteWgPeer(k) ==
  /\ k \in DOMAIN table
  /\ table' = [d \in DOMAIN table \ {k} |-> table[d]]
  /\ req' = Crossed
  /\ UNCHANGED <<seq, issues, agentVars>>

-----------------------------------------------------------------------------
(* runWgSync                                                               *)

\* Mutant of WgPoll: the etag is sent every time.
WgPollByEtag ==
  /\ job.pc = "idle"
  /\ etag # {WgPeerTable(table)}
  /\ job' = [pc |-> "answered", table |-> WgPeerTable(table), full |-> FALSE]
  /\ UNCHANGED <<table, reqVars, iface, etag, due, faults, dirty>>

\* getWgPeers: the table as it is now, with its etag, unless the etag sent is
\* the same; a full poll sends none.
WgPoll ==
  /\ job.pc = "idle"
  /\ due \/ etag # {WgPeerTable(table)}
  /\ job' = [pc |-> "answered", table |-> WgPeerTable(table), full |-> due \/ etag = {}]
  /\ UNCHANGED <<table, reqVars, iface, etag, due, faults, dirty>>

\* diffPeers: what is missing or routed elsewhere, and what has to go.
DiffPeers(current, desired) ==
  [add |-> {k \in DOMAIN desired : k \notin DOMAIN current \/ current[k] # desired[k]},
   del |-> DOMAIN current \ DOMAIN desired]

\* wg set: an allowed ip moves to the peer it is given to.
SetPeers(add, del, desired) ==
  iface' = [k \in (DOMAIN iface \cup add) \ del |->
              IF k \in add THEN desired[k]
              ELSE IF \E n \in add : desired[n] = iface[k] THEN 0 ELSE iface[k]]

\* applyWgPeers when the changes of bad fail, in the batch and on their own:
\* the others are made, and the etag advances all the same.
ApplyWgPeers(bad) ==
  LET diff == DiffPeers(iface, job.table) IN
  /\ job.pc = "answered"
  /\ bad = {} \/ (bad \subseteq diff.add \cup diff.del /\ faults < MaxFaults)
  /\ bad # {} => bad # diff.add \cup diff.del
  /\ faults' = IF bad = {} THEN faults ELSE faults + 1
  /\ SetPeers(diff.add \ bad, diff.del \ bad, job.table)
  /\ etag' = {job.table}
  /\ due' = (due /\ ~job.full)
  /\ dirty' = (bad # {})
  /\ job' = NoJob
  /\ UNCHANGED <<table, reqVars>>

\* Mutant of ApplyFails: the etag advances although nothing was applied.
ApplyFailsSilently ==
  /\ job.pc = "answered" /\ faults < MaxFaults
  /\ faults' = faults + 1
  /\ etag' = {job.table}
  /\ job' = NoJob
  /\ UNCHANGED <<table, reqVars, iface, due, dirty>>

\* The interface cannot be listed, or every change fails: an error, and the
\* next poll asks with the old etag.
ApplyFails ==
  /\ job.pc = "answered" /\ faults < MaxFaults
  /\ faults' = faults + 1
  /\ job' = NoJob
  /\ UNCHANGED <<table, reqVars, iface, etag, due, dirty>>

\* fullSyncEvery passes.
FullSyncDue ==
  /\ ~due
  /\ due' = TRUE
  /\ UNCHANGED <<table, reqVars, iface, etag, job, faults, dirty>>

\* A wg set from outside, or an interface brought down and up.
OutOfBand(to) ==
  /\ faults < MaxFaults /\ to # iface
  /\ faults' = faults + 1
  /\ iface' = to
  /\ dirty' = TRUE
  /\ UNCHANGED <<table, reqVars, etag, due, job>>

\* The agent starts again: the etag and the time of the last full poll are in
\* memory only.
Restart ==
  /\ etag # {} \/ job # NoJob
  /\ faults < MaxFaults /\ faults' = faults + 1
  /\ etag' = {} /\ due' = TRUE /\ job' = NoJob
  /\ UNCHANGED <<table, reqVars, iface, dirty>>

-----------------------------------------------------------------------------
ReqStep(r) == CountPeers(r) \/ NextSlot(r) \/ InsertPeer(r) \/ CommitPeer(r)

AgentStep ==
  \/ WgPoll \/ ApplyFails \/ FullSyncDue \/ Restart
  \/ \E bad \in SUBSET Key : ApplyWgPeers(bad)
  \/ OutOfBand(Nobody)
  \/ \E k, d \in DOMAIN iface : OutOfBand([iface EXCEPT ![k] = iface[d], ![d] = iface[k]])

Next ==
  \/ \E r \in Req :
       ReqStep(r) \/ Refused(r) \/ \E a \in Addr, k \in Key : WgNew(r, a, k)
  \/ \E k \in Key : DeleteWgPeer(k)
  \/ AgentStep

Spec == Init /\ [][Next]_vars

\* The agent's loop and its clock go on.
FairSpec ==
  /\ Spec
  /\ WF_vars(WgPoll) /\ WF_vars(ApplyWgPeers({})) /\ WF_vars(FullSyncDue)

-----------------------------------------------------------------------------
\* An address never has more devices than the cap, however its requests are
\* interleaved: a form submitted twice is counted twice (CreateWgPeer).
CapHolds == \A a \in Addr : Cardinality(PeersOf(table, a)) <= MaxPeers

\* Every device has inner addresses of its own, none of them the network's,
\* the exit's or the broadcast address, however often the sequence has wrapped.
OwnInnerAddress ==
  /\ Taken(table) \subseteq 2..(PoolSize - 2)
  /\ \A k, d \in DOMAIN table : table[k].idx = table[d].idx => k = d

\* A request that nothing crossed is told that the pool is full only when as
\* many slots are taken as it may try: none of its tries is wasted.
FullIsCrowded ==
  \A r \in Req : At(r, "full") /\ req[r].alone =>
    Cardinality(Taken(table)) >= IF Attempts < Slots THEN Attempts ELSE Slots

\* The etag tells the truth: while nobody changed the interface and no change
\* was skipped, it is the etag of what the interface has, so that a 204 means
\* there is nothing to do.
EtagTruthful == etag # {} /\ ~dirty => etag = {iface}

\* No two requests wait for one another on the address locks and the unique
\* indexes: of those that wait, one waits for a transaction that can go on.
WaitsFor(r) == IF At(r, "asked") THEN LockedBy(r)
               ELSE IF At(r, "drawn") THEN InsertedBy(r) ELSE {}
NoDeadlock ==
  \A r \in Req : WaitsFor(r) # {} => \E q \in Req \ {r} : req[q].pc \in InTx /\ WaitsFor(q) = {}

\* Once the faults are over the interface becomes the table: what a poll
\* skipped, what changed from outside and what a restart forgot, the periodic
\* full poll repairs; a deleted key does not stay accepted.
InterfaceFollows == <>[](iface = WgPeerTable(table))
=============================================================================
