----------------------------- MODULE RecomputeTx ----------------------------
(***************************************************************************)
(* RecomputeAuthz as the Postgres transaction it is                        *)
(* (backend/store/authz.go, backend/store/store.go inTx), with several     *)
(* recomputes in progress at once.  AuthzLog takes each of them as one     *)
(* step; Log below is that specification, and the committed state of this  *)
(* one implements it.                                                      *)
(*                                                                         *)
(* What Postgres contributes: pg_advisory_xact_lock is held until the end  *)
(* of the transaction, a statement sees what was committed before it, rows *)
(* become visible on commit, a serial number is drawn when the row is      *)
(* inserted and not given back by a rollback, and now(), by which expiry   *)
(* is judged and which is the default of created_at, is the time the       *)
(* transaction began.  A recompute that waited for the lock thus has a     *)
(* higher rev and an older created_at than the one it waited for, and a    *)
(* compaction whose cutoff is between the two takes rows out of the middle *)
(* of the log: holes.                                                      *)
(***************************************************************************)
EXTENDS AuthzLog

CONSTANTS Tx,         \* the recomputes that may be in progress
          MaxBegun,   \* bound: how many are begun in all
          Rollbacks   \* may a recompute roll back?

None == "none"

ASSUME TxAssumption == MaxBegun \in Nat /\ Rollbacks \in BOOLEAN /\ None \notin Tx

VARIABLES desired,   \* what desiredSQL returns now
          created,   \* authz_revisions.created_at of the committed rows
          seq,       \* the last serial number drawn
          clock,     \* time, counted in transactions begun
          lock,      \* the advisory lock: the transaction holding it, or None
          tx,        \* the transactions
          holes      \* history: compacted rows above one that is kept

txVars == <<desired, created, seq, clock, lock, tx, holes>>
recomputeVars == <<logVars, txVars>>

NoTx == [pc |-> "idle", start |-> 0, seen |-> {}, want |-> {}, add |-> {}, del |-> {}, rows |-> {}]

TxInit ==
  /\ LogInit
  /\ desired = {}
  /\ created = [r \in 1 .. MaxRev |-> 0]
  /\ seq = 0 /\ clock = 0
  /\ lock = None
  /\ tx = [t \in Tx |-> NoTx]
  /\ holes = {}

\* A grant, an expiry, a whitelist change: the next recompute will see it.
Change ==
  /\ desired' \in (SUBSET Addr) \ {desired}
  /\ UNCHANGED <<logVars, created, seq, clock, lock, tx, holes>>

Begin(t) ==
  /\ tx[t].pc = "idle"
  /\ clock < MaxBegun
  /\ clock' = clock + 1
  /\ tx' = [tx EXCEPT ![t].pc = "begun", ![t].start = clock + 1, ![t].seen = desired]
  /\ UNCHANGED <<logVars, desired, created, seq, lock, holes>>

\* Mutant of Lock: the advisory lock is not waited for.
LockNoWait(t) ==
  /\ tx[t].pc = "begun"
  /\ lock' = t
  /\ tx' = [tx EXCEPT ![t].pc = "locked"]
  /\ UNCHANGED <<logVars, desired, created, seq, clock, holes>>

\* pg_advisory_xact_lock
Lock(t) ==
  /\ tx[t].pc = "begun"
  /\ lock = None
  /\ lock' = t
  /\ tx' = [tx EXCEPT ![t].pc = "locked"]
  /\ UNCHANGED <<logVars, desired, created, seq, clock, holes>>

\* Both scans.  An address whose entitlement began or expired since the
\* transaction began is judged as it was then; members that moved to another
\* account are any of those kept.
Scan(t) ==
  /\ tx[t].pc = "locked"
  /\ \E want \in SUBSET Addr : \E moved \in SUBSET (want \cap authz_current) :
       /\ desired \cap tx[t].seen \subseteq want
       /\ want \subseteq desired \cup tx[t].seen
       /\ tx' = [tx EXCEPT ![t].pc = "writing", ![t].want = want, ![t].seen = {},
                           ![t].add = (want \ authz_current) \cup moved,
                           ![t].del = authz_current \ want]
  /\ UNCHANGED <<logVars, desired, created, seq, clock, lock, holes>>

\* The next INSERT INTO authz_revisions; the additions come first.
Insert(t, op, a) ==
  /\ tx[t].pc = "writing"
  /\ a \in IF op = "add" THEN tx[t].add ELSE tx[t].del
  /\ op = "del" => tx[t].add = {}
  /\ seq < MaxRev
  /\ seq' = seq + 1
  /\ tx' = [tx EXCEPT ![t].rows = @ \cup {[rev |-> seq + 1, op |-> op, addr |-> a]},
                      ![t].add = @ \ {a}, ![t].del = @ \ {a}]
  /\ UNCHANGED <<logVars, desired, created, clock, lock, holes>>

End(t) ==
  /\ tx' = [tx EXCEPT ![t] = NoTx]
  /\ lock' = IF lock = t THEN None ELSE lock

\* The history variables follow the commit.
Commit(t) ==
  LET new == tx[t].rows
      last == CHOOSE r \in Revs : /\ \A q \in authz_revisions \cup new : q.rev <= r
                                  /\ r = rev \/ \E q \in new : q.rev = r
  IN  /\ tx[t].pc = "writing" /\ tx[t].add = {} /\ tx[t].del = {}
      /\ authz_revisions' = authz_revisions \cup new
      /\ authz_current' = tx[t].want
      /\ rev' = last
      /\ created' = [r \in 1 .. MaxRev |->
                       IF \E q \in new : q.rev = r THEN tx[t].start ELSE created[r]]
      /\ touched' = [a \in Addr |->
                       IF \E q \in new : q.addr = a
                       THEN (CHOOSE q \in new : q.addr = a).rev ELSE touched[a]]
      /\ setAt' = [setAt EXCEPT ![last] = tx[t].want]
      /\ End(t)
      /\ UNCHANGED <<desired, seq, clock, holes>>

\* An error, or a lost connection.
Rollback(t) ==
  /\ Rollbacks
  /\ tx[t].pc # "idle"
  /\ End(t)
  /\ UNCHANGED <<logVars, desired, created, seq, clock, holes>>

\* What a compaction that keeps these rows does.
Keep(kept) ==
  /\ kept # authz_revisions
  /\ authz_revisions' = kept
  /\ holes' = {r \in (authz_revisions \cup holes) \ kept : \E q \in kept : q.rev < r.rev}
  /\ UNCHANGED <<authz_current, rev, setAt, touched, desired, created, seq, clock, lock, tx>>

\* Mutant of CompactBefore: the comparison is turned round.
CompactAfter(cutoff) == Keep({r \in authz_revisions : r.rev >= rev \/ created[r.rev] < cutoff})

\* CompactAuthzRevisions: rows created before the cutoff, except the newest.
CompactBefore(cutoff) == Keep({r \in authz_revisions : r.rev >= rev \/ created[r.rev] >= cutoff})

TxNext ==
  \/ Change
  \/ \E t \in Tx :
       \/ Begin(t) \/ Lock(t) \/ Scan(t) \/ Commit(t) \/ Rollback(t)
       \/ \E op \in {"add", "del"}, a \in Addr : Insert(t, op, a)
  \/ \E cutoff \in 1 .. clock + 1 : CompactBefore(cutoff)

TxSpec == TxInit /\ [][TxNext]_recomputeVars

-----------------------------------------------------------------------------
(* Properties                                                              *)

Log == INSTANCE AuthzLog WITH authz_revisions <- authz_revisions \cup holes

\* Concurrent recomputes, with their rollbacks and with compactions at any
\* cutoff, implement the log that the agents rely on, once the holes are
\* filled in: each commit appends past the end of what was committed, the
\* committed set is what its rows say, and a compaction takes a prefix.
ImplementsLog == Log!LogSpec

\* The exception to "Every revision above the cursor must still exist"
\* (DeltaSince): a row that is missing above one that is kept was written by
\* a recompute that began before the one it follows, and no other row is.
HolesWaited ==
  \A r \in holes : \E q \in authz_revisions : q.rev < r.rev /\ created[r.rev] < created[q.rev]
=============================================================================
