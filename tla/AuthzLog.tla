------------------------------ MODULE AuthzLog ------------------------------
(***************************************************************************)
(* The backend's authorized set and its revision log                       *)
(* (backend/store/authz.go, backend/store/retention.go).                   *)
(*                                                                         *)
(* authz_current is the materialised set of authorized addresses,          *)
(* authz_revisions the log of add/del rows the agents replay.  Every step  *)
(* is one committed transaction: RecomputeAuthz holds an advisory lock     *)
(* across its transaction, and FullSet and DeltaSince read one REPEATABLE  *)
(* READ snapshot.                                                          *)
(*                                                                         *)
(* setAt and touched are history variables.  setAt[r] is the authorized    *)
(* set that was committed together with revision r, and touched[a] the     *)
(* newest revision that names address a; compaction forgets neither.       *)
(***************************************************************************)
EXTENDS Integers, FiniteSets

CONSTANTS Addr,      \* the FIPS addresses
          MaxRev,    \* bound: the highest revision the log may reach
          MaxGap     \* bound: revisions lost at once to rolled-back recomputes

ASSUME AddrAssumption == IsFiniteSet(Addr)
ASSUME MaxRevAssumption == MaxRev \in Nat /\ MaxGap \in Nat

VARIABLES authz_current,    \* authz_current.fips_addr
          authz_revisions,  \* the rows of authz_revisions still kept
          rev,              \* max(rev), 0 when the log is empty
          setAt,            \* history: revision -> set committed with it
          touched           \* history: address -> newest row that names it

logVars == <<authz_current, authz_revisions, rev, setAt, touched>>

Revs == 0 .. MaxRev

Row == [rev : Revs, op : {"add", "del"}, addr : Addr]

LogTypeOK ==
  /\ authz_current \in SUBSET Addr
  /\ authz_revisions \in SUBSET Row
  /\ rev \in Revs
  /\ setAt \in [Revs -> SUBSET Addr]
  /\ touched \in [Addr -> Revs]

LogInit ==
  /\ authz_current = {}
  /\ authz_revisions = {}
  /\ rev = 0
  /\ setAt = [r \in Revs |-> {}]
  /\ touched = [a \in Addr |-> 0]

(***************************************************************************)
(* Numberings of the rows one recompute appends: each changed address has  *)
(* one row, the additions come before the removals, and either group is in *)
(* the order of Go's map iteration, which is any order.                    *)
(***************************************************************************)
RowOrders(add, del) ==
  LET n == Cardinality(add \cup del)
  IN  {f \in [add \cup del -> 1 .. n] :
         /\ \A i \in 1 .. n : \E a \in add \cup del : f[a] = i
         /\ \A a \in add, d \in del : f[a] < f[d]}

(***************************************************************************)
(* RecomputeAuthz when the desired set (desiredSQL) is desired and moved   *)
(* are the members whose account changed while they stay authorized: those *)
(* are logged as a re-add.  A recompute that changes nothing commits       *)
(* nothing.  The serial column skips the numbers that recomputes drew and  *)
(* then rolled back.  Removed(desired) is what it returns to its caller.   *)
(***************************************************************************)
Removed(desired) == authz_current \ desired

RecomputeAuthz(desired, moved) ==
  LET add == (desired \ authz_current) \cup moved
      del == Removed(desired)
  IN  /\ moved \subseteq desired \cap authz_current
      /\ add \cup del # {}
      /\ authz_current' = desired
      /\ \E gap \in 0 .. MaxGap : \E f \in RowOrders(add, del) :
           LET start == rev + gap
           IN  /\ rev' = start + Cardinality(add \cup del)
               /\ authz_revisions' = authz_revisions \cup
                    {[rev |-> start + f[a], op |-> "add", addr |-> a] : a \in add} \cup
                    {[rev |-> start + f[a], op |-> "del", addr |-> a] : a \in del}
               /\ touched' = [a \in Addr |-> IF a \in add \cup del THEN start + f[a]
                                                                  ELSE touched[a]]
      /\ rev' <= MaxRev
      /\ setAt' = [setAt EXCEPT ![rev'] = desired]

(***************************************************************************)
(* CompactAuthzRevisions: rows older than the cutoff go, the newest row    *)
(* always stays.  Here the rows up to revision k are the old ones.         *)
(***************************************************************************)
CompactAuthzRevisions(k) ==
  /\ \E r \in authz_revisions : r.rev <= k
  /\ k < rev
  /\ authz_revisions' = {r \in authz_revisions : r.rev > k}
  /\ UNCHANGED <<authz_current, rev, setAt, touched>>

-----------------------------------------------------------------------------
(* What the read transactions return.                                      *)

FullSet == [full |-> TRUE, rev |-> rev, add |-> authz_current, del |-> {}]

\* ErrCompacted: the log no longer reaches back to revision c.
Compacted(c) ==
  /\ authz_revisions # {}
  /\ \A r \in authz_revisions : c + 1 < r.rev

\* Mutant of FinalOp: the replay does not collapse the rows of an address.
AnyOp(c, op) ==
  {a \in Addr : \E r \in authz_revisions : r.addr = a /\ r.op = op /\ r.rev > c}

\* The addresses whose newest row above revision c has this operation.
FinalOp(c, op) ==
  {a \in Addr : \E r \in authz_revisions :
     /\ r.addr = a
     /\ r.op = op
     /\ r.rev > c
     /\ \A q \in authz_revisions : q.addr = a => q.rev <= r.rev}

DeltaSince(c) ==
  [full |-> FALSE, rev |-> rev, add |-> FinalOp(c, "add"), del |-> FinalOp(c, "del")]

(***************************************************************************)
(* writeAuthz: the body of an answer to a client at revision c.            *)
(***************************************************************************)
WriteAuthz(c, full) ==
  IF full \/ c = 0 \/ Compacted(c) THEN FullSet ELSE DeltaSince(c)

-----------------------------------------------------------------------------
(* The log on its own: what the transactions of backend/store promise.     *)

LogNext ==
  \/ \E desired \in SUBSET Addr : \E moved \in SUBSET (desired \cap authz_current) :
       RecomputeAuthz(desired, moved)
  \/ \E k \in Revs : CompactAuthzRevisions(k)

LogSpec == LogInit /\ [][LogNext]_logVars
=============================================================================
