--------------------------- MODULE RevisionProofs ---------------------------
(***************************************************************************)
(* Proofs about how a revision comes about and becomes known:              *)
(*   concurrent recomputes (RecomputeTx), whatever their number, which     *)
(*   implement the revision log (AuthzLog);                                *)
(*   the long polls (LongPoll), whatever their number and that of commits  *)
(*   and reconnects, none of which sleeps through a revision.              *)
(***************************************************************************)
EXTENDS RecomputeTx, LongPoll, SumsProofs

-----------------------------------------------------------------------------
(* Concurrent recomputes: the inductive invariant                          *)

TxRecord == [pc : {"idle", "begun", "locked", "writing"}, start : Nat, seen : SUBSET Addr,
             want : SUBSET Addr, add : SUBSET Addr, del : SUBSET Addr, rows : SUBSET Row]

\* The rows have the numbers past s, up to n, and one address each.
Numbered(rows, s, n) ==
  /\ \A q \in rows : q.rev \in (s + 1) .. n
  /\ \A i \in (s + 1) .. n : \E q \in rows : q.rev = i
  /\ \A p, q \in rows : p.rev = q.rev \/ p.addr = q.addr => p = q

Named(rows, op) == {q.addr : q \in {p \in rows : p.op = op}}

\* What the transaction that writes has done and has still to do.
Writes(x) ==
  /\ \E s \in Revs : rev <= s /\ s <= seq /\ Numbered(x.rows, s, seq)
  /\ x.want \ authz_current \subseteq Named(x.rows, "add") \cup x.add
  /\ Named(x.rows, "add") \cup x.add \subseteq x.want
  /\ Named(x.rows, "del") \cup x.del = authz_current \ x.want
  /\ \A q \in x.rows : q.addr \notin x.add \cup x.del
  /\ x.add # {} => \A q \in x.rows : q.op = "add"
  /\ \A p, q \in x.rows : p.op = "add" /\ q.op = "del" => p.rev < q.rev

TxTyped ==
  /\ LogTypeOK /\ holes \in SUBSET Row
  /\ desired \in SUBSET Addr /\ created \in [1 .. MaxRev -> Nat]
  /\ seq \in Revs /\ rev <= seq /\ clock \in Nat
  /\ lock \in Tx \cup {None} /\ tx \in [Tx -> TxRecord]

\* The committed rows, and those that were.
Committed ==
  /\ \A r \in authz_revisions \cup holes : 1 <= r.rev /\ r.rev <= rev
  /\ \A r, q \in authz_revisions \cup holes : r.rev = q.rev => r = q
  /\ authz_revisions # {} => \E r \in authz_revisions : r.rev = rev
  /\ setAt[rev] = authz_current

\* The lock is held from the scan to the end.
Locked ==
  \A t \in Tx : /\ tx[t].pc \in {"locked", "writing"} => lock = t
                /\ tx[t].pc = "writing" => Writes(tx[t])
                /\ tx[t].pc # "writing" => tx[t].rows = {}

TxInv == TxTyped /\ Committed /\ Locked /\ HolesWaited

-----------------------------------------------------------------------------
(* Concurrent recomputes: the invariant is inductive                       *)

\* The counters are naturals, and every row lies at or below the revision.
LEMMA TxNat ==
  ASSUME TxInv
  PROVE  /\ rev \in Nat /\ seq \in Nat /\ MaxRev \in Nat /\ rev <= seq /\ seq <= MaxRev
         /\ \A r \in authz_revisions \cup holes :
              r \in Row /\ r.rev \in 1 .. MaxRev /\ r.rev <= rev /\ created[r.rev] \in Nat
BY MaxRevAssumption DEF TxInv, TxTyped, Committed, LogTypeOK, Revs, Row

\* The invariant of the transactions holds initially.
LEMMA TxInitially == TxInit => TxInv
<1> SUFFICES ASSUME TxInit PROVE TxInv
  BY Zenon
<1>1. 0 \in Revs /\ NoTx \in TxRecord /\ NoTx.pc = "idle" /\ NoTx.rows = {}
  BY MaxRevAssumption DEF Revs, NoTx, TxRecord
<1>2. LogTypeOK /\ rev = 0 /\ authz_revisions = {} /\ setAt[0] = {} /\ authz_current = {}
  BY <1>1, Zenon DEF TxInit, LogInit, LogTypeOK
<1>3. TxTyped
  BY <1>1, <1>2, MaxRevAssumption DEF TxInit, TxTyped, Revs
<1>4. Locked
  BY <1>1, Zenon DEF TxInit, Locked
<1> QED
  BY <1>2, <1>3, <1>4, Zenon DEF TxInv, Committed, HolesWaited, TxInit

\* A step of one transaction that leaves what is committed alone.
LEMMA TxMoves ==
  ASSUME TxInv, NEW t \in Tx, NEW x \in TxRecord, tx' = [tx EXCEPT ![t] = x],
         UNCHANGED <<logVars, desired, created, holes>>, clock' \in Nat,
         seq' \in Revs, seq <= seq', seq' # seq => lock = t,
         \/ lock' = lock \/ (lock = None /\ lock' = t) \/ (lock = t /\ lock' = None),
         x.pc \in {"locked", "writing"} => lock' = t,
         x.pc = "writing" => Writes(x)',
         x.pc # "writing" => x.rows = {},
         lock' = None /\ lock = t => x.pc = "idle"
  PROVE  TxInv'
<1>1. tx \in [Tx -> TxRecord] /\ lock \in Tx \cup {None} /\ None \notin Tx
  BY TxAssumption, Zenon DEF TxInv, TxTyped
<1>2. \A u \in Tx : tx'[u] = IF u = t THEN x ELSE tx[u]
  BY <1>1, Zenon
<1>3. TxTyped'
  <2>1. LogTypeOK'
    BY Zenon DEF TxInv, TxTyped, LogTypeOK, logVars
  <2>2. rev' <= seq'
    BY TxNat, MaxRevAssumption DEF logVars, Revs
  <2> QED
    BY <1>1, <2>1, <2>2, Zenon DEF TxInv, TxTyped
<1>4. Committed' /\ HolesWaited'
  BY Zenon DEF TxInv, Committed, HolesWaited, logVars
<1>5. Locked'
  <2> SUFFICES ASSUME NEW u \in Tx
               PROVE  /\ tx'[u].pc \in {"locked", "writing"} => lock' = u
                      /\ tx'[u].pc = "writing" => Writes(tx[u])'
                      /\ tx'[u].pc # "writing" => tx'[u].rows = {}
    BY Zenon DEF Locked
  <2>1. CASE u = t
    BY <1>2, <2>1, Zenon
  <2>2. CASE u # t
    <3>1. PICK y : y = tx[u]
      BY Zenon
    <3>2. tx'[u] = y
      BY <1>2, <2>2, <3>1, Zenon
    <3>3. /\ y.pc \in {"locked", "writing"} => lock = u
          /\ y.pc = "writing" => Writes(y)
          /\ y.pc # "writing" => y.rows = {}
      BY <3>1, Zenon DEF TxInv, Locked
    <3>4. y.pc \in {"locked", "writing"} => lock' = u /\ seq' = seq
      BY <1>1, <2>2, <3>3, Zenon
    <3>5. y.pc = "writing" => Writes(y)'
      BY <3>3, <3>4, ZenonT(30) DEF Writes, logVars, Numbered, Revs
    <3> QED
      BY <3>2, <3>3, <3>4, <3>5, Zenon
  <2> QED
    BY <2>1, <2>2, Zenon
<1> QED
  BY <1>3, <1>4, <1>5, Zenon DEF TxInv

\* What the invariant says of one transaction.
LEMMA TxOf ==
  ASSUME TxInv, NEW t \in Tx
  PROVE  /\ tx[t] \in TxRecord
         /\ tx[t].pc \in {"locked", "writing"} => lock = t
         /\ tx[t].pc = "writing" => Writes(tx[t])
         /\ tx[t].pc # "writing" => tx[t].rows = {}
BY Zenon DEF TxInv, TxTyped, Locked

\* Beginning a transaction keeps the invariant.
LEMMA TxBegins ==
  ASSUME TxInv, NEW t \in Tx, Begin(t)
  PROVE  TxInv'
<1>1. PICK x : x = tx[t]
  BY Zenon
<1>2. x \in TxRecord /\ x.pc = "idle" /\ x.rows = {} /\ clock \in Nat /\ desired \in SUBSET Addr
  BY <1>1, TxOf, Zenon DEF Begin, TxInv, TxTyped
<1>3. PICK y : y = [x EXCEPT !.pc = "begun", !.start = clock + 1, !.seen = desired]
  BY Zenon
<1>n. clock + 1 \in Nat
  BY <1>2
<1>4. y \in TxRecord /\ y.pc = "begun" /\ y.rows = {}
  BY <1>2, <1>3, <1>n, Zenon DEF TxRecord
<1>5. tx' = [tx EXCEPT ![t] = y]
  BY <1>1, <1>2, <1>3, Zenon DEF Begin, TxInv, TxTyped, TxRecord
<1>6. seq' = seq /\ lock' = lock /\ clock' \in Nat /\ UNCHANGED <<logVars, desired, created, holes>>
  BY <1>2 DEF Begin
<1>7. seq' \in Revs /\ seq <= seq'
  BY <1>6, TxNat DEF TxInv, TxTyped
<1>8. lock # t \/ lock' # None
  BY <1>6, TxAssumption, Zenon
<1> QED
  BY <1>4, <1>5, <1>6, <1>7, <1>8, TxMoves, Zenon

\* Taking the advisory lock keeps the invariant.
LEMMA TxLocks ==
  ASSUME TxInv, NEW t \in Tx, Lock(t)
  PROVE  TxInv'
<1>1. PICK x : x = tx[t]
  BY Zenon
<1>2. x \in TxRecord /\ x.pc = "begun" /\ x.rows = {} /\ clock \in Nat
  BY <1>1, TxOf, Zenon DEF Lock, TxInv, TxTyped
<1>3. PICK y : y = [x EXCEPT !.pc = "locked"]
  BY Zenon
<1>4. y \in TxRecord /\ y.pc = "locked" /\ y.rows = {}
  BY <1>2, <1>3, Zenon DEF TxRecord
<1>5. tx' = [tx EXCEPT ![t] = y]
  BY <1>1, <1>2, <1>3, Zenon DEF Lock, TxInv, TxTyped, TxRecord
<1>6. /\ seq' = seq /\ lock = None /\ lock' = t /\ clock' \in Nat
      /\ UNCHANGED <<logVars, desired, created, holes>>
  BY <1>2, Zenon DEF Lock
<1>7. seq' \in Revs /\ seq <= seq'
  BY <1>6, TxNat DEF TxInv, TxTyped
<1>8. lock' # None
  BY <1>6, TxAssumption, Zenon
<1> QED
  BY <1>4, <1>5, <1>6, <1>7, <1>8, TxMoves, Zenon

\* Reading the desired state under the lock keeps the invariant.
LEMMA TxScans ==
  ASSUME TxInv, NEW t \in Tx, Scan(t)
  PROVE  TxInv'
<1>1. PICK x : x = tx[t]
  BY Zenon
<1>2. x \in TxRecord /\ x.pc = "locked" /\ x.rows = {} /\ clock \in Nat /\ lock = t
      /\ authz_current \in SUBSET Addr
  BY <1>1, TxOf, Zenon DEF Scan, TxInv, TxTyped, LogTypeOK
<1>3. PICK want \in SUBSET Addr, moved \in SUBSET Addr :
        /\ moved \subseteq want \cap authz_current
        /\ tx' = [tx EXCEPT ![t].pc = "writing", ![t].want = want, ![t].seen = {},
                            ![t].add = (want \ authz_current) \cup moved,
                            ![t].del = authz_current \ want]
  BY <1>2, Zenon DEF Scan
<1>4. PICK y : y = [x EXCEPT !.pc = "writing", !.want = want, !.seen = {},
                             !.add = (want \ authz_current) \cup moved, !.del = authz_current \ want]
  BY Zenon
<1>5. /\ y \in TxRecord /\ y.pc = "writing" /\ y.rows = {} /\ y.want = want
      /\ y.add = (want \ authz_current) \cup moved /\ y.del = authz_current \ want
  BY <1>2, <1>4, Zenon DEF TxRecord
<1>6. tx' = [tx EXCEPT ![t] = y]
  BY <1>1, <1>2, <1>3, <1>4, Zenon DEF TxInv, TxTyped, TxRecord
<1>7. /\ seq' = seq /\ lock' = lock /\ clock' \in Nat
      /\ UNCHANGED <<logVars, desired, created, holes>>
  BY <1>2, Zenon DEF Scan
<1>8. seq' \in Revs /\ seq <= seq' /\ rev <= seq
  BY <1>7, TxNat DEF TxInv, TxTyped
<1>9. Writes(y)'
  <2>1. Numbered({}, seq, seq)
    BY TxNat DEF Numbered
  <2>2. Named({}, "add") = {} /\ Named({}, "del") = {}
    BY Zenon DEF Named
  <2>3. \E s \in Revs : rev' <= s /\ s <= seq' /\ Numbered(y.rows, s, seq')
    BY <1>5, <1>7, <1>8, <2>1, Zenon DEF logVars
  <2>4. authz_current' = authz_current
    BY <1>7, Zenon DEF logVars
  <2>5. /\ y.want \ authz_current \subseteq Named(y.rows, "add") \cup y.add
        /\ Named(y.rows, "add") \cup y.add \subseteq y.want
        /\ Named(y.rows, "del") \cup y.del = authz_current \ y.want
    BY <1>3, <1>5, <2>2, Zenon
  <2> QED
    BY <1>5, <2>3, <2>4, <2>5, Zenon DEF Writes, Revs
<1>10. lock' # None
  BY <1>2, <1>7, TxAssumption, Zenon
<1> QED
  BY <1>2, <1>5, <1>6, <1>7, <1>8, <1>9, <1>10, TxMoves, Zenon

\* The new row has the next number and an address that had none.
LEMMA TxInserts ==
  ASSUME TxInv, NEW t \in Tx, NEW op \in {"add", "del"}, NEW a \in Addr, Insert(t, op, a)
  PROVE  TxInv'
<1>1. PICK x : x = tx[t]
  BY Zenon
<1>2. /\ x \in TxRecord /\ x.pc = "writing" /\ clock \in Nat /\ lock = t /\ Writes(x)
      /\ a \in IF op = "add" THEN x.add ELSE x.del
      /\ op = "del" => x.add = {}
  BY <1>1, TxOf, Zenon DEF Insert, TxInv, TxTyped
<1>3. PICK row : row = [rev |-> seq + 1, op |-> op, addr |-> a]
  BY Zenon
<1>4. PICK y : y = [x EXCEPT !.rows = x.rows \cup {row}, !.add = x.add \ {a}, !.del = x.del \ {a}]
  BY Zenon
<1>5. seq \in Nat /\ seq + 1 \in Revs /\ seq <= seq + 1 /\ rev \in Nat /\ rev <= seq
  BY TxNat DEF Insert, Revs
<1>6. row \in Row /\ row.rev = seq + 1 /\ row.op = op /\ row.addr = a
  BY <1>3, <1>5, Zenon DEF Row
<1>7. /\ y \in TxRecord /\ y.pc = "writing" /\ y.rows = x.rows \cup {row} /\ y.want = x.want
      /\ y.add = x.add \ {a} /\ y.del = x.del \ {a}
  BY <1>2, <1>4, <1>6, Zenon DEF TxRecord
<1>8. tx' = [tx EXCEPT ![t] = y]
  BY <1>1, <1>2, <1>3, <1>4, Zenon DEF Insert, TxInv, TxTyped, TxRecord
<1>9. /\ seq' = seq + 1 /\ lock' = lock /\ clock' \in Nat
      /\ UNCHANGED <<logVars, desired, created, holes>>
  BY <1>2, Zenon DEF Insert
<1>10. authz_current' = authz_current /\ rev' = rev
  BY <1>9, Zenon DEF logVars
<1>11. PICK s \in Revs : rev <= s /\ s <= seq /\ Numbered(x.rows, s, seq)
  BY <1>2, Zenon DEF Writes
<1>12. s \in Nat /\ \A q \in x.rows : q.rev \in Nat /\ q.rev <= seq /\ q.addr # a
  BY <1>2, <1>5, <1>11, MaxRevAssumption DEF Writes, Numbered, Revs
<1>13. Numbered(y.rows, s, seq')
  <2>1. \A q \in y.rows : q.rev \in (s + 1) .. seq'
    BY <1>5, <1>6, <1>7, <1>9, <1>11, <1>12 DEF Numbered
  <2>2. \A i \in (s + 1) .. seq' : \E q \in y.rows : q.rev = i
    <3> SUFFICES ASSUME NEW i \in (s + 1) .. seq' PROVE \E q \in y.rows : q.rev = i
      BY Zenon
    <3>1. CASE i = seq + 1
      BY <1>6, <1>7, <3>1, Zenon
    <3>2. CASE i # seq + 1
      BY <1>5, <1>7, <1>9, <1>11, <1>12, <3>2 DEF Numbered
    <3> QED
      BY <3>1, <3>2, Zenon
  <2>3. \A p, q \in y.rows : p.rev = q.rev \/ p.addr = q.addr => p = q
    <3>1. \A q \in x.rows : q.rev # row.rev /\ q.addr # row.addr
      BY <1>5, <1>6, <1>12
    <3> QED
      BY <1>7, <1>11, <3>1, Zenon DEF Numbered
  <2> QED
    BY <2>1, <2>2, <2>3, Zenon DEF Numbered
<1>14. \A o : Named(y.rows, o) = IF o = op THEN Named(x.rows, o) \cup {a} ELSE Named(x.rows, o)
  BY <1>6, <1>7, Zenon DEF Named
<1>15. Writes(y)'
  <2>1. \E k \in Revs : rev' <= k /\ k <= seq' /\ Numbered(y.rows, k, seq')
    <3>1. s <= seq'
      BY <1>5, <1>9, <1>11, <1>12
    <3> QED
      BY <1>10, <1>11, <1>13, <3>1, Zenon
  <2>2. /\ y.want \ authz_current \subseteq Named(y.rows, "add") \cup y.add
        /\ Named(y.rows, "add") \cup y.add \subseteq y.want
        /\ Named(y.rows, "del") \cup y.del = authz_current \ y.want
    <3>1. CASE op = "add"
      <4>1. a \in x.add /\ a \in x.want /\ a \notin x.del
        BY <1>2, <3>1, Zenon DEF Writes
      <4>2. Named(y.rows, "add") = Named(x.rows, "add") \cup {a} /\ Named(y.rows, "del") = Named(x.rows, "del")
        BY <1>14, <3>1, Zenon
      <4>3. Named(y.rows, "add") \cup y.add = Named(x.rows, "add") \cup x.add /\ y.del = x.del
        BY <1>7, <4>1, <4>2
      <4> QED
        BY <1>2, <1>7, <4>2, <4>3, Zenon DEF Writes
    <3>2. CASE op = "del"
      <4>1. a \in x.del /\ x.add = {}
        BY <1>2, <3>2, Zenon
      <4>2. Named(y.rows, "del") = Named(x.rows, "del") \cup {a} /\ Named(y.rows, "add") = Named(x.rows, "add")
        BY <1>14, <3>2, Zenon
      <4>3. Named(y.rows, "del") \cup y.del = Named(x.rows, "del") \cup x.del /\ y.add = x.add
        BY <1>7, <4>1, <4>2, Zenon
      <4> QED
        BY <1>2, <1>7, <4>2, <4>3, Zenon DEF Writes
    <3> QED
      BY <3>1, <3>2, Zenon
  <2>3. \A q \in y.rows : q.addr \notin y.add \cup y.del
    BY <1>2, <1>6, <1>7, Zenon DEF Writes
  <2>4. y.add # {} => \A q \in y.rows : q.op = "add"
    BY <1>2, <1>6, <1>7, Zenon DEF Writes
  <2>5. \A p, q \in y.rows : p.op = "add" /\ q.op = "del" => p.rev < q.rev
    <3>1. CASE op = "add"
      <4>1. \A q \in y.rows : q.op # "del"
        BY <1>2, <1>6, <1>7, <3>1, Zenon DEF Writes
      <4> QED
        BY <4>1, Zenon
    <3>2. CASE op = "del"
      BY <1>2, <1>5, <1>6, <1>7, <1>12, <3>2 DEF Writes
    <3> QED
      BY <3>1, <3>2, Zenon
  <2> QED
    BY <1>10, <2>1, <2>2, <2>3, <2>4, <2>5, Zenon DEF Writes, Numbered, Revs, Named
<1>16. lock' # None
  BY <1>2, <1>9, TxAssumption, Zenon
<1> QED
  BY <1>2, <1>5, <1>7, <1>8, <1>9, <1>15, <1>16, TxMoves, Zenon

\* The fields of an idle transaction.
LEMMA NoTxIs == NoTx \in TxRecord /\ NoTx.pc = "idle" /\ NoTx.rows = {}
BY Zenon DEF NoTx, TxRecord

\* A rollback, which leaves its revision numbers unused, keeps the invariant.
LEMMA TxRollsBack ==
  ASSUME TxInv, NEW t \in Tx, Rollback(t)
  PROVE  TxInv'
<1>1. /\ tx' = [tx EXCEPT ![t] = NoTx] /\ lock' = IF lock = t THEN None ELSE lock
      /\ UNCHANGED <<logVars, desired, created, seq, clock, holes>>
  BY Zenon DEF Rollback, End
<1>2. seq' \in Revs /\ seq <= seq' /\ clock' \in Nat
  BY <1>1, TxNat DEF TxInv, TxTyped
<1> QED
  BY <1>1, <1>2, NoTxIs, TxMoves, Zenon

\* A change of the desired state keeps the invariant.
LEMMA TxChanges ==
  ASSUME TxInv, Change
  PROVE  TxInv'
<1>1. desired' \in SUBSET Addr /\ UNCHANGED <<logVars, created, seq, clock, lock, tx, holes>>
  BY Zenon DEF Change
<1>2. TxTyped'
  BY <1>1, Zenon DEF TxInv, TxTyped, LogTypeOK, logVars
<1>3. Committed' /\ HolesWaited'
  BY <1>1, Zenon DEF TxInv, Committed, HolesWaited, logVars
<1>4. ASSUME NEW x, Writes(x) PROVE Writes(x)'
  BY <1>1, <1>4, Zenon DEF Writes, logVars
<1>5. Locked'
  <2> SUFFICES ASSUME NEW t \in Tx
               PROVE  /\ tx'[t].pc \in {"locked", "writing"} => lock' = t
                      /\ tx'[t].pc = "writing" => Writes(tx[t])'
                      /\ tx'[t].pc # "writing" => tx'[t].rows = {}
    BY Zenon DEF Locked
  <2>1. PICK x : x = tx[t]
    BY Zenon
  <2> QED
    BY <1>1, <1>4, <2>1, TxOf, Zenon
<1> QED
  BY <1>2, <1>3, <1>5, Zenon DEF TxInv

\* What the commit of transaction t, in state x, does: one that wrote rows
\* commits the last number drawn, one that wrote none the revision there was.
CommitOf(t, x) ==
  /\ x \in TxRecord /\ x.pc = "writing" /\ x.add = {} /\ x.del = {} /\ lock = t /\ Writes(x)
  /\ authz_revisions' = authz_revisions \cup x.rows /\ authz_current' = x.want
  /\ rev' = IF x.rows = {} THEN rev ELSE seq
  /\ created' = [r \in 1 .. MaxRev |-> IF \E q \in x.rows : q.rev = r THEN x.start ELSE created[r]]
  /\ touched' = [a \in Addr |-> IF \E q \in x.rows : q.addr = a
                                THEN (CHOOSE q \in x.rows : q.addr = a).rev ELSE touched[a]]
  /\ setAt' = [setAt EXCEPT ![rev'] = x.want]
  /\ tx' = [tx EXCEPT ![t] = NoTx] /\ lock' = None
  /\ UNCHANGED <<desired, seq, clock, holes>>

\* What a commit does to the log, the counters and the mirror.
LEMMA TxCommits ==
  ASSUME TxInv, NEW t \in Tx, Commit(t)
  PROVE  CommitOf(t, tx[t])
<1>0. PICK x : x = tx[t]
  BY Zenon
<1> DEFINE Last(r) == /\ \A q \in authz_revisions \cup x.rows : q.rev <= r
                      /\ r = rev \/ \E q \in x.rows : q.rev = r
           to == IF x.rows = {} THEN rev ELSE seq
<1>1. x \in TxRecord /\ x.pc = "writing" /\ x.add = {} /\ x.del = {} /\ lock = t /\ Writes(x)
  BY <1>0, TxOf, Zenon DEF Commit
<1>2. PICK s \in Revs : rev <= s /\ s <= seq /\ Numbered(x.rows, s, seq)
  BY <1>1, Zenon DEF Writes
<1>3. s \in Nat /\ rev \in Nat /\ seq \in Nat /\ rev \in Revs /\ seq \in Revs
  BY TxNat, MaxRevAssumption DEF Revs, TxInv, TxTyped, LogTypeOK
<1>4. \A q \in authz_revisions : q.rev \in Nat /\ q.rev <= rev
  BY TxNat
<1>5. Last(to) /\ to \in Revs
  <2>1. CASE x.rows = {}
    BY <1>3, <1>4, <2>1, Zenon
  <2>2. CASE x.rows # {}
    <3>1. s + 1 \in Nat /\ s < seq
      BY <1>2, <1>3, <2>2 DEF Numbered
    <3>2. \E q \in x.rows : q.rev = seq
      BY <1>2, <1>3, <3>1 DEF Numbered
    <3>3. \A q \in x.rows : q.rev <= seq
      BY <1>2, <1>3 DEF Numbered
    <3> QED
      BY <1>2, <1>3, <1>4, <2>2, <3>2, <3>3
  <2> QED
    BY <2>1, <2>2, Zenon
<1>6. ASSUME NEW r \in Revs, Last(r) PROVE r = to
  <2>1. CASE x.rows = {}
    BY <1>6, <2>1, Zenon
  <2>2. CASE x.rows # {}
    <3>1. s < seq /\ \E q \in x.rows : q.rev = seq
      BY <1>2, <1>3, <2>2 DEF Numbered
    <3>2. seq <= r /\ r \in Nat
      BY <1>6, <3>1, MaxRevAssumption DEF Revs
    <3>3. r # rev
      BY <1>2, <1>3, <3>1, <3>2
    <3>4. \A q \in x.rows : q.rev \in Nat /\ q.rev <= seq
      BY <1>2, <1>3 DEF Numbered
    <3> QED
      BY <1>3, <1>6, <2>2, <3>2, <3>3, <3>4
  <2> QED
    BY <2>1, <2>2, Zenon
<1>7. (CHOOSE r \in Revs : Last(r)) = to
  <2> HIDE DEF Last, to
  <2> QED
    BY <1>5, <1>6, Zenon
<1>8. rev' = (CHOOSE r \in Revs : Last(r)) /\ setAt' = [setAt EXCEPT ![CHOOSE r \in Revs : Last(r)] = x.want]
  BY <1>0, Zenon DEF Commit
<1>9. rev' = to /\ setAt' = [setAt EXCEPT ![rev'] = x.want]
  BY <1>7, <1>8, Zenon
<1> QED
  BY <1>0, <1>1, <1>9, Zenon DEF Commit, End, CommitOf

\* A commit keeps the invariant.
LEMMA TxCommitKeeps ==
  ASSUME TxInv, NEW t \in Tx, Commit(t)
  PROVE  TxInv'
<1>0. PICK x : x = tx[t]
  BY Zenon
<1>1. /\ x \in TxRecord /\ lock = t /\ Writes(x)
      /\ authz_revisions' = authz_revisions \cup x.rows /\ authz_current' = x.want
      /\ rev' = IF x.rows = {} THEN rev ELSE seq
      /\ created' = [r \in 1 .. MaxRev |-> IF \E q \in x.rows : q.rev = r THEN x.start ELSE created[r]]
      /\ touched' = [a \in Addr |-> IF \E q \in x.rows : q.addr = a
                                    THEN (CHOOSE q \in x.rows : q.addr = a).rev ELSE touched[a]]
      /\ setAt' = [setAt EXCEPT ![rev'] = x.want]
      /\ tx' = [tx EXCEPT ![t] = NoTx] /\ lock' = None
      /\ UNCHANGED <<desired, seq, clock, holes>>
  <2>1. CommitOf(t, x)
    BY <1>0, TxCommits, Zenon
  <2> QED
    BY <2>1, Zenon DEF CommitOf
<1>2. PICK s \in Revs : rev <= s /\ s <= seq /\ Numbered(x.rows, s, seq)
  BY <1>1, Zenon DEF Writes
<1>3. s \in Nat /\ rev \in Nat /\ seq \in Nat /\ rev \in Revs /\ seq \in Revs
  BY TxNat, MaxRevAssumption DEF Revs, TxInv, TxTyped, LogTypeOK
<1>4. /\ x.rows \in SUBSET Row /\ x.want \in SUBSET Addr /\ x.start \in Nat
      /\ \A q \in x.rows : q.rev \in Nat /\ q.rev > rev /\ q.rev <= seq /\ q.rev \in Revs
  BY <1>1, <1>2, <1>3 DEF TxRecord, Numbered, Row
<1>5. rev' \in Revs /\ rev <= rev' /\ rev' <= seq /\ \A q \in x.rows : q.rev <= rev'
  BY <1>1, <1>3, <1>4, TxNat
<1>6. TxTyped'
  <2>1. touched' \in [Addr -> Revs]
    <3>1. \A a \in Addr : (\E q \in x.rows : q.addr = a) => (CHOOSE q \in x.rows : q.addr = a) \in x.rows
      BY Zenon
    <3>2. touched \in [Addr -> Revs]
      BY Zenon DEF TxInv, TxTyped, LogTypeOK
    <3> QED
      BY <1>1, <1>4, <3>1, <3>2, Zenon
  <2>2. setAt' \in [Revs -> SUBSET Addr]
    BY <1>1, <1>4, <1>5, Zenon DEF TxInv, TxTyped, LogTypeOK
  <2>3. LogTypeOK'
    BY <1>1, <1>4, <1>5, <2>1, <2>2, Zenon DEF TxInv, TxTyped, LogTypeOK
  <2>4. created' \in [1 .. MaxRev -> Nat]
    BY <1>1, <1>4, Zenon DEF TxInv, TxTyped
  <2>5. tx' \in [Tx -> TxRecord]
    BY <1>1, NoTxIs, Zenon DEF TxInv, TxTyped
  <2> QED
    BY <1>1, <1>5, <2>3, <2>4, <2>5, Zenon DEF TxInv, TxTyped
<1>7. Committed'
  <2>1. \A r \in authz_revisions' \cup holes' : 1 <= r.rev /\ r.rev <= rev'
    BY <1>1, <1>3, <1>4, <1>5, TxNat
  <2>2. \A r, q \in authz_revisions' \cup holes' : r.rev = q.rev => r = q
    <3>1. \A r \in authz_revisions \cup holes : r.rev \in Nat /\ r.rev <= rev
      BY TxNat
    <3>2. \A r \in authz_revisions \cup holes, q \in x.rows : r.rev # q.rev
      BY <1>3, <1>4, <3>1
    <3>3. \A r, q \in authz_revisions \cup holes : r.rev = q.rev => r = q
      BY Zenon DEF TxInv, Committed
    <3>4. \A r, q \in x.rows : r.rev = q.rev => r = q
      BY <1>2, Zenon DEF Numbered
    <3> QED
      BY <1>1, <3>2, <3>3, <3>4
  <2>3. authz_revisions' # {} => \E r \in authz_revisions' : r.rev = rev'
    <3>1. CASE x.rows = {}
      BY <1>1, <3>1, Zenon DEF TxInv, Committed
    <3>2. CASE x.rows # {}
      <4>1. s < seq
        BY <1>2, <1>3, <3>2 DEF Numbered
      <4>2. \E q \in x.rows : q.rev = seq
        BY <1>2, <1>3, <4>1 DEF Numbered
      <4> QED
        BY <1>1, <3>2, <4>2, Zenon
    <3> QED
      BY <3>1, <3>2, Zenon
  <2>4. setAt'[rev'] = authz_current'
    BY <1>1, <1>5, Zenon DEF TxInv, TxTyped, LogTypeOK
  <2> QED
    BY <2>1, <2>2, <2>3, <2>4, Zenon DEF Committed
<1>8. Locked'
  <2> SUFFICES ASSUME NEW u \in Tx
               PROVE  /\ tx'[u].pc \notin {"locked", "writing"} /\ tx'[u].rows = {}
    BY Zenon DEF Locked
  <2>1. CASE u = t
    BY <1>1, <2>1, NoTxIs, Zenon DEF TxInv, TxTyped
  <2>2. CASE u # t
    BY <1>1, <2>2, TxOf, Zenon DEF TxInv, TxTyped
  <2> QED
    BY <2>1, <2>2, Zenon
<1>9. HolesWaited'
  <2>1. \A r \in authz_revisions \cup holes : created'[r.rev] = created[r.rev]
    BY <1>1, <1>3, <1>4, TxNat
  <2> QED
    BY <1>1, <2>1, Zenon DEF TxInv, HolesWaited
<1> QED
  BY <1>6, <1>7, <1>8, <1>9, Zenon DEF TxInv

\* A compaction keeps the newest row, and what it takes out of the middle was
\* created before the cutoff while the row below it was not.
LEMMA TxCompactKeeps ==
  ASSUME TxInv, NEW cutoff \in Nat, CompactBefore(cutoff)
  PROVE  TxInv'
<1> DEFINE kept == {r \in authz_revisions : r.rev >= rev \/ created[r.rev] >= cutoff}
<1>1. /\ authz_revisions' = kept
      /\ holes' = {r \in (authz_revisions \cup holes) \ kept : \E q \in kept : q.rev < r.rev}
      /\ UNCHANGED <<authz_current, rev, setAt, touched, desired, created, seq, clock, lock, tx>>
  BY Zenon DEF CompactBefore, Keep
<1>2. TxTyped'
  BY <1>1, Zenon DEF TxInv, TxTyped, LogTypeOK, Revs
<1>3. /\ authz_revisions' \subseteq authz_revisions
      /\ authz_revisions' \cup holes' \subseteq authz_revisions \cup holes
  BY <1>1, Zenon
<1>4. Committed'
  <2>1. authz_revisions' # {} => \E r \in authz_revisions' : r.rev = rev
    BY <1>1, TxNat, Zenon DEF TxInv, Committed
  <2>2. /\ \A r \in authz_revisions' \cup holes' : 1 <= r.rev /\ r.rev <= rev'
        /\ \A r, q \in authz_revisions' \cup holes' : r.rev = q.rev => r = q
    BY <1>1, <1>3, TxNat, Zenon DEF TxInv, Committed
  <2>3. setAt'[rev'] = authz_current'
    BY <1>1, Zenon DEF TxInv, Committed
  <2> QED
    BY <1>1, <2>1, <2>2, <2>3, Zenon DEF Committed
<1>5. Locked'
  BY <1>1, Zenon DEF TxInv, Locked, Writes
<1>6. HolesWaited'
  <2> SUFFICES ASSUME NEW r \in holes'
               PROVE  \E q \in authz_revisions' : q.rev < r.rev /\ created[r.rev] < created[q.rev]
    BY <1>1, Zenon DEF HolesWaited
  <2>1. PICK q \in kept : q.rev < r.rev
    BY <1>1, Zenon
  <2>2. r \in authz_revisions \cup holes /\ r \notin kept
    BY <1>1, Zenon
  <2>3. /\ q.rev \in Nat /\ r.rev \in Nat /\ rev \in Nat /\ r.rev <= rev
        /\ created[q.rev] \in Nat /\ created[r.rev] \in Nat
    BY <2>1, <2>2, TxNat
  <2>4. created[q.rev] >= cutoff
    BY <2>1, <2>3
  <2>5. CASE r \in authz_revisions
    BY <1>1, <2>1, <2>2, <2>3, <2>4, <2>5
  <2>6. CASE r \in holes
    <3>1. PICK p \in authz_revisions : p.rev < r.rev /\ created[r.rev] < created[p.rev]
      BY <2>6, Zenon DEF TxInv, HolesWaited
    <3>2. CASE p \in kept
      BY <1>1, <3>1, <3>2, Zenon
    <3>3. CASE p \notin kept
      <4>1. created[p.rev] < cutoff /\ created[p.rev] \in Nat
        BY <3>1, <3>3, TxNat
      <4> QED
        BY <1>1, <2>1, <2>3, <2>4, <3>1, <4>1
    <3> QED
      BY <3>2, <3>3, Zenon
  <2> QED
    BY <2>2, <2>5, <2>6, Zenon
<1> QED
  BY <1>2, <1>4, <1>5, <1>6, Zenon DEF TxInv

\* Every step keeps the invariant.
LEMMA TxSteps == TxInv /\ [TxNext]_recomputeVars => TxInv'
<1> SUFFICES ASSUME TxInv, [TxNext]_recomputeVars PROVE TxInv'
  BY Zenon
<1>1. CASE Change
  BY <1>1, TxChanges, Zenon
<1>2. ASSUME NEW t \in Tx, Begin(t) PROVE TxInv'
  BY <1>2, TxBegins, Zenon
<1>3. ASSUME NEW t \in Tx, Lock(t) PROVE TxInv'
  BY <1>3, TxLocks
<1>4. ASSUME NEW t \in Tx, Scan(t) PROVE TxInv'
  BY <1>4, TxScans, Zenon
<1>5. ASSUME NEW t \in Tx, Commit(t) PROVE TxInv'
  BY <1>5, TxCommitKeeps, Zenon
<1>6. ASSUME NEW t \in Tx, Rollback(t) PROVE TxInv'
  BY <1>6, TxRollsBack, Zenon
<1>7. ASSUME NEW t \in Tx, NEW op \in {"add", "del"}, NEW a \in Addr, Insert(t, op, a) PROVE TxInv'
  BY <1>7, TxInserts, Zenon
<1>8. ASSUME NEW cutoff \in 1 .. clock + 1, CompactBefore(cutoff) PROVE TxInv'
  <2>1. cutoff \in Nat
    BY DEF TxInv, TxTyped
  <2> QED
    BY <1>8, <2>1, TxCompactKeeps, Zenon
<1>9. CASE UNCHANGED recomputeVars
  BY <1>9, Zenon DEF recomputeVars, logVars, txVars, TxInv, TxTyped, Committed, Locked, HolesWaited, LogTypeOK, Writes
<1> QED
  BY <1>1, <1>2, <1>3, <1>4, <1>5, <1>6, <1>7, <1>8, <1>9, Zenon DEF TxNext

\* Concurrent recomputes keep their invariant: only the holder of the advisory
\* lock has rows to write, these have consecutive numbers past every committed
\* one and are the difference between the committed set and the one it read,
\* and no two committed rows have the same number (RecomputeAuthz).
THEOREM TxInvariant == TxSpec => []TxInv
<1> QED
  BY TxInitially, TxSteps, PTL DEF TxSpec

\* A row compacted away above one that is kept was written by a recompute
\* that began before the one it follows, and so waited for it: HolesWaited, for
\* any number of recomputes, rollbacks and cutoffs (CompactAuthzRevisions).
THEOREM HolesWereWaited == TxSpec => []HolesWaited
<1>1. TxInv => HolesWaited
  BY Zenon DEF TxInv
<1> QED
  BY <1>1, TxInvariant, PTL

-----------------------------------------------------------------------------
(* The committed state implements AuthzLog                                 *)

\* The cardinality that Log counts with is Cardinality.
LEMMA LogCardinality ==
  ASSUME NEW S
  PROVE  Log!Cardinality(S) = Cardinality(S)
BY Zenon DEF Log!Cardinality, Cardinality

\* The rows are those of a recompute that appends past s.
NumberedFrom(rows, s, add, del) ==
  \E f \in Log!RowOrders(add, del) :
    /\ rows = {[rev |-> s + f[a], op |-> "add", addr |-> a] : a \in add} \cup
              {[rev |-> s + f[a], op |-> "del", addr |-> a] : a \in del}
    /\ \A a \in add \cup del : \E q \in rows : q.addr = a /\ q.rev = s + f[a]

\* The rows of one transaction are a numbering of the addresses they name.
LEMMA RowsNumber ==
  ASSUME NEW rows \in SUBSET Row, NEW s \in Nat, NEW n \in Nat, s <= n, Numbered(rows, s, n),
         \A p, q \in rows : p.op = "add" /\ q.op = "del" => p.rev < q.rev,
         NEW add, add = Named(rows, "add"), NEW del, del = Named(rows, "del")
  PROVE  /\ Cardinality(add \cup del) = n - s
         /\ NumberedFrom(rows, s, add, del)
<1> DEFINE A == add \cup del
           row(a) == CHOOSE q \in rows : q.addr = a
           f == [a \in A |-> row(a).rev - s]
<1>1. /\ \A q \in rows : q \in Row /\ q.rev \in Nat /\ q.rev > s /\ q.rev <= n /\ q.op \in {"add", "del"}
      /\ \A i \in (s + 1) .. n : \E q \in rows : q.rev = i
      /\ \A p, q \in rows : p.rev = q.rev \/ p.addr = q.addr => p = q
  BY MaxRevAssumption DEF Numbered, Row, Revs
<1>2. /\ \A a \in add : \E q \in rows : q.addr = a /\ q.op = "add"
      /\ \A a \in del : \E q \in rows : q.addr = a /\ q.op = "del"
      /\ \A q \in rows : q.addr \in A
      /\ \A q \in rows : (q.op = "add" => q.addr \in add) /\ (q.op = "del" => q.addr \in del)
  BY <1>1, Zenon DEF Named
<1>3. \A q \in rows : row(q.addr) = q
  BY <1>1, Zenon
<1>4. \A a \in A : row(a) \in rows /\ row(a).addr = a
  BY <1>2, Zenon
<1>5. /\ \A a \in add : row(a).op = "add"
      /\ \A a \in del : row(a).op = "del"
  <2>1. \A q \in rows : q.op = "add" => row(q.addr).op = "add"
    BY <1>3, Zenon
  <2>2. \A q \in rows : q.op = "del" => row(q.addr).op = "del"
    BY <1>3, Zenon
  <2> HIDE DEF row
  <2> QED
    BY <1>2, <2>1, <2>2
<1> HIDE DEF row, A
<1>6. \A a \in A : f[a] = row(a).rev - s /\ f[a] \in 1 .. (n - s) /\ s + f[a] = row(a).rev
  BY <1>1, <1>4
<1>7. \A i \in 1 .. (n - s) : \E a \in A : f[a] = i
  <2> SUFFICES ASSUME NEW i \in 1 .. (n - s) PROVE \E a \in A : f[a] = i
    BY Zenon
  <2>1. s + i \in (s + 1) .. n
    OBVIOUS
  <2>2. PICK q \in rows : q.rev = s + i
    BY <1>1, <2>1, Zenon
  <2>3. q.addr \in A /\ row(q.addr) = q
    BY <1>2, <1>3, Zenon
  <2>4. f[q.addr] = i
    BY <1>6, <2>2, <2>3
  <2> QED
    BY <2>3, <2>4, Zenon
<1>8. Cardinality(A) = n - s
  <2>1. \A a, b \in A : f[a] = f[b] => a = b
    <3> SUFFICES ASSUME NEW a \in A, NEW b \in A, f[a] = f[b] PROVE a = b
      BY Zenon
    <3>1. row(a).rev = row(b).rev
      BY <1>6, Zenon
    <3> QED
      BY <1>1, <1>4, <3>1
  <2>2. f \in [A -> 1 .. (n - s)]
    BY <1>6, Zenon
  <2>3. f \in Injection(A, 1 .. (n - s)) /\ f \in Surjection(A, 1 .. (n - s))
    BY <1>7, <2>1, <2>2, Zenon DEF Injection, Surjection, IsInjective
  <2>4. IsFiniteSet(1 .. (n - s)) /\ Cardinality(1 .. (n - s)) = n - s
    BY FS_Interval
  <2> HIDE DEF f
  <2> QED
    BY <2>3, <2>4, FS_Injection
<1>9. f \in Log!RowOrders(add, del)
  <2>1. \A a \in add, d \in del : f[a] < f[d]
    <3> SUFFICES ASSUME NEW a \in add, NEW d \in del PROVE f[a] < f[d]
      BY Zenon
    <3>1. a \in A /\ d \in A
      BY Zenon DEF A
    <3>2. row(a).rev < row(d).rev
      BY <1>4, <1>5, <3>1, Zenon
    <3> QED
      BY <1>1, <1>4, <1>6, <3>1, <3>2
  <2>2. f \in [A -> 1 .. (n - s)] /\ Log!Cardinality(A) = n - s
    BY <1>6, <1>8, LogCardinality, Zenon
  <2> HIDE DEF f
  <2> QED
    BY <1>7, <2>1, <2>2, Zenon DEF Log!RowOrders, A
<1>10. \A a \in A : \E q \in rows : q.addr = a /\ q.rev = s + f[a]
  BY <1>4, <1>6, Zenon
<1>11. rows = {[rev |-> s + f[a], op |-> "add", addr |-> a] : a \in add} \cup
              {[rev |-> s + f[a], op |-> "del", addr |-> a] : a \in del}
  <2>1. \A a \in A : row(a) = [rev |-> s + f[a], op |-> row(a).op, addr |-> a]
    <3> SUFFICES ASSUME NEW a \in A PROVE row(a) = [rev |-> s + f[a], op |-> row(a).op, addr |-> a]
      BY Zenon
    <3>1. row(a) \in Row /\ row(a).addr = a /\ row(a).rev = s + f[a]
      BY <1>1, <1>4, <1>6, Zenon
    <3> HIDE DEF f
    <3> QED
      BY <3>1, Zenon DEF Row
  <2>2. add \subseteq A /\ del \subseteq A
    BY Zenon DEF A
  <2>3. \A q \in rows : \/ q.addr \in add /\ q = [rev |-> s + f[q.addr], op |-> "add", addr |-> q.addr]
                        \/ q.addr \in del /\ q = [rev |-> s + f[q.addr], op |-> "del", addr |-> q.addr]
    BY <1>1, <1>2, <1>3, <1>5, <2>1
  <2>4. /\ \A a \in add : [rev |-> s + f[a], op |-> "add", addr |-> a] \in rows
        /\ \A a \in del : [rev |-> s + f[a], op |-> "del", addr |-> a] \in rows
    BY <1>4, <1>5, <2>1, <2>2
  <2> HIDE DEF f
  <2> QED
    BY <2>3, <2>4
<1> HIDE DEF f
<1>12. NumberedFrom(rows, s, add, del)
  BY <1>9, <1>10, <1>11, Zenon DEF A, NumberedFrom
<1> QED
  BY <1>8, <1>12, Zenon DEF A

\* A commit is one recompute of the log, or changes nothing of it: the gap is
\* what rolled-back recomputes drew since the last commit.
LEMMA CommitImplements ==
  ASSUME TxInv, NEW t \in Tx, Commit(t), MaxGap >= MaxRev - 1
  PROVE  Log!LogNext \/ UNCHANGED Log!logVars
<1>0. PICK x : x = tx[t]
  BY Zenon
<1>1. CommitOf(t, x)
  BY <1>0, TxCommits, Zenon
<1>2. PICK s \in Revs : rev <= s /\ s <= seq /\ Numbered(x.rows, s, seq)
  BY <1>1, Zenon DEF CommitOf, Writes
<1>3. s \in Nat /\ rev \in Nat /\ seq \in Nat /\ seq <= MaxRev /\ MaxRev \in Nat /\ MaxGap \in Nat
  BY TxNat, MaxRevAssumption DEF Revs
<1>4. PICK add, del : add = Named(x.rows, "add") /\ del = Named(x.rows, "del")
  BY Zenon
<1>5. /\ x.want \ authz_current \subseteq add /\ add \subseteq x.want /\ del = authz_current \ x.want
      /\ x.want \in SUBSET Addr /\ x.rows \in SUBSET Row
  BY <1>1, <1>4, Zenon DEF CommitOf, Writes, TxRecord
<1>6. CASE x.rows = {}
  <2>1. add = {} /\ del = {}
    BY <1>4, <1>6, Zenon DEF Named
  <2>2. x.want = authz_current
    BY <1>5, <2>1, Zenon DEF TxInv, TxTyped, LogTypeOK
  <2>3. authz_revisions' = authz_revisions /\ holes' = holes /\ rev' = rev /\ authz_current' = authz_current
    BY <1>1, <1>6, <2>2, Zenon DEF CommitOf
  <2>4. touched' = touched
    BY <1>1, <1>6, Zenon DEF CommitOf, TxInv, TxTyped, LogTypeOK
  <2>5. setAt' = setAt
    BY <1>1, <2>2, <2>3, Zenon DEF CommitOf, TxInv, TxTyped, LogTypeOK, Committed
  <2> QED
    BY <2>3, <2>4, <2>5, Zenon DEF Log!logVars
<1>7. CASE x.rows # {}
  <2> DEFINE moved == add \cap authz_current
  <2>1. s < seq
    BY <1>2, <1>3, <1>7 DEF Numbered
  <2>2. \A p, q \in x.rows : p.op = "add" /\ q.op = "del" => p.rev < q.rev
    BY <1>1, Zenon DEF CommitOf, Writes
  <2>3. Cardinality(add \cup del) = seq - s
    BY <1>2, <1>3, <1>4, <1>5, <2>2, RowsNumber
  <2>4. PICK f \in Log!RowOrders(add, del) :
          /\ x.rows = {[rev |-> s + f[a], op |-> "add", addr |-> a] : a \in add} \cup
                      {[rev |-> s + f[a], op |-> "del", addr |-> a] : a \in del}
          /\ \A a \in add \cup del : \E q \in x.rows : q.addr = a /\ q.rev = s + f[a]
    <3>1. NumberedFrom(x.rows, s, add, del)
      BY <1>2, <1>3, <1>4, <1>5, <2>2, RowsNumber, Zenon
    <3> QED
      BY <3>1, Zenon DEF NumberedFrom
  <2>5. PICK gap : gap = s - rev
    BY Zenon
  <2>6. gap \in 0 .. MaxGap /\ rev + gap = s
    BY <1>2, <1>3, <2>1, <2>5
  <2>7. rev' = seq /\ rev' = s + Log!Cardinality(add \cup del) /\ rev' <= MaxRev
    BY <1>1, <1>3, <1>7, <2>3, LogCardinality DEF CommitOf
  <2>8. touched' = [a \in Addr |-> IF a \in add \cup del THEN s + f[a] ELSE touched[a]]
    <3>1. \A a \in Addr : a \in add \cup del <=> \E q \in x.rows : q.addr = a
      <4>1. \A q \in x.rows : q.op \in {"add", "del"}
        BY <1>5, Zenon DEF Row
      <4> QED
        BY <1>4, <4>1, Zenon DEF Named
    <3>2. \A a \in add \cup del : (CHOOSE q \in x.rows : q.addr = a).rev = s + f[a]
      <4> SUFFICES ASSUME NEW a \in add \cup del
                   PROVE  (CHOOSE q \in x.rows : q.addr = a).rev = s + f[a]
        BY Zenon
      <4>1. PICK q \in x.rows : q.addr = a /\ q.rev = s + f[a]
        BY <2>4, Zenon
      <4>2. \A p \in x.rows : p.addr = a => p = q
        BY <1>2, <4>1, Zenon DEF Numbered
      <4> QED
        BY <4>1, <4>2, Zenon
    <3> QED
      BY <1>1, <3>1, <3>2 DEF CommitOf
  <2>9. add \cup del # {}
    BY <2>1, <2>3, <1>3, FS_EmptySet
  <2>10. (x.want \ authz_current) \cup moved = add /\ moved \in SUBSET (x.want \cap authz_current)
    BY <1>5, Zenon
  <2>11. authz_revisions' \cup holes' = (authz_revisions \cup holes) \cup
            {[rev |-> s + f[a], op |-> "add", addr |-> a] : a \in add} \cup
            {[rev |-> s + f[a], op |-> "del", addr |-> a] : a \in del}
    <3>1. authz_revisions' \cup holes' = (authz_revisions \cup holes) \cup x.rows
      BY <1>1, Zenon DEF CommitOf
    <3>2. PICK P, Q : /\ P = {[rev |-> s + f[a], op |-> "add", addr |-> a] : a \in add}
                      /\ Q = {[rev |-> s + f[a], op |-> "del", addr |-> a] : a \in del}
      BY Zenon
    <3>3. x.rows = P \cup Q
      BY <2>4, <3>2, Zenon
    <3>4. (authz_revisions \cup holes) \cup x.rows = (authz_revisions \cup holes) \cup P \cup Q
      BY <3>3, Zenon
    <3> QED
      BY <3>1, <3>2, <3>4, Zenon
  <2>12. authz_current' = x.want /\ setAt' = [setAt EXCEPT ![rev'] = x.want]
    BY <1>1, Zenon DEF CommitOf
  <2> HIDE DEF moved
  <2>13. Log!RecomputeAuthz(x.want, moved)
    <3>1. authz_current \ x.want = del /\ moved \subseteq x.want \cap authz_current
      BY <1>5, <2>10, Zenon
    <3> DEFINE Appends(A, D) ==
          \E g \in 0 .. MaxGap : \E h \in Log!RowOrders(A, D) :
            /\ rev' = (rev + g) + Log!Cardinality(A \cup D)
            /\ authz_revisions' \cup holes' = (authz_revisions \cup holes) \cup
                 {[rev |-> (rev + g) + h[a], op |-> "add", addr |-> a] : a \in A} \cup
                 {[rev |-> (rev + g) + h[a], op |-> "del", addr |-> a] : a \in D}
            /\ touched' = [a \in Addr |-> IF a \in A \cup D THEN (rev + g) + h[a] ELSE touched[a]]
    <3>2. Appends(add, del)
      <4>1. /\ rev' = (rev + gap) + Log!Cardinality(add \cup del)
            /\ authz_revisions' \cup holes' = (authz_revisions \cup holes) \cup
                 {[rev |-> (rev + gap) + f[a], op |-> "add", addr |-> a] : a \in add} \cup
                 {[rev |-> (rev + gap) + f[a], op |-> "del", addr |-> a] : a \in del}
            /\ touched' = [a \in Addr |-> IF a \in add \cup del THEN (rev + gap) + f[a] ELSE touched[a]]
        BY <2>6, <2>7, <2>8, <2>11, Zenon
      <4> QED
        BY <2>4, <2>6, <4>1, Zenon
    <3> HIDE DEF Appends
    <3>3. Appends((x.want \ authz_current) \cup moved, authz_current \ x.want)
      BY <2>10, <3>1, <3>2, Zenon
    <3>4. ((x.want \ authz_current) \cup moved) \cup (authz_current \ x.want) # {}
      BY <2>9, <2>10, <3>1, Zenon
    <3> QED
      BY <2>7, <2>12, <3>1, <3>3, <3>4, Zenon DEF Appends, Log!RecomputeAuthz, Log!Removed
  <2> QED
    BY <1>5, <2>10, <2>13, Zenon DEF Log!LogNext
<1> QED
  BY <1>6, <1>7, Zenon

\* A compaction, its holes filled in, takes the rows below the least it keeps.
LEMMA CompactImplements ==
  ASSUME TxInv, NEW cutoff \in Nat, CompactBefore(cutoff)
  PROVE  Log!LogNext \/ UNCHANGED Log!logVars
<1> DEFINE kept == {r \in authz_revisions : r.rev >= rev \/ created[r.rev] >= cutoff}
           all == authz_revisions \cup holes
<1>1. /\ kept # authz_revisions /\ authz_revisions' = kept
      /\ holes' = {r \in all \ kept : \E q \in kept : q.rev < r.rev}
      /\ UNCHANGED <<authz_current, rev, setAt, touched>>
  BY Zenon DEF CompactBefore, Keep
<1>2. /\ MaxRev \in Nat /\ rev \in Nat /\ rev <= MaxRev
      /\ \A r \in all : r.rev \in Nat /\ 1 <= r.rev /\ r.rev <= rev
  BY TxNat
<1>3. \E r \in kept : r.rev = rev
  BY <1>1, <1>2, Zenon DEF TxInv, Committed
<1>4. PICK m \in {r.rev : r \in kept} : \A n \in {r.rev : r \in kept} : m <= n
  <2>1. {r.rev : r \in kept} \in SUBSET (0 .. MaxRev) /\ {r.rev : r \in kept} # {}
    BY <1>2, <1>3
  <2> HIDE DEF kept
  <2> QED
    BY <1>2, <2>1, LeastNumber, Zenon
<1>5. m \in Nat /\ 1 <= m /\ m <= rev /\ (\A r \in kept : m <= r.rev)
  BY <1>2, <1>4, Zenon
<1>6. authz_revisions' \cup holes' = {r \in all : r.rev > m - 1}
  <2>1. \A r \in authz_revisions' \cup holes' : r \in all /\ r.rev >= m
    BY <1>1, <1>2, <1>5
  <2>2. ASSUME NEW r \in all, r.rev >= m PROVE r \in authz_revisions' \cup holes'
    <3>1. PICK q \in kept : q.rev = m
      BY <1>4, Zenon
    <3>2. CASE r.rev = m
      <4>1. r = q
        BY <3>1, <3>2, Zenon DEF TxInv, Committed
      <4> QED
        BY <1>1, <4>1, Zenon
    <3>3. CASE r.rev > m
      BY <1>1, <2>2, <3>1, <3>3, Zenon
    <3> QED
      BY <1>2, <1>5, <2>2, <3>2, <3>3
  <2> QED
    BY <1>2, <1>5, <2>1, <2>2
<1>7. CASE \A r \in all : r.rev > m - 1
  <2>1. authz_revisions' \cup holes' = all
    BY <1>6, <1>7, Zenon
  <2> QED
    BY <1>1, <2>1, Zenon DEF Log!logVars
<1>8. CASE \E r \in all : ~(r.rev > m - 1)
  <2>1. m - 1 \in Revs /\ m - 1 < rev /\ \E r \in all : r.rev <= m - 1
    BY <1>2, <1>5, <1>8 DEF Revs
  <2>2. Log!CompactAuthzRevisions(m - 1)
    BY <1>1, <1>6, <2>1, Zenon DEF Log!CompactAuthzRevisions
  <2>3. m - 1 \in Log!Revs
    BY <2>1, Zenon DEF Revs, Log!Revs
  <2> QED
    BY <2>2, <2>3, Zenon DEF Log!LogNext
<1> QED
  BY <1>7, <1>8, Zenon

\* Every step is a step of the log or none.
LEMMA TxImplements ==
  ASSUME MaxGap >= MaxRev - 1
  PROVE  TxInv /\ [TxNext]_recomputeVars => [Log!LogNext]_(Log!logVars)
<1> SUFFICES ASSUME TxInv, [TxNext]_recomputeVars PROVE Log!LogNext \/ UNCHANGED Log!logVars
  BY Zenon
<1>1. CASE Change
  BY <1>1, Zenon DEF Change, logVars, Log!logVars
<1>2. ASSUME NEW t \in Tx, Begin(t) \/ Lock(t) \/ Scan(t) \/ Rollback(t)
      PROVE  UNCHANGED Log!logVars
  BY <1>2, Zenon DEF Begin, Lock, Scan, Rollback, logVars, Log!logVars
<1>3. ASSUME NEW t \in Tx, NEW op \in {"add", "del"}, NEW a \in Addr, Insert(t, op, a)
      PROVE  UNCHANGED Log!logVars
  BY <1>3, Zenon DEF Insert, logVars, Log!logVars
<1>4. ASSUME NEW t \in Tx, Commit(t) PROVE Log!LogNext \/ UNCHANGED Log!logVars
  BY <1>4, CommitImplements, Zenon
<1>5. ASSUME NEW cutoff \in 1 .. clock + 1, CompactBefore(cutoff)
      PROVE  Log!LogNext \/ UNCHANGED Log!logVars
  <2>1. cutoff \in Nat
    BY DEF TxInv, TxTyped
  <2> QED
    BY <1>5, <2>1, CompactImplements, Zenon
<1>6. CASE UNCHANGED recomputeVars
  BY <1>6, Zenon DEF recomputeVars, logVars, txVars, Log!logVars
<1> QED
  BY <1>1, <1>2, <1>3, <1>4, <1>5, <1>6, Zenon DEF TxNext

\* Concurrent recomputes implement the log of AuthzLog, holes filled in: a
\* commit appends past the end, a compaction takes a prefix, everything else
\* stutters. The bound on gaps must leave room for every number that rollbacks
\* can use up, which is the assumption (RecomputeAuthz, inTx).
THEOREM RecomputesImplementLog ==
  ASSUME MaxGap >= MaxRev - 1
  PROVE  TxSpec => ImplementsLog
<1>1. TxInit => Log!LogInit
  BY Zenon DEF TxInit, LogInit, Log!LogInit, Revs, Log!Revs
<1>2. TxInv /\ [TxNext]_recomputeVars => [Log!LogNext]_(Log!logVars)
  BY TxImplements, Zenon
<1> QED
  BY <1>1, <1>2, TxInvariant, PTL DEF TxSpec, ImplementsLog, Log!LogSpec

-----------------------------------------------------------------------------
(* Long polls: no revision is slept through                                *)

\* What NoMissedWake needs to be inductive: no handler holds a channel that
\* has not been made yet, and only committed revisions were notified.
WakeInv ==
  /\ TypeOK
  /\ notes <= currentRev
  /\ \A p \in Poll : poll[p].wake <= ch
  /\ NoMissedWake

\* The inductive invariant holds initially.
LEMMA WakeInitially == Init => WakeInv
<1> SUFFICES ASSUME Init PROVE WakeInv
  OBVIOUS
<1>1. NoPoll \in Handler
  BY PollAssumption DEF NoPoll, Handler
<1> QED
  BY <1>1, PollAssumption DEF Init, WakeInv, TypeOK, NoMissedWake, NoPoll

\* The updates the handler makes to its state keep it a handler's state.
LEMMA HandlerUpdates ==
  ASSUME NEW h \in Handler, NEW c \in 0 .. MaxCommits, NEW b \in BOOLEAN, NEW n \in Nat,
         NEW q \in {"top", "taken", "read", "parked"}
  PROVE  /\ [h EXCEPT !.pc = q] \in Handler
         /\ [h EXCEPT !.pc = q, !.rev = c, !.full = b] \in Handler
         /\ [h EXCEPT !.pc = q, !.wake = n] \in Handler
         /\ [h EXCEPT !.pc = q, !.cur = c, !.late = b] \in Handler
<1>1. [h EXCEPT !.pc = q] \in Handler
  BY DEF Handler
<1>2. [h EXCEPT !.pc = q, !.rev = c, !.full = b] \in Handler
  BY Zenon DEF Handler
<1>3. [h EXCEPT !.pc = q, !.wake = n] \in Handler
  BY Zenon DEF Handler
<1>4. [h EXCEPT !.pc = q, !.cur = c, !.late = b] \in Handler
  BY Zenon DEF Handler
<1> QED
  BY <1>1, <1>2, <1>3, <1>4

\* Every step keeps the inductive invariant.
LEMMA WakeKeeps == WakeInv /\ [Next]_vars => WakeInv'
<1> SUFFICES ASSUME WakeInv, [Next]_vars PROVE WakeInv'
  OBVIOUS
<1> USE PollAssumption DEF WakeInv, TypeOK, NoMissedWake, WakeDue
<1>1. CASE CommitRev
  BY <1>1 DEF CommitRev
<1>2. CASE Listen
  BY <1>2 DEF Listen
<1>3. CASE Connected
  BY <1>3 DEF Connected, Broadcast, Handler
<1>4. CASE Notified
  BY <1>4 DEF Notified, Broadcast, Handler
<1>5. CASE ListenerDrops
  BY <1>5 DEF ListenerDrops
<1>6. ASSUME NEW p \in Poll, NEW r \in Handler, poll' = [poll EXCEPT ![p] = r],
             UNCHANGED <<currentRev, listener, notes, drops, ch>>,
             r.wake <= ch,
             r.pc \in {"read", "parked"} =>
               \/ r.cur = currentRev
               \/ poll[p].pc \in {"read", "parked"} /\ r.cur = poll[p].cur /\ r.wake = poll[p].wake
      PROVE  WakeInv'
  <2>1. TypeOK'
    BY <1>6
  <2>2. \A q \in Poll : poll'[q] = IF q = p THEN r ELSE poll[q]
    BY <1>6
  <2>3. \A q \in Poll : poll'[q].wake <= ch'
    BY <1>6, <2>2
  <2>4. NoMissedWake'
    BY <1>6, <2>2
  <2> QED
    BY <1>6, <2>1, <2>3, <2>4
<1>7. ASSUME NEW p \in Poll, Arrive(p) PROVE WakeInv'
  <2>1. PICK c \in 0 .. currentRev, full \in BOOLEAN :
          poll' = [poll EXCEPT ![p].pc = "top", ![p].rev = c, ![p].full = full]
    BY <1>7, Zenon DEF Arrive
  <2> DEFINE r == [poll[p] EXCEPT !.pc = "top", !.rev = c, !.full = full]
  <2>2. r \in Handler /\ r.pc = "top" /\ r.wake = poll[p].wake
    <3>1. poll[p] \in Handler /\ c \in 0 .. MaxCommits
      OBVIOUS
    <3>2. r \in Handler
      BY <3>1, HandlerUpdates, Zenon
    <3>3. r.pc = "top" /\ r.wake = poll[p].wake
      BY <3>1 DEF Handler
    <3> QED
      BY <3>2, <3>3
  <2>3. poll' = [poll EXCEPT ![p] = r]
    BY <2>1, Zenon
  <2> HIDE DEF r
  <2> QED
    BY <1>7, <2>2, <2>3, <1>6 DEF Arrive
<1>8. ASSUME NEW p \in Poll, TakeChannel(p) PROVE WakeInv'
  <2> DEFINE r == [poll[p] EXCEPT !.pc = "taken", !.wake = ch]
  <2>1. r \in Handler /\ r.pc = "taken" /\ r.wake = ch
    <3>1. poll[p] \in Handler
      OBVIOUS
    <3>2. r \in Handler
      BY <3>1, HandlerUpdates, Zenon
    <3>3. r.pc = "taken" /\ r.wake = ch
      BY <3>1 DEF Handler
    <3> QED
      BY <3>2, <3>3
  <2>2. poll' = [poll EXCEPT ![p] = r]
    BY <1>8, Zenon DEF TakeChannel
  <2> HIDE DEF r
  <2> QED
    BY <1>8, <2>1, <2>2, <1>6 DEF TakeChannel
<1>9. ASSUME NEW p \in Poll, ReadRev(p) PROVE WakeInv'
  <2>1. PICK late \in BOOLEAN :
          poll' = [poll EXCEPT ![p].pc = "read", ![p].cur = currentRev, ![p].late = late]
    BY <1>9, Zenon DEF ReadRev
  <2> DEFINE r == [poll[p] EXCEPT !.pc = "read", !.cur = currentRev, !.late = late]
  <2>2. r \in Handler /\ r.cur = currentRev /\ r.wake = poll[p].wake
    <3>1. poll[p] \in Handler
      OBVIOUS
    <3>2. r \in Handler
      BY <3>1, HandlerUpdates, Zenon
    <3>3. r.cur = currentRev /\ r.wake = poll[p].wake
      BY <3>1 DEF Handler
    <3> QED
      BY <3>2, <3>3
  <2>3. poll' = [poll EXCEPT ![p] = r]
    BY <2>1, Zenon
  <2> HIDE DEF r
  <2> QED
    BY <1>9, <2>2, <2>3, <1>6 DEF ReadRev
<1>10. ASSUME NEW p \in Poll, Answer(p) \/ Leave(p) PROVE WakeInv'
  <2>1. NoPoll \in Handler /\ NoPoll.pc = "none" /\ NoPoll.wake = 0
    BY DEF NoPoll, Handler
  <2>2. poll' = [poll EXCEPT ![p] = NoPoll]
    BY <1>10 DEF Answer, Leave
  <2> QED
    BY <1>10, <2>1, <2>2, <1>6 DEF Answer, Leave
<1>11. ASSUME NEW p \in Poll, NEW q \in {"top", "parked"}, poll' = [poll EXCEPT ![p].pc = q],
              q = "parked" => poll[p].pc = "read",
              UNCHANGED <<currentRev, listener, notes, drops, ch>>
       PROVE  WakeInv'
  <2> DEFINE r == [poll[p] EXCEPT !.pc = q]
  <2>1. r \in Handler /\ r.pc = q /\ r.cur = poll[p].cur /\ r.wake = poll[p].wake
    <3>1. poll[p] \in Handler
      OBVIOUS
    <3>2. r \in Handler
      BY <3>1, HandlerUpdates, Zenon
    <3>3. r.pc = q /\ r.cur = poll[p].cur /\ r.wake = poll[p].wake
      BY <3>1 DEF Handler
    <3> QED
      BY <3>2, <3>3
  <2>2. poll' = [poll EXCEPT ![p] = r]
    BY <1>11
  <2> HIDE DEF r
  <2> QED
    BY <1>11, <2>1, <2>2, <1>6
<1>12. ASSUME NEW p \in Poll, Park(p) \/ Wake(p) \/ Timer(p) PROVE WakeInv'
  BY <1>11, <1>12 DEF Park, Wake, Timer
<1>13. CASE UNCHANGED vars
  BY <1>13 DEF vars
<1> QED
  BY <1>1, <1>2, <1>3, <1>4, <1>5, <1>7, <1>8, <1>9, <1>10, <1>12, <1>13
  DEF Next, ListenerStep, PollStep

\* The handlers, the listener and the waiter stay in their states, and no
\* more notifications are outstanding than revisions were committed.
THEOREM PollsTyped == Spec => []TypeOK
<1>1. WakeInv => TypeOK
  BY DEF WakeInv
<1> QED
  BY WakeInitially, WakeKeeps, <1>1, PTL DEF Spec

\* No long poll sleeps through a revision, however many polls, commits and
\* listener reconnects interleave with wait(), CurrentRev and the select.
THEOREM NoSleepThroughRevision == Spec => []NoMissedWake
<1>1. WakeInv => NoMissedWake
  BY DEF WakeInv
<1> QED
  BY WakeInitially, WakeKeeps, <1>1, PTL DEF Spec
=============================================================================
