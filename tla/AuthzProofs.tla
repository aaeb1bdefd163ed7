----------------------------- MODULE AuthzProofs ----------------------------
(***************************************************************************)
(* Proofs about the authorized set and its mirror in the kernel, whatever  *)
(* the number of addresses, revisions, restores and faults:                *)
(*   the revision log (AuthzLog) and what a delta read from it is worth,   *)
(*   the agent (AuthzSync), whose kernel set mirrors the log,              *)
(*   the agent under a database that is restored (AuthzSyncRestore).       *)
(*                                                                         *)
(* StrayCovered and MissingExplained relate the kernel set to the set that *)
(* was committed with the cursor's revision.  They are not inductive: a    *)
(* restart moves the cursor back to the one on disk, and a delta moves it  *)
(* forward.  Both are covered by AtRev: an address no row past revision c  *)
(* names has the membership it had at c, so what is known at one revision  *)
(* carries over to another one.                                            *)
(***************************************************************************)
EXTENDS AuthzSyncRestore, FiniteSetTheorems, TLAPS

-----------------------------------------------------------------------------
(* The revision log                                                        *)

\* Revision c was committed, and the rows past it tell all that changed since.
AtRev(c) ==
  /\ c <= rev
  /\ \A a \in Addr : touched[a] <= c => (a \in setAt[c] <=> a \in authz_current)

\* The newest row of an address is in the log or older than all of the log.
NewestKept ==
  \A a \in Addr : touched[a] > 0 =>
    \/ \E r \in authz_revisions : r.addr = a /\ r.rev = touched[a]
    \/ /\ authz_revisions # {}
       /\ \A q \in authz_revisions : q.rev > touched[a]

\* The newest row of an address tells whether it is authorized.
NewestDecides ==
  \A r \in authz_revisions :
    r.rev = touched[r.addr] => (r.op = "add" <=> r.addr \in authz_current)

LogInv ==
  /\ LogTypeOK
  /\ \A a \in Addr : touched[a] <= rev
  /\ \A r \in authz_revisions : r.rev <= touched[r.addr]
  /\ NewestKept
  /\ NewestDecides
  /\ rev = 0 \/ \E r \in authz_revisions : r.rev = rev
  /\ setAt[rev] = authz_current
  /\ setAt[0] = {}
  /\ \A c \in Revs : \A a \in setAt[c] : touched[a] > 0

\* What a step of the log leaves behind for those who hold a revision of it:
\* committed revisions keep their sets, and an address that changes is named
\* by a row past the old end of the log.
LogGrows ==
  /\ rev <= rev'
  /\ rev' = rev => authz_current' = authz_current
  /\ \A c \in Revs : c <= rev => setAt'[c] = setAt[c]
  /\ \A a \in Addr :
       \/ /\ touched'[a] = touched[a]
          /\ a \in authz_current' <=> a \in authz_current
       \/ touched'[a] > rev

\* A recompute appends rows of the right type: the revisions it numbers stay
\* below the bound its guard checks.
LEMMA RecomputeType ==
  ASSUME LogTypeOK, NEW want \in SUBSET Addr,
         NEW moved \in SUBSET (want \cap authz_current),
         RecomputeAuthz(want, moved)
  PROVE  LogTypeOK'
<1> DEFINE add == (want \ authz_current) \cup moved
           del == authz_current \ want
           n == Cardinality(add \cup del)
<1>1. add \subseteq Addr /\ del \subseteq Addr
  BY Zenon DEF LogTypeOK
<1>2. n \in Nat
  <2>1. IsFiniteSet(add \cup del)
    BY <1>1, AddrAssumption, FS_Subset, Zenon
  <2> QED  BY <2>1, FS_CardinalityType, Zenon
<1>3. PICK gap \in 0 .. MaxGap, f \in RowOrders(add, del) :
        /\ rev' = rev + gap + n
        /\ authz_revisions' = authz_revisions \cup
             {[rev |-> rev + gap + f[a], op |-> "add", addr |-> a] : a \in add} \cup
             {[rev |-> rev + gap + f[a], op |-> "del", addr |-> a] : a \in del}
        /\ touched' = [a \in Addr |-> IF a \in add \cup del THEN rev + gap + f[a]
                                                           ELSE touched[a]]
  BY Zenon DEF RecomputeAuthz, Removed
<1>4. /\ rev' <= MaxRev
      /\ authz_current' = want
      /\ setAt' = [setAt EXCEPT ![rev'] = want]
      /\ gap \in Nat
  BY MaxRevAssumption DEF RecomputeAuthz, Removed
<1>5. \A a \in add \cup del : f[a] \in 1 .. n
  BY Zenon DEF RowOrders
<1> HIDE DEF add, del, n
<1>6. \A a \in add \cup del : rev + gap + f[a] \in Revs
  BY <1>2, <1>3, <1>4, <1>5, MaxRevAssumption DEF Revs, LogTypeOK
<1>7. authz_revisions' \in SUBSET Row
  BY <1>1, <1>3, <1>6 DEF Row, LogTypeOK
<1>8. touched' \in [Addr -> Revs]
  BY <1>3, <1>6, Zenon DEF LogTypeOK
<1>9. rev' \in Revs
  BY <1>2, <1>3, <1>4, MaxRevAssumption DEF Revs, LogTypeOK
<1>10. setAt' \in [Revs -> SUBSET Addr]
  BY <1>4, <1>9, Zenon DEF LogTypeOK
<1> QED  BY <1>4, <1>7, <1>8, <1>9, <1>10, Zenon DEF LogTypeOK

\* RecomputeAuthz keeps the log consistent with the authorized set and only
\* ever adds past its end.
LEMMA RecomputeLog ==
  ASSUME LogInv, NEW want \in SUBSET Addr,
         NEW moved \in SUBSET (want \cap authz_current),
         RecomputeAuthz(want, moved)
  PROVE  LogInv' /\ LogGrows
<1> DEFINE add == (want \ authz_current) \cup moved
           del == authz_current \ want
           n == Cardinality(add \cup del)
<1>t. LogTypeOK /\ LogTypeOK'
  BY RecomputeType, Zenon DEF LogInv
<1>1. add \subseteq Addr /\ del \subseteq Addr /\ add \subseteq want /\ del \cap want = {}
  BY Zenon DEF LogInv, LogTypeOK
<1>2. n \in Nat /\ n > 0
  <2>1. IsFiniteSet(add \cup del)
    BY <1>1, AddrAssumption, FS_Subset, Zenon
  <2>2. add \cup del # {}
    BY Zenon DEF RecomputeAuthz, Removed
  <2> QED  BY <2>1, <2>2, FS_CardinalityType, FS_EmptySet
<1>3. PICK gap \in 0 .. MaxGap, f \in RowOrders(add, del) :
        /\ rev' = rev + gap + n
        /\ authz_revisions' = authz_revisions \cup
             {[rev |-> rev + gap + f[a], op |-> "add", addr |-> a] : a \in add} \cup
             {[rev |-> rev + gap + f[a], op |-> "del", addr |-> a] : a \in del}
        /\ touched' = [a \in Addr |-> IF a \in add \cup del THEN rev + gap + f[a]
                                                           ELSE touched[a]]
  BY Zenon DEF RecomputeAuthz, Removed
<1>4. /\ authz_current' = want
      /\ setAt' = [setAt EXCEPT ![rev'] = want]
      /\ rev' = rev + gap + n
      /\ gap \in Nat
  BY <1>3, MaxRevAssumption DEF RecomputeAuthz
<1>5. /\ \A a \in add \cup del : f[a] \in 1 .. n
      /\ \A i \in 1 .. n : \E a \in add \cup del : f[a] = i
  BY Zenon DEF RowOrders
<1>6. \A a \in Addr \ (add \cup del) : a \in want <=> a \in authz_current
  BY Zenon
<1>7. /\ rev \in Nat
      /\ \A a \in Addr : touched[a] \in Nat /\ touched[a] <= rev
      /\ \A r \in authz_revisions : /\ r.rev \in Nat /\ r.addr \in Addr
                                    /\ r.rev <= touched[r.addr]
  BY MaxRevAssumption DEF LogInv, LogTypeOK, Revs, Row
<1> HIDE DEF add, del, n
\* A row of the new log is an old one or one of this recompute.
<1>8. \A r \in authz_revisions' :
        \/ r \in authz_revisions
        \/ /\ r.addr \in add \cup del
           /\ r.rev = rev + gap + f[r.addr]
           /\ r.op = "add" <=> r.addr \in add
  <2>1. add \cap del = {}
    BY <1>1, Zenon
  <2> QED  BY <1>3, <2>1
<1>9. \A a \in add \cup del : \E r \in authz_revisions' : r.addr = a /\ r.rev = rev + gap + f[a]
  <2> SUFFICES ASSUME NEW a \in add \cup del
               PROVE  \E r \in authz_revisions' : r.addr = a /\ r.rev = rev + gap + f[a]
    BY Zenon
  <2>1. \/ [rev |-> rev + gap + f[a], op |-> "add", addr |-> a] \in authz_revisions'
        \/ [rev |-> rev + gap + f[a], op |-> "del", addr |-> a] \in authz_revisions'
    BY <1>3, Zenon
  <2> QED  BY <2>1, Zenon
<1>10. \A a \in Addr : touched'[a] = IF a \in add \cup del THEN rev + gap + f[a] ELSE touched[a]
  BY <1>3, Zenon
<1>11. \A a \in Addr : touched'[a] <= rev'
  BY <1>2, <1>4, <1>5, <1>7, <1>10
<1>12. \A r \in authz_revisions' : r.rev <= touched'[r.addr]
  BY <1>1, <1>4, <1>5, <1>7, <1>8, <1>10
<1>13. NewestKept'
  <2> SUFFICES ASSUME NEW a \in Addr, touched'[a] > 0
               PROVE  \/ \E r \in authz_revisions' : r.addr = a /\ r.rev = touched'[a]
                      \/ /\ authz_revisions' # {}
                         /\ \A q \in authz_revisions' : q.rev > touched'[a]
    BY Zenon DEF NewestKept
  <2>1. CASE a \in add \cup del
    BY <2>1, <1>9, <1>10
  <2>2. CASE a \notin add \cup del
    <3>1. touched'[a] = touched[a]
      BY <2>2, <1>10, Zenon
    <3>2. CASE \E r \in authz_revisions : r.addr = a /\ r.rev = touched[a]
      BY <3>1, <3>2, <1>3, Zenon
    <3>3. CASE authz_revisions # {} /\ \A q \in authz_revisions : q.rev > touched[a]
      <4>1. authz_revisions' # {}
        BY <3>3, <1>3, Zenon
      <4>2. \A q \in authz_revisions' : q.rev > touched'[a]
        BY <3>1, <3>3, <1>4, <1>5, <1>7, <1>8
      <4> QED  BY <4>1, <4>2, Zenon
    <3> QED  BY <3>1, <3>2, <3>3, Zenon DEF LogInv, NewestKept
  <2> QED  BY <2>1, <2>2, Zenon
<1>14. NewestDecides'
  <2> SUFFICES ASSUME NEW r \in authz_revisions', r.rev = touched'[r.addr]
               PROVE  r.op = "add" <=> r.addr \in authz_current'
    BY Zenon DEF NewestDecides
  <2>1. CASE r \in authz_revisions
    <3>1. r.addr \notin add \cup del
      BY <2>1, <1>1, <1>4, <1>5, <1>7, <1>10
    <3> QED  BY <2>1, <3>1, <1>4, <1>6, <1>7, <1>10, Zenon DEF LogInv, NewestDecides
  <2>2. CASE r \notin authz_revisions
    BY <2>2, <1>1, <1>4, <1>8, Zenon
  <2> QED  BY <2>1, <2>2, Zenon
<1>15. \E r \in authz_revisions' : r.rev = rev'
  BY <1>2, <1>4, <1>5, <1>9
<1>16. \A c \in Revs : c <= rev => setAt'[c] = setAt[c]
  BY <1>2, <1>4, <1>7, <1>t DEF LogTypeOK
<1>17. setAt'[rev'] = authz_current' /\ setAt'[0] = {}
  BY <1>2, <1>4, <1>7, <1>16, <1>t, MaxRevAssumption DEF LogInv, LogTypeOK, Revs
<1>18. \A a \in Addr : touched[a] <= touched'[a] /\ (a \in add \cup del => touched'[a] > rev)
  BY <1>4, <1>5, <1>7, <1>10
<1>19. \A c \in Revs : \A a \in setAt'[c] : touched'[a] > 0
  <2> SUFFICES ASSUME NEW c \in Revs, NEW a \in setAt'[c] PROVE touched'[a] > 0
    BY Zenon
  <2>1. a \in Addr
    BY <1>t, Zenon DEF LogTypeOK
  <2>2. CASE a \in add \cup del
    BY <2>1, <2>2, <1>4, <1>5, <1>7, <1>10
  <2>3. CASE a \notin add \cup del
    <3>1. a \in setAt[c] \/ a \in setAt[rev]
      BY <2>1, <2>3, <1>4, <1>6, <1>t, Zenon DEF LogInv, LogTypeOK
    <3> QED  BY <3>1, <2>1, <2>3, <1>10, <1>t, Zenon DEF LogInv, LogTypeOK
  <2> QED  BY <2>2, <2>3, Zenon
<1>20. LogGrows
  BY <1>2, <1>4, <1>6, <1>7, <1>10, <1>16, <1>18 DEF LogGrows
<1> QED
  BY <1>t, <1>11, <1>12, <1>13, <1>14, <1>15, <1>17, <1>19, <1>20, Zenon DEF LogInv

\* CompactAuthzRevisions forgets a prefix of the log: an address it forgets
\* is older than everything that is left.
LEMMA CompactLog ==
  ASSUME LogInv, NEW k \in Revs, CompactAuthzRevisions(k)
  PROVE  LogInv' /\ LogGrows
<1>1. /\ authz_revisions' = {r \in authz_revisions : r.rev > k}
      /\ k < rev
      /\ UNCHANGED <<authz_current, rev, setAt, touched>>
  BY Zenon DEF CompactAuthzRevisions
<1>2. /\ rev \in Nat /\ k \in Nat
      /\ \A a \in Addr : touched[a] \in Nat
      /\ \A r \in authz_revisions : r.rev \in Nat
  BY MaxRevAssumption DEF LogInv, LogTypeOK, Revs, Row
<1>3. \E r \in authz_revisions' : r.rev = rev
  BY <1>1, <1>2 DEF LogInv
<1>4. NewestKept'
  <2> SUFFICES ASSUME NEW a \in Addr, touched[a] > 0
               PROVE  \/ \E r \in authz_revisions' : r.addr = a /\ r.rev = touched[a]
                      \/ /\ authz_revisions' # {}
                         /\ \A q \in authz_revisions' : q.rev > touched[a]
    BY <1>1, Zenon DEF NewestKept
  <2>1. CASE touched[a] > k
    BY <2>1, <1>1, <1>3, Zenon DEF LogInv, NewestKept
  <2>2. CASE touched[a] <= k
    BY <2>2, <1>1, <1>2, <1>3
  <2> QED  BY <2>1, <2>2, <1>2
<1>5. NewestDecides'
  BY <1>1, Zenon DEF LogInv, NewestDecides
<1>6. LogTypeOK'
  BY <1>1, Zenon DEF LogInv, LogTypeOK
<1>7. LogGrows
  BY <1>1, <1>2 DEF LogGrows
<1> QED  BY <1>1, <1>3, <1>4, <1>5, <1>6, <1>7, Zenon DEF LogInv

\* What DeltaSince and FullSet return is an answer of the right type.
LEMMA WriteAuthzType ==
  ASSUME LogTypeOK, NEW c, NEW full
  PROVE  WriteAuthz(c, full) \in
           [full : BOOLEAN, rev : Revs, add : SUBSET Addr, del : SUBSET Addr]
BY Zenon DEF LogTypeOK, WriteAuthz, FullSet, DeltaSince, FinalOp

\* A delta read from a log that was not compacted past revision c is
\* complete: it names exactly the addresses with a row past c, and says of
\* each whether it is authorized now (DeltaSince, with the ErrCompacted check).
LEMMA DeltaComplete ==
  ASSUME LogInv, NEW c \in Nat, ~Compacted(c)
  PROVE  /\ FinalOp(c, "add") \subseteq authz_current
         /\ FinalOp(c, "del") \cap authz_current = {}
         /\ \A a \in Addr \ (FinalOp(c, "add") \cup FinalOp(c, "del")) : touched[a] <= c
<1>1. /\ \A a \in Addr : touched[a] \in Nat
      /\ \A r \in authz_revisions : /\ r.rev \in Nat /\ r.addr \in Addr
                                    /\ r.op \in {"add", "del"}
                                    /\ r.rev <= touched[r.addr]
  BY MaxRevAssumption DEF LogInv, LogTypeOK, Revs, Row
<1>2. ASSUME NEW op, NEW a \in FinalOp(c, op)
      PROVE  a \in Addr /\ (op = "add" <=> a \in authz_current)
  <2>1. PICK r \in authz_revisions :
          /\ a \in Addr /\ r.addr = a /\ r.op = op /\ r.rev > c
          /\ \A q \in authz_revisions : q.addr = a => q.rev <= r.rev
    BY <1>2, Zenon DEF FinalOp
  <2>2. r.rev = touched[a]
    <3>1. touched[a] > 0
      BY <2>1, <1>1
    <3>2. CASE \E q \in authz_revisions : q.addr = a /\ q.rev = touched[a]
      BY <3>2, <2>1, <1>1
    <3>3. CASE \A q \in authz_revisions : q.rev > touched[a]
      BY <3>3, <2>1, <1>1
    <3> QED  BY <3>1, <3>2, <3>3, <2>1, Zenon DEF LogInv, NewestKept
  <2> QED  BY <2>1, <2>2, Zenon DEF LogInv, NewestDecides
<1>3. ASSUME NEW a \in Addr, touched[a] > c
      PROVE  a \in FinalOp(c, "add") \cup FinalOp(c, "del")
  <2>1. CASE \E r \in authz_revisions : r.addr = a /\ r.rev = touched[a]
    BY <2>1, <1>1, <1>3, Zenon DEF FinalOp
  <2>2. CASE authz_revisions # {} /\ \A q \in authz_revisions : q.rev > touched[a]
    BY <2>2, <1>1, <1>3 DEF Compacted
  <2> QED  BY <2>1, <2>2, <1>1, <1>3 DEF LogInv, NewestKept
<1> QED  BY <1>1, <1>2, <1>3

-----------------------------------------------------------------------------
(* The agent: its inductive invariant                                      *)

\* StrayCovered and MissingExplained for a kernel set K, of which X was cut,
\* at the revision c.
Covered(K, c) == \A a \in K : a \in setAt[c] \/ touched[a] > c
Present(K, X, c) == \A a \in setAt[c] \ K : touched[a] > c \/ a \in X

\* The answer runSync holds is right for its revision and for its cursor.
RespOK ==
  IF resp.full
  THEN resp.add = setAt[resp.rev]
  ELSE /\ resp.add \subseteq setAt[resp.rev]
       /\ resp.del \cap setAt[resp.rev] = {}
       /\ \A a \in Addr \ (resp.add \cup resp.del) :
            touched[a] <= cursor \/ touched[a] > resp.rev

\* The batch is right for the answer, although the kernel set may have shrunk
\* since it was listed.
PlanOK ==
  IF resp.full
  THEN /\ kernel \ resp.add \subseteq plan.del
       /\ plan.del \cap resp.add = {}
       /\ plan.add \subseteq resp.add
       /\ resp.add \ (kernel \cup plan.add) \subseteq cut
  ELSE /\ plan.add = resp.add
       /\ plan.del \subseteq resp.del
       /\ resp.del \cap kernel \subseteq plan.del

MirrorInv ==
  /\ AtRev(cursor) /\ AtRev(disk) /\ disk <= cursor
  /\ Covered(kernel, cursor) /\ Present(kernel, cut, cursor)

AnswerInv ==
  /\ (pc = "wait" /\ ~req.full) => req.rev = cursor
  /\ pc \in {"answered", "planned", "persist"} => cursor <= resp.rev /\ AtRev(resp.rev)
  /\ pc \in {"answered", "planned"} => RespOK
  /\ pc = "planned" => PlanOK
  /\ pc = "persist" => Covered(kernel, resp.rev) /\ Present(kernel, cut, resp.rev)

MemoInv == memo.rev <= rev /\ MemoFresh

IInv == TypeOK /\ LogInv /\ MirrorInv /\ AnswerInv /\ MemoInv

-----------------------------------------------------------------------------
(* Type correctness                                                        *)

\* The initial state is well typed.
LEMMA TypeInit == Init => TypeOK
<1> SUFFICES ASSUME Init PROVE TypeOK
  BY Zenon
<1>1. 0 \in Revs /\ 0 \in 0 .. MaxFaults
  BY MaxRevAssumption, SyncAssumption DEF Revs
<1>2. LogTypeOK
  BY <1>1, Zenon DEF Init, LogInit, LogTypeOK
<1>3. memo \in [rev : Revs \cup {-1}, set : SUBSET Addr]
  BY Zenon DEF Init
<1>4. /\ req \in [rev : Revs, full : BOOLEAN]
      /\ resp \in [full : BOOLEAN, rev : Revs, add : SUBSET Addr, del : SUBSET Addr]
      /\ plan \in [add : SUBSET Addr, del : SUBSET Addr]
      /\ hb \in [rev : Revs, set : SUBSET Addr]
  BY <1>1, Zenon DEF Init, NoReq, NoResp, NoPlan, NoBeat
<1> QED  BY <1>1, <1>2, <1>3, <1>4, Zenon DEF Init, TypeOK

\* The variables keep their types at every step.
LEMMA TypeNext == TypeOK /\ [Next]_vars => TypeOK'
<1> SUFFICES ASSUME TypeOK, [Next]_vars PROVE TypeOK'
  BY Zenon
<1> USE DEF TypeOK
<1>f. \A kind : Fault(kind) => faults' \in 0 .. MaxFaults
  BY SyncAssumption DEF Fault
<1>i. ToIdle => /\ pc' = "idle"
                /\ req' \in [rev : Revs, full : BOOLEAN]
                /\ resp' \in [full : BOOLEAN, rev : Revs, add : SUBSET Addr, del : SUBSET Addr]
                /\ plan' \in [add : SUBSET Addr, del : SUBSET Addr]
  BY MaxRevAssumption DEF ToIdle, NoReq, NoResp, NoPlan, Revs
<1>z. 0 \in Revs
  BY MaxRevAssumption DEF Revs
<1>h. NoBeat \in [rev : Revs, set : SUBSET Addr]
  BY MaxRevAssumption DEF NoBeat, Revs
<1>l. (UNCHANGED logVars) => LogTypeOK'
  BY Zenon DEF LogTypeOK, logVars
<1>0. CASE UNCHANGED vars
  BY <1>0, <1>l DEF vars, syncVars, usageVars, hbVars
<1>1. CASE Recompute
  BY <1>1, RecomputeType DEF Recompute, syncVars, usageVars, hbVars
<1>2. CASE IngestRevokes
  BY <1>2, RecomputeType, ZenonT(30) DEF IngestRevokes, Removed, LogTypeOK, syncVars, hbVars
<1>3. CASE Compact
  BY <1>3, <1>f DEF Compact, CompactAuthzRevisions, LogTypeOK, syncVars, usageVars, hbVars
<1>4. CASE SyncRequest
  <2>1. forceFull' \in BOOLEAN
    BY <1>4, SyncAssumption, Zenon DEF SyncRequest
  <2>2. req' \in [rev : Revs, full : BOOLEAN]
    BY <1>4, <1>z, SyncAssumption DEF SyncRequest
  <2> QED  BY <1>4, <1>l, <2>1, <2>2, Zenon DEF SyncRequest, usageVars, hbVars
<1>5. CASE AnswerBody
  BY <1>5, <1>l, WriteAuthzType, Zenon
     DEF AnswerBody, syncVars, usageVars, hbVars
<1>6. CASE AnswerUnchanged
  BY <1>6, <1>l, <1>i, Zenon
     DEF AnswerUnchanged, syncVars, usageVars, hbVars
<1>7. CASE RequestFails
  BY <1>7, <1>l, <1>i, <1>f, Zenon
     DEF RequestFails, syncVars, usageVars, hbVars
<1>8. CASE GraceList
  BY <1>8, <1>l, <1>f, Zenon
     DEF GraceList, syncVars, usageVars, hbVars
<1>9. CASE GraceApply
  BY <1>9, <1>l, <1>i, Zenon
     DEF GraceApply, syncVars, usageVars, hbVars
<1>10. CASE ApplyList
  BY <1>10, <1>l, Zenon
     DEF ApplyList, BatchFor, syncVars, usageVars, hbVars
<1>11. CASE ApplyRefused
  BY <1>11, <1>l, <1>i, Zenon
     DEF ApplyRefused, syncVars, usageVars, hbVars
<1>13. CASE ApplyBatch
  BY <1>13, <1>l, Zenon
     DEF ApplyBatch, syncVars, usageVars, hbVars
<1>14. CASE ApplyRejected
  BY <1>14, <1>l, <1>i, Zenon
     DEF ApplyRejected, syncVars, usageVars, hbVars
<1>15. CASE NftFails
  BY <1>15, <1>l, <1>i, <1>f, Zenon
     DEF NftFails, syncVars, usageVars, hbVars
<1>16. CASE Persist
  BY <1>16, <1>l, <1>i, Zenon
     DEF Persist, syncVars, usageVars, hbVars
<1>17. CASE PersistFails
  BY <1>17, <1>l, <1>i, <1>f, Zenon
     DEF PersistFails, syncVars, usageVars, hbVars
<1>18. CASE SaveRuntime
  BY <1>18, <1>l
     DEF SaveRuntime, syncVars, usageVars, hbVars
<1>19. CASE AckLost
  BY <1>19, <1>l, <1>f
     DEF AckLost, syncVars, usageVars, hbVars
<1>20. CASE RevokeList
  BY <1>20, <1>l
     DEF RevokeList, syncVars, usageVars, hbVars
<1>21. CASE RevokeApply
  BY <1>21, <1>l
     DEF RevokeApply, syncVars, usageVars, hbVars
<1>22. CASE HeartbeatRev
  BY <1>22, <1>l, <1>h
     DEF HeartbeatRev, syncVars, usageVars, hbVars
<1>23. CASE HeartbeatList
  BY <1>23, <1>l, <1>h
     DEF HeartbeatList, syncVars, usageVars, hbVars
<1>24. CASE HeartbeatPost
  BY <1>24, <1>l, <1>h, Zenon
     DEF HeartbeatPost, AuthzStatus, LogTypeOK, syncVars, usageVars, hbVars
<1>25. CASE HeartbeatFails
  BY <1>25, <1>l, <1>f, <1>h
     DEF HeartbeatFails, AuthzStatus, LogTypeOK, syncVars, usageVars, hbVars
<1>26. CASE Crash
  BY <1>26, <1>l, <1>f, <1>i, <1>h, Zenon
     DEF Crash, Restart, syncVars, usageVars, hbVars
<1>27. CASE CrashCorrupt
  BY <1>27, <1>l, <1>f, <1>i, <1>h, <1>z, Zenon
     DEF CrashCorrupt, Restart, syncVars, usageVars, hbVars
<1>28. CASE Flush
  BY <1>28, <1>l, <1>f
     DEF Flush, syncVars, usageVars, hbVars
<1> QED
  BY <1>0, <1>1, <1>2, <1>3, <1>4, <1>5, <1>6, <1>7, <1>8, <1>9, <1>10, <1>11,
     <1>13, <1>14, <1>15, <1>16, <1>17, <1>18, <1>19, <1>20, <1>21,
     <1>22, <1>23, <1>24, <1>25, <1>26, <1>27, <1>28, Zenon
     DEF Next, SyncStep, UsageStep, HeartbeatStep, FaultStep

\* The variables of the log and of the agent keep their types: the revision
\* cursor of runtime.json, in memory and in every request, answer and
\* heartbeat, is always a revision of the log.
THEOREM TypeCorrect == Spec => []TypeOK
BY TypeInit, TypeNext, PTL DEF Spec

-----------------------------------------------------------------------------
(* What each kind of step keeps                                            *)

\* What is known of a kernel set at revision c is known at an older one d.
LEMMA CarryBack ==
  ASSUME TypeOK, NEW K \in SUBSET Addr, NEW X, NEW c \in Revs, NEW d \in Revs, d <= c,
         AtRev(c), AtRev(d), Covered(K, c), Present(K, X, c)
  PROVE  Covered(K, d) /\ Present(K, X, d)
<1>1. /\ c \in Nat /\ d \in Nat
      /\ \A a \in Addr : touched[a] \in Nat
      /\ setAt[c] \subseteq Addr /\ setAt[d] \subseteq Addr
  BY MaxRevAssumption DEF TypeOK, LogTypeOK, Revs
<1>2. \A a \in Addr : touched[a] <= d => (a \in setAt[c] <=> a \in setAt[d])
  BY <1>1 DEF AtRev
<1>3. Covered(K, d)
  BY <1>1, <1>2 DEF Covered
<1>4. Present(K, X, d)
  BY <1>1, <1>2 DEF Present
<1> QED  BY <1>3, <1>4, Zenon

\* Taking members out of the kernel set, and counting them as cut, keeps it
\* mirrored.
LEMMA ShrinkMirror ==
  ASSUME MirrorInv, UNCHANGED <<logVars, cursor, disk>>,
         kernel' \subseteq kernel, kernel \subseteq kernel' \cup cut', cut \subseteq cut'
  PROVE  MirrorInv'
BY Zenon DEF MirrorInv, AtRev, Covered, Present, logVars

\* It also keeps the answer that runSync is applying right.
LEMMA ShrinkAnswer ==
  ASSUME AnswerInv, UNCHANGED <<logVars, cursor, pc, req, resp, plan>>,
         kernel' \subseteq kernel, kernel \subseteq kernel' \cup cut', cut \subseteq cut'
  PROVE  AnswerInv'
<1>1. PlanOK => PlanOK'
  BY Zenon DEF PlanOK
<1>2. RespOK => RespOK'
  BY Zenon DEF RespOK, logVars
<1>3. AtRev(resp.rev) => AtRev(resp.rev)'
  BY Zenon DEF AtRev, logVars
<1>4. Covered(kernel, resp.rev) /\ Present(kernel, cut, resp.rev) =>
        (Covered(kernel, resp.rev) /\ Present(kernel, cut, resp.rev))'
  BY Zenon DEF Covered, Present, logVars
<1> QED  BY <1>1, <1>2, <1>3, <1>4, Zenon DEF AnswerInv

\* Revision c is still there after a step of the log, and what changed lies
\* past it.
GrownAt(c) ==
  /\ c <= rev' /\ setAt'[c] = setAt[c] /\ setAt[c] \subseteq Addr
  /\ \A a \in Addr : touched'[a] <= c => (a \in setAt'[c] <=> a \in authz_current')
  /\ \A a \in Addr : touched[a] > c => touched'[a] > c
  /\ \A a \in Addr : touched'[a] = touched[a] \/ touched'[a] > c

\* A step of the log leaves the revisions it had.
LEMMA GrowAt ==
  ASSUME TypeOK, LogInv, TypeOK', LogGrows, NEW c \in Revs, AtRev(c)
  PROVE  GrownAt(c)
<1>1. /\ rev \in Nat /\ rev' \in Nat /\ c \in Nat
      /\ \A a \in Addr : touched[a] \in Nat /\ touched'[a] \in Nat /\ touched[a] <= rev
  BY MaxRevAssumption DEF TypeOK, LogInv, LogTypeOK, Revs
<1>2. c <= rev /\ c <= rev' /\ setAt'[c] = setAt[c]
  BY <1>1 DEF AtRev, LogGrows
<1>3. \A a \in Addr : touched'[a] <= c => (a \in setAt'[c] <=> a \in authz_current')
  BY <1>1, <1>2 DEF AtRev, LogGrows
<1>4. /\ \A a \in Addr : touched[a] > c => touched'[a] > c
      /\ \A a \in Addr : touched'[a] = touched[a] \/ touched'[a] > c
  BY <1>1, <1>2 DEF LogGrows
<1> QED  BY <1>2, <1>3, <1>4, Zenon DEF GrownAt, TypeOK, LogTypeOK

\* What is known of the kernel set and of the answer at that revision stays
\* so.
LEMMA GrowMirror ==
  ASSUME NEW c, GrownAt(c), NEW K \in SUBSET Addr, NEW X, Covered(K, c), Present(K, X, c)
  PROVE  /\ \A a \in K : a \in setAt'[c] \/ touched'[a] > c
         /\ \A a \in setAt'[c] \ K : touched'[a] > c \/ a \in X
BY Zenon DEF GrownAt, Covered, Present

\* An answer under way stays sound when the log grows behind it.
LEMMA GrowResp ==
  ASSUME GrownAt(resp.rev), RespOK, UNCHANGED <<resp, cursor>>
  PROVE  RespOK'
BY Zenon DEF GrownAt, RespOK

\* A step of the log leaves the agent's view of it right: its revisions are
\* still there, and what changed lies past them.
LEMMA GrowKeeps ==
  ASSUME IInv, TypeOK', LogInv', LogGrows,
         UNCHANGED <<kernel, cursor, disk, pc, req, resp, plan, memo, cut>>
  PROVE  MirrorInv' /\ AnswerInv' /\ MemoInv'
<1>1. rev \in Nat /\ rev' \in Nat
  BY MaxRevAssumption DEF IInv, TypeOK, LogTypeOK, Revs
<1>2. \A c \in Revs : AtRev(c) => GrownAt(c)
  BY GrowAt, Zenon DEF IInv
<1>3. cursor \in Revs /\ disk \in Revs /\ resp.rev \in Revs /\ kernel \in SUBSET Addr
  BY Zenon DEF IInv, TypeOK
<1>4. MirrorInv'
  <2>1. GrownAt(cursor) /\ GrownAt(disk)
    BY <1>2, <1>3, Zenon DEF IInv, MirrorInv
  <2>2. /\ \A a \in kernel : a \in setAt'[cursor] \/ touched'[a] > cursor
        /\ \A a \in setAt'[cursor] \ kernel : touched'[a] > cursor \/ a \in cut
    BY <1>3, <2>1, GrowMirror, Zenon DEF IInv, MirrorInv
  <2> QED  BY <2>1, <2>2, Zenon DEF IInv, MirrorInv, AtRev, Covered, Present, GrownAt
<1>5. AnswerInv'
  <2>1. AtRev(resp.rev) => AtRev(resp.rev)'
    BY <1>2, <1>3, Zenon DEF AtRev, GrownAt
  <2>2. AtRev(resp.rev) /\ RespOK => RespOK'
    BY <1>2, <1>3, GrowResp, Zenon
  <2>3. PlanOK => PlanOK'
    BY Zenon DEF PlanOK
  <2>4. AtRev(resp.rev) /\ Covered(kernel, resp.rev) /\ Present(kernel, cut, resp.rev) =>
          (Covered(kernel, resp.rev) /\ Present(kernel, cut, resp.rev))'
    BY <1>2, <1>3, GrowMirror, Zenon DEF Covered, Present
  <2> QED  BY <2>1, <2>2, <2>3, <2>4, Zenon DEF IInv, AnswerInv
<1>6. MemoInv'
  <2>1. memo.rev \in Int
    BY MaxRevAssumption DEF IInv, TypeOK, Revs
  <2> QED  BY <1>1, <2>1 DEF IInv, MemoInv, MemoFresh, LogGrows
<1> QED  BY <1>4, <1>5, <1>6, Zenon

\* The authz handler's answer is right for the revision it carries: a full
\* set is the set of that revision, a delta tells all that changed since the
\* agent's cursor.
LEMMA AnswerRight ==
  ASSUME TypeOK, LogInv, AnswerBody, ~req.full => req.rev = cursor
  PROVE  resp'.rev = rev /\ AtRev(resp.rev)' /\ RespOK'
<1>1. /\ UNCHANGED <<logVars, cursor, kernel>>
      /\ pc = "wait" /\ pc' = "answered"
      /\ resp' = WriteAuthz(req.rev, req.full)
  BY Zenon DEF AnswerBody
<1>2. resp'.rev = rev
  BY <1>1, Zenon DEF WriteAuthz, FullSet, DeltaSince
<1>3. setAt[rev] = authz_current /\ rev \in Nat /\ cursor \in Nat
  BY MaxRevAssumption DEF TypeOK, LogTypeOK, LogInv, Revs
<1>4. AtRev(resp.rev)'
  BY <1>1, <1>2, <1>3 DEF AtRev, logVars
<1>5. RespOK'
  <2>1. CASE req.full \/ req.rev = 0 \/ Compacted(req.rev)
    <3>1. resp' = FullSet
      BY <2>1, <1>1, Zenon DEF WriteAuthz
    <3> QED  BY <3>1, <1>1, <1>3 DEF RespOK, FullSet, logVars
  <2>2. CASE ~(req.full \/ req.rev = 0 \/ Compacted(req.rev))
    <3>1. req.rev = cursor /\ ~Compacted(cursor)
      BY <2>2, <1>1, Zenon
    <3>2. resp' = DeltaSince(cursor)
      BY <2>2, <3>1, <1>1, Zenon DEF WriteAuthz
    <3> DEFINE A == FinalOp(cursor, "add")
               D == FinalOp(cursor, "del")
    <3>3. /\ A \subseteq authz_current
          /\ D \cap authz_current = {}
          /\ \A a \in Addr \ (A \cup D) : touched[a] <= cursor
      BY <3>1, <1>3, DeltaComplete, Zenon
    <3>4. resp'.full = FALSE /\ resp'.add = A /\ resp'.del = D
      BY <3>2, Zenon DEF DeltaSince
    <3> HIDE DEF A, D
    <3> QED  BY <3>3, <3>4, <1>1, <1>2, <1>3, Zenon DEF RespOK, logVars
  <2> QED  BY <2>1, <2>2, Zenon
<1> QED  BY <1>2, <1>4, <1>5, Zenon

\* The batch applyAuthz computes is right for the answer and the set listed.
LEMMA ListRight ==
  ASSUME ApplyList
  PROVE  PlanOK'
<1>1. plan' = BatchFor(resp, kernel) /\ UNCHANGED <<kernel, cut, resp>>
  BY DEF ApplyList
<1>2. CASE resp.full
  BY <1>1, <1>2, Zenon DEF PlanOK, BatchFor
<1>3. CASE ~resp.full
  BY <1>1, <1>3, Zenon DEF PlanOK, BatchFor
<1> QED  BY <1>2, <1>3, Zenon

\* A batch that nft accepts brings the kernel set to the answer's revision,
\* even if members were revoked or flushed between the listing and the batch.
LEMMA BatchRight ==
  ASSUME TypeOK, TypeOK', ApplyBatch, AtRev(resp.rev), RespOK, PlanOK,
         \/ resp.full
         \/ /\ cursor <= resp.rev /\ AtRev(cursor)
            /\ Covered(kernel, cursor) /\ Present(kernel, cut, cursor)
  PROVE  Covered(kernel', resp.rev) /\ Present(kernel', cut', resp.rev)
<1>1. /\ pc = "planned"
      /\ kernel' = (kernel \cup plan.add) \ plan.del
      /\ cut' = cut \ plan.add
  BY Zenon DEF ApplyBatch
<1>2. /\ AtRev(resp.rev) /\ RespOK /\ PlanOK
      /\ ~resp.full => /\ cursor <= resp.rev /\ AtRev(cursor)
                       /\ Covered(kernel, cursor) /\ Present(kernel, cut, cursor)
  BY Zenon
<1>3. /\ cursor \in Revs /\ resp.rev \in Revs
      /\ cursor \in Nat /\ resp.rev \in Nat
      /\ \A a \in Addr : touched[a] \in Nat
      /\ kernel \subseteq Addr /\ kernel' \subseteq Addr
      /\ setAt[resp.rev] \subseteq Addr
  BY MaxRevAssumption DEF TypeOK, LogTypeOK, Revs
<1>4. Covered(kernel', resp.rev) /\ Present(kernel', cut', resp.rev)
  <2>1. CASE resp.full
    BY <2>1, <1>1, <1>2, Zenon DEF RespOK, PlanOK, Covered, Present
  <2>2. CASE ~resp.full
    <3>0. cursor <= resp.rev /\ AtRev(cursor)
      BY <1>2, <2>2, Zenon
    <3>1. \A a \in Addr : touched[a] <= cursor => (a \in setAt[cursor] <=> a \in setAt[resp.rev])
      BY <1>2, <1>3, <3>0 DEF AtRev
    <3>2. Covered(kernel', resp.rev)
      <4> SUFFICES ASSUME NEW a \in kernel', ~(touched[a] > resp.rev)
                   PROVE  a \in setAt[resp.rev]
        BY Zenon DEF Covered
      <4>1. CASE a \in plan.add
        BY <4>1, <2>2, <1>2, Zenon DEF PlanOK, RespOK
      <4>2. CASE a \notin plan.add
        <5>1. a \in kernel /\ a \notin resp.add /\ a \notin resp.del
          BY <4>2, <2>2, <1>1, <1>2, Zenon DEF PlanOK
        <5>2. touched[a] <= cursor
          BY <5>1, <2>2, <1>2, <1>3, Zenon DEF RespOK
        <5>3. a \in setAt[cursor]
          BY <5>1, <5>2, <2>2, <1>2, <1>3 DEF Covered
        <5> QED  BY <5>1, <5>2, <5>3, <3>1, <1>3, Zenon
      <4> QED  BY <4>1, <4>2, Zenon
    <3>3. Present(kernel', cut', resp.rev)
      <4> SUFFICES ASSUME NEW a \in setAt[resp.rev], a \notin kernel', ~(touched[a] > resp.rev)
                   PROVE  a \in cut'
        BY Zenon DEF Present
      <4>1. a \notin resp.del /\ a \notin plan.del /\ a \notin kernel /\ a \notin plan.add
        BY <2>2, <1>1, <1>2, Zenon DEF RespOK, PlanOK
      <4>2. touched[a] <= cursor
        BY <4>1, <2>2, <1>2, <1>3, Zenon DEF RespOK, PlanOK
      <4>3. a \in cut
        BY <4>1, <4>2, <3>1, <2>2, <1>2, <1>3 DEF Present
      <4> QED  BY <4>1, <4>3, <1>1, Zenon
    <3> QED  BY <3>2, <3>3, Zenon
  <2> QED  BY <2>1, <2>2, Zenon
<1> QED  BY <1>4, Zenon

\* A restart with the cursor of runtime.json, or with none, finds a kernel
\* set that mirrors the log at that older revision.
LEMMA RestartMirror ==
  ASSUME TypeOK, LogInv, MirrorInv, NEW persisted \in {disk, 0}, Restart(persisted)
  PROVE  MirrorInv'
<1>1. /\ cursor' = persisted /\ disk' = persisted
      /\ UNCHANGED <<logVars, kernel, cut>>
  BY Zenon DEF Restart
<1>2. /\ cursor \in Revs /\ disk \in Revs /\ kernel \in SUBSET Addr
      /\ rev \in Nat /\ cursor \in Nat
      /\ \A a \in Addr : touched[a] \in Nat
  BY MaxRevAssumption DEF TypeOK, LogTypeOK, Revs
<1>3. AtRev(persisted) /\ Covered(kernel, persisted) /\ Present(kernel, cut, persisted)
  <2>1. CASE persisted = disk
    BY <2>1, <1>2, CarryBack, Zenon DEF MirrorInv
  <2>2. CASE persisted = 0
    <3>1. setAt[0] = {} /\ \A a \in authz_current : touched[a] > 0
      BY Zenon DEF LogInv, TypeOK, LogTypeOK
    <3>2. \A a \in kernel : touched[a] > 0
      <4>1. \A a \in setAt[cursor] : touched[a] > 0
        BY <1>2, Zenon DEF LogInv
      <4>2. \A a \in kernel : a \in setAt[cursor] \/ touched[a] > cursor
        BY Zenon DEF MirrorInv, Covered
      <4> QED  BY <1>2, <4>1, <4>2
    <3> QED  BY <2>2, <3>1, <3>2, <1>2 DEF AtRev, Covered, Present
  <2> QED  BY <2>1, <2>2, Zenon
<1>4. persisted <= persisted
  BY <1>2, MaxRevAssumption DEF Revs
<1> QED  BY <1>1, <1>3, <1>4, Zenon DEF MirrorInv, AtRev, Covered, Present, logVars

-----------------------------------------------------------------------------
(* The invariant is inductive                                              *)

\* The empty log and the empty kernel set satisfy the invariant.
LEMMA InvInit == Init => IInv
<1> SUFFICES ASSUME Init PROVE IInv
  BY Zenon
<1>1. TypeOK
  BY TypeInit, Zenon
<1>2. 0 \in Revs /\ rev = 0 /\ authz_current = {} /\ authz_revisions = {}
  BY MaxRevAssumption DEF Init, LogInit, Revs
<1>3. (\A c \in Revs : setAt[c] = {}) /\ (\A a \in Addr : touched[a] = 0)
  BY Zenon DEF Init, LogInit
<1>4. LogInv
  BY <1>1, <1>2, <1>3 DEF LogInv, NewestKept, NewestDecides, TypeOK
<1>5. MirrorInv
  BY <1>2, <1>3 DEF Init, MirrorInv, AtRev, Covered, Present
<1>6. AnswerInv
  BY Zenon DEF Init, AnswerInv
<1>7. MemoInv
  BY <1>2 DEF Init, MemoInv, MemoFresh
<1> QED  BY <1>1, <1>4, <1>5, <1>6, <1>7, Zenon DEF IInv

\* Every step of the backend, of the three loops and of their faults keeps
\* the invariant.
LEMMA InvNext == IInv /\ [Next]_vars => IInv'
<1> SUFFICES ASSUME IInv, [Next]_vars PROVE IInv'
  BY Zenon
<1>t. TypeOK /\ TypeOK'
  BY TypeNext, Zenon DEF IInv
\* Steps that leave the log alone keep LogInv; those that also leave the memo
\* alone keep MemoInv.
<1>l. (UNCHANGED logVars) => LogInv'
  BY Zenon DEF IInv, LogInv, LogTypeOK, NewestKept, NewestDecides, logVars
<1>m. (UNCHANGED <<logVars, memo>>) => MemoInv'
  BY Zenon DEF IInv, MemoInv, MemoFresh, logVars
<1>i. ToIdle => AnswerInv'
  BY Zenon DEF ToIdle, AnswerInv
\* Steps that leave the log and the mirrored state alone.
<1>k. (UNCHANGED <<logVars, kernel, cursor, disk, cut>>) => MirrorInv'
  BY ShrinkMirror, Zenon DEF IInv
<1>a. (UNCHANGED <<logVars, kernel, cursor, cut, pc, req, resp, plan>>) => AnswerInv'
  BY ShrinkAnswer, Zenon DEF IInv
<1>0. CASE UNCHANGED vars
  BY <1>0, <1>t, <1>l, <1>m, <1>k, <1>a, Zenon DEF IInv, vars, syncVars, hbVars
<1>1. CASE Recompute
  <2>1. LogInv' /\ LogGrows
    BY <1>1, RecomputeLog, Zenon DEF Recompute, IInv
  <2> QED  BY <1>1, <1>t, <2>1, GrowKeeps, Zenon DEF Recompute, IInv, syncVars, hbVars
<1>2. CASE IngestRevokes
  <2>1. LogInv' /\ LogGrows
    BY <1>2, RecomputeLog, Zenon DEF IngestRevokes, IInv
  <2> QED  BY <1>2, <1>t, <2>1, GrowKeeps, Zenon DEF IngestRevokes, IInv, syncVars, hbVars
<1>3. CASE Compact
  <2>1. LogInv' /\ LogGrows
    BY <1>3, CompactLog, Zenon DEF Compact, IInv
  <2> QED  BY <1>3, <1>t, <2>1, GrowKeeps, Zenon DEF Compact, IInv, syncVars, hbVars
<1>4. CASE SyncRequest
  <2>1. AnswerInv'
    <3>1. pc' = "wait" /\ cursor' = cursor
      BY <1>4, Zenon DEF SyncRequest
    <3>2. PICK full \in BOOLEAN : req' = [rev |-> IF full THEN 0 ELSE cursor, full |-> full]
      BY <1>4, <1>t, Zenon DEF SyncRequest, TypeOK
    <3>3. req'.full \/ req'.rev = cursor
      BY <3>2, Zenon
    <3> QED  BY <3>1, <3>3, Zenon DEF AnswerInv
  <2> QED  BY <1>4, <1>t, <1>l, <1>m, <1>k, <2>1, Zenon DEF SyncRequest, IInv, hbVars
<1>5. CASE AnswerBody
  <2>1. /\ pc = "wait" /\ pc' = "answered" /\ cursor' = cursor
        /\ ~req.full => req.rev = cursor
    BY <1>5, Zenon DEF AnswerBody, IInv, AnswerInv
  <2>2. resp'.rev = rev /\ AtRev(resp.rev)' /\ RespOK'
    BY <1>5, <2>1, AnswerRight, Zenon DEF IInv
  <2>3. AnswerInv'
    BY <2>1, <2>2, Zenon DEF IInv, MirrorInv, AtRev, AnswerInv
  <2> QED  BY <1>5, <1>t, <1>l, <1>m, <1>k, <2>3, Zenon DEF AnswerBody, IInv, hbVars
<1>6. CASE AnswerUnchanged
  BY <1>6, <1>t, <1>l, <1>m, <1>k, <1>i, Zenon DEF AnswerUnchanged, IInv, hbVars
<1>7. CASE RequestFails
  BY <1>7, <1>t, <1>l, <1>m, <1>k, <1>i, Zenon DEF RequestFails, IInv, hbVars
<1>8. CASE GraceList
  <2>1. AnswerInv'
    BY <1>8, Zenon DEF GraceList, AnswerInv
  <2> QED  BY <1>8, <1>t, <1>l, <1>m, <1>k, <2>1, Zenon DEF GraceList, IInv, hbVars
<1>9. CASE GraceApply
  <2>1. MirrorInv'
    BY <1>9, ShrinkMirror, Zenon DEF GraceApply, IInv
  <2> QED  BY <1>9, <1>t, <1>l, <1>m, <1>i, <2>1, Zenon DEF GraceApply, IInv, hbVars
<1>10. CASE ApplyList
  <2>1. AnswerInv'
    <3>1. /\ pc = "answered" /\ pc' = "planned" /\ plan' = BatchFor(resp, kernel)
          /\ UNCHANGED <<logVars, kernel, cursor, cut, req, resp>>
      BY <1>10, Zenon DEF ApplyList
    <3>2. PlanOK'
      BY <1>10, ListRight, Zenon
    <3>3. RespOK'
      BY <3>1, Zenon DEF IInv, AnswerInv, RespOK, logVars
    <3>4. (cursor <= resp.rev /\ AtRev(resp.rev))'
      BY <3>1, Zenon DEF IInv, AnswerInv, AtRev, logVars
    <3> QED  BY <3>1, <3>2, <3>3, <3>4, Zenon DEF AnswerInv
  <2> QED  BY <1>10, <1>t, <1>l, <1>m, <1>k, <2>1, Zenon DEF ApplyList, IInv, hbVars
<1>11. CASE ApplyRefused
  BY <1>11, <1>t, <1>l, <1>m, <1>k, <1>i, Zenon DEF ApplyRefused, IInv, hbVars
<1>13. CASE ApplyBatch
  <2>1. /\ pc = "planned" /\ pc' = "persist"
        /\ UNCHANGED <<logVars, cursor, disk, resp, memo>>
    BY <1>13, Zenon DEF ApplyBatch, hbVars
  <2>b. Covered(kernel', resp.rev) /\ Present(kernel', cut', resp.rev)
    BY <1>13, <1>t, <2>1, BatchRight, Zenon DEF IInv, MirrorInv, AnswerInv
  <2>c. Covered(kernel', cursor) /\ Present(kernel', cut', cursor)
    BY <1>t, <2>1, <2>b, CarryBack, Zenon DEF IInv, MirrorInv, AnswerInv, TypeOK
  <2>2. MirrorInv'
    BY <2>1, <2>c, Zenon DEF IInv, MirrorInv, AtRev, Covered, Present, logVars
  <2>3. AnswerInv'
    <3>1. (cursor <= resp.rev /\ AtRev(resp.rev))'
      BY <2>1, Zenon DEF IInv, AnswerInv, AtRev, logVars
    <3>2. (Covered(kernel, resp.rev) /\ Present(kernel, cut, resp.rev))'
      BY <2>1, <2>b, Zenon DEF Covered, Present, logVars
    <3> QED  BY <2>1, <3>1, <3>2, Zenon DEF AnswerInv
  <2> QED  BY <1>t, <1>l, <1>m, <2>1, <2>2, <2>3, Zenon DEF IInv
<1>14. CASE ApplyRejected
  BY <1>14, <1>t, <1>l, <1>m, <1>k, <1>i, Zenon DEF ApplyRejected, IInv, hbVars
<1>15. CASE NftFails
  BY <1>15, <1>t, <1>l, <1>m, <1>k, <1>i, Zenon DEF NftFails, IInv, hbVars
\* The cursor moves to the answer's revision, which the kernel set mirrors.
<1>p. ASSUME pc = "persist", cursor' = resp.rev, disk' \in {disk, resp.rev},
             UNCHANGED <<logVars, kernel, cut>>
      PROVE  MirrorInv'
  <2>1. /\ cursor <= resp.rev /\ AtRev(resp.rev)
        /\ Covered(kernel, resp.rev) /\ Present(kernel, cut, resp.rev)
    BY <1>p, Zenon DEF IInv, AnswerInv
  <2>2. disk <= resp.rev /\ resp.rev <= resp.rev
    <3>1. disk \in Nat /\ cursor \in Nat /\ resp.rev \in Nat
      BY <1>t, MaxRevAssumption DEF TypeOK, Revs
    <3>2. disk <= cursor
      BY Zenon DEF IInv, MirrorInv
    <3> QED  BY <2>1, <3>1, <3>2
  <2> QED  BY <1>p, <2>1, <2>2, Zenon DEF IInv, MirrorInv, AtRev, Covered, Present, logVars
<1>16. CASE Persist
  BY <1>16, <1>t, <1>l, <1>m, <1>i, <1>p, Zenon DEF Persist, IInv, hbVars
<1>17. CASE PersistFails
  BY <1>17, <1>t, <1>l, <1>m, <1>i, <1>p, Zenon DEF PersistFails, IInv, hbVars
<1>18. CASE SaveRuntime
  <2>1. MirrorInv'
    <3>1. cursor <= cursor
      BY <1>t, MaxRevAssumption DEF TypeOK, Revs
    <3> QED  BY <1>18, <3>1, Zenon
               DEF SaveRuntime, IInv, MirrorInv, AtRev, Covered, Present, logVars
  <2> QED  BY <1>18, <1>t, <1>l, <1>m, <1>a, <2>1, Zenon DEF SaveRuntime, IInv, syncVars, hbVars
<1>19. CASE AckLost
  BY <1>19, <1>t, <1>l, <1>m, <1>k, <1>a, Zenon DEF AckLost, IInv, syncVars, hbVars
<1>20. CASE RevokeList
  BY <1>20, <1>t, <1>l, <1>m, <1>k, <1>a, Zenon DEF RevokeList, IInv, syncVars, hbVars
<1>21. CASE RevokeApply
  <2>1. MirrorInv'
    BY <1>21, ShrinkMirror, Zenon DEF RevokeApply, IInv
  <2>2. AnswerInv'
    BY <1>21, ShrinkAnswer, Zenon DEF RevokeApply, IInv, syncVars
  <2> QED  BY <1>21, <1>t, <1>l, <1>m, <2>1, <2>2, Zenon DEF RevokeApply, IInv, hbVars
<1>22. CASE HeartbeatRev
  BY <1>22, <1>t, <1>l, <1>m, <1>k, <1>a, Zenon DEF HeartbeatRev, IInv, syncVars
<1>23. CASE HeartbeatList
  BY <1>23, <1>t, <1>l, <1>m, <1>k, <1>a, Zenon DEF HeartbeatList, IInv, syncVars
\* The memo is refreshed with what AuthzStatus returns.
<1>s. ASSUME UNCHANGED logVars, memo' \in {memo, [rev |-> rev, set |-> AuthzStatus]}
      PROVE  MemoInv'
  <2>1. rev <= rev
    BY <1>t, MaxRevAssumption DEF TypeOK, LogTypeOK, Revs
  <2> QED  BY <1>s, <2>1 DEF IInv, MemoInv, MemoFresh, AuthzStatus, logVars
<1>24. CASE HeartbeatPost
  BY <1>24, <1>t, <1>l, <1>s, <1>k, <1>a, Zenon DEF HeartbeatPost, IInv, syncVars
<1>25. CASE HeartbeatFails
  BY <1>25, <1>t, <1>l, <1>s, <1>k, <1>a, Zenon DEF HeartbeatFails, IInv, syncVars
<1>26. CASE Crash
  BY <1>26, <1>t, <1>l, <1>m, <1>i, RestartMirror, Zenon DEF Crash, Restart, IInv
<1>27. CASE CrashCorrupt
  BY <1>27, <1>t, <1>l, <1>m, <1>i, RestartMirror, Zenon DEF CrashCorrupt, Restart, IInv
<1>28. CASE Flush
  <2>1. MirrorInv'
    BY <1>28, ShrinkMirror, Zenon DEF Flush, IInv
  <2>2. AnswerInv'
    BY <1>28, ShrinkAnswer, Zenon DEF Flush, IInv, syncVars
  <2> QED  BY <1>28, <1>t, <1>l, <1>m, <2>1, <2>2, Zenon DEF Flush, IInv, hbVars
<1> QED
  BY <1>0, <1>1, <1>2, <1>3, <1>4, <1>5, <1>6, <1>7, <1>8, <1>9, <1>10, <1>11,
     <1>13, <1>14, <1>15, <1>16, <1>17, <1>18, <1>19, <1>20, <1>21,
     <1>22, <1>23, <1>24, <1>25, <1>26, <1>27, <1>28, Zenon
     DEF Next, SyncStep, UsageStep, HeartbeatStep, FaultStep

-----------------------------------------------------------------------------
(* The theorems                                                            *)

\* The inductive invariant holds in every reachable state.
LEMMA Invariance == Spec => []IInv
BY InvInit, InvNext, PTL DEF Spec

\* Whatever deltas, full sets, inline revocations, flushes, failures and
\* restarts are interleaved, no address stays in the kernel set that the
\* agent's revision does not authorize and no later row will remove.
THEOREM NoStrandedAccess == Spec => []StrayCovered
<1>1. IInv => StrayCovered
  BY Zenon DEF IInv, MirrorInv, Covered, StrayCovered
<1> QED  BY <1>1, Invariance, PTL

\* Dually, runSync never loses an address it was told to authorize: one that
\* is missing is still to come or was taken out by something else.
THEOREM NoLostGrant == Spec => []MissingExplained
<1>1. IInv => MissingExplained
  BY Zenon DEF IInv, MirrorInv, Present, MissingExplained
<1> QED  BY <1>1, Invariance, PTL

\* A delta behind the cursor means the database was restored: without that,
\* the answer applyAuthz looks at is never behind its revision.
THEOREM RegressionNeedsRestore == Spec => []NeverBehind
<1>1. IInv => NeverBehind
  <2> SUFFICES ASSUME IInv, pc = "answered" PROVE ~(resp.rev < cursor)
    BY Zenon DEF NeverBehind, Regressed
  <2>1. cursor <= resp.rev
    BY Zenon DEF IInv, AnswerInv
  <2>2. cursor \in Int /\ resp.rev \in Int
    BY MaxRevAssumption DEF IInv, TypeOK, Revs
  <2> QED  BY <2>1, <2>2
<1> QED  BY <1>1, Invariance, PTL

\* The fingerprint the heartbeat handler compares with is never stale.
THEOREM FingerprintFresh == Spec => []MemoFresh
<1>1. IInv => MemoFresh
  BY Zenon DEF IInv, MemoInv
<1> QED  BY <1>1, Invariance, PTL

-----------------------------------------------------------------------------
(* A restored database: the inductive invariant                            *)

\* LogInv of the log that a dump holds.
DumpInv(d) ==
  /\ d \in [cur : SUBSET Addr, revs : SUBSET Row, rev : Revs,
            setAt : [Revs -> SUBSET Addr], touched : [Addr -> Revs]]
  /\ \A a \in Addr : d.touched[a] <= d.rev
  /\ \A r \in d.revs : r.rev <= d.touched[r.addr]
  /\ \A a \in Addr : d.touched[a] > 0 =>
       \/ \E r \in d.revs : r.addr = a /\ r.rev = d.touched[a]
       \/ d.revs # {} /\ \A q \in d.revs : q.rev > d.touched[a]
  /\ \A r \in d.revs : r.rev = d.touched[r.addr] => (r.op = "add" <=> r.addr \in d.cur)
  /\ d.rev = 0 \/ \E r \in d.revs : r.rev = d.rev
  /\ d.setAt[d.rev] = d.cur
  /\ d.setAt[0] = {}
  /\ \A c \in Revs : \A a \in d.setAt[c] : d.touched[a] > 0

\* What runs on the present timeline mirrors it.
OnMirror ==
  /\ on.mem => AtRev(cursor) /\ Covered(kernel, cursor) /\ Present(kernel, cut, cursor)
  /\ on.disk => on.mem /\ AtRev(disk) /\ disk <= cursor

Applying == pc \in {"answered", "planned", "persist"}

OnAnswer ==
  /\ (pc = "wait" /\ ~req.full) => req.rev = cursor
  /\ (Applying /\ on.mem) => on.resp /\ cursor <= resp.rev
  /\ (Applying /\ on.resp) => AtRev(resp.rev) /\ (resp.full \/ on.mem)
  /\ (pc \in {"answered", "planned"} /\ on.resp) => RespOK
  /\ (pc = "planned" /\ on.resp) => PlanOK
  /\ (pc = "persist" /\ on.resp) => Covered(kernel, resp.rev) /\ Present(kernel, cut, resp.rev)
  /\ (pc \in {"planned", "persist"} /\ ~resp.full) => cursor <= resp.rev

RestoreInv ==
  /\ TypeOK /\ LogInv /\ DumpInv(backup)
  /\ on \in [resp : BOOLEAN, mem : BOOLEAN, disk : BOOLEAN]
  /\ OnMirror /\ OnAnswer

-----------------------------------------------------------------------------
(* A restored database: the invariant is inductive                         *)

\* The log is consistent exactly when its dump is.
LEMMA DumpIs == LogInv <=> DumpInv(dump)
<1>1. dump \in [cur : SUBSET Addr, revs : SUBSET Row, rev : Revs,
                setAt : [Revs -> SUBSET Addr], touched : [Addr -> Revs]] <=> LogTypeOK
  BY Zenon DEF dump, LogTypeOK
<1>2. /\ dump.cur = authz_current /\ dump.revs = authz_revisions /\ dump.rev = rev
      /\ dump.setAt = setAt /\ dump.touched = touched
  BY Zenon DEF dump
<1> QED
  BY <1>1, <1>2, Zenon DEF LogInv, DumpInv, NewestKept, NewestDecides

\* The database starts empty, and so does its dump.
LEMMA RestoreInitially == RestoreInit => RestoreInv
<1> SUFFICES ASSUME RestoreInit PROVE RestoreInv
  BY Zenon
<1>1. IInv /\ pc = "idle" /\ on = [resp |-> TRUE, mem |-> TRUE, disk |-> TRUE] /\ backup = dump
  BY InvInit, Zenon DEF RestoreInit, Init
<1>2. TypeOK /\ LogInv /\ DumpInv(backup)
  BY <1>1, DumpIs, Zenon DEF IInv
<1>3. OnMirror
  BY <1>1, Zenon DEF IInv, MirrorInv, OnMirror
<1>4. OnAnswer
  BY <1>1, Zenon DEF OnAnswer, Applying
<1> QED
  BY <1>1, <1>2, <1>3, <1>4, Zenon DEF RestoreInv

\* As ShrinkMirror and ShrinkAnswer, whatever the timeline.
LEMMA OnShrink ==
  ASSUME RestoreInv, UNCHANGED <<logVars, cursor, disk, on>>,
         kernel' \subseteq kernel, kernel \subseteq kernel' \cup cut', cut \subseteq cut'
  PROVE  OnMirror' /\ ((UNCHANGED <<pc, req, resp, plan>>) => OnAnswer')
<1>1. \A c : /\ Covered(kernel, c) => Covered(kernel', c)
             /\ Present(kernel, cut, c) => Present(kernel', cut', c)
  BY Zenon DEF Covered, Present
<1>2. OnMirror'
  BY <1>1, Zenon DEF RestoreInv, OnMirror, AtRev, Covered, Present, logVars
<1>3. ASSUME UNCHANGED <<pc, req, resp, plan>> PROVE OnAnswer'
  <2>1. PlanOK => PlanOK'
    BY <1>3, Zenon DEF PlanOK
  <2>2. RespOK => RespOK'
    BY <1>3, Zenon DEF RespOK, logVars
  <2>3. AtRev(resp.rev) => AtRev(resp.rev)'
    BY <1>3, Zenon DEF AtRev, logVars
  <2>4. Covered(kernel, resp.rev) /\ Present(kernel, cut, resp.rev) =>
          (Covered(kernel, resp.rev) /\ Present(kernel, cut, resp.rev))'
    BY <1>1, <1>3, Zenon DEF Covered, Present, logVars
  <2> QED
    BY <1>3, <2>1, <2>2, <2>3, <2>4, Zenon DEF RestoreInv, OnAnswer, Applying
<1> QED
  BY <1>2, <1>3, Zenon

\* As GrowKeeps, whatever the timeline.
LEMMA OnGrow ==
  ASSUME RestoreInv, TypeOK', LogGrows,
         UNCHANGED <<kernel, cursor, disk, pc, req, resp, plan, cut, on>>
  PROVE  OnMirror' /\ OnAnswer'
<1>1. \A c \in Revs : AtRev(c) => GrownAt(c)
  BY GrowAt, Zenon DEF RestoreInv
<1>2. cursor \in Revs /\ disk \in Revs /\ resp.rev \in Revs /\ kernel \in SUBSET Addr
  BY Zenon DEF RestoreInv, TypeOK
<1>3. /\ AtRev(cursor) => AtRev(cursor)'
      /\ AtRev(disk) => AtRev(disk)'
      /\ AtRev(resp.rev) => AtRev(resp.rev)'
  BY <1>1, <1>2, Zenon DEF AtRev, GrownAt
<1>4. AtRev(cursor) /\ Covered(kernel, cursor) /\ Present(kernel, cut, cursor) =>
        (Covered(kernel, cursor) /\ Present(kernel, cut, cursor))'
  BY <1>1, <1>2, GrowMirror, Zenon DEF Covered, Present
<1>5. AtRev(resp.rev) /\ Covered(kernel, resp.rev) /\ Present(kernel, cut, resp.rev) =>
        (Covered(kernel, resp.rev) /\ Present(kernel, cut, resp.rev))'
  BY <1>1, <1>2, GrowMirror, Zenon DEF Covered, Present
<1>6. AtRev(resp.rev) /\ RespOK => RespOK'
  BY <1>1, <1>2, GrowResp, Zenon
<1>7. PlanOK => PlanOK'
  BY Zenon DEF PlanOK
<1>8. OnMirror'
  BY <1>3, <1>4, Zenon DEF RestoreInv, OnMirror
<1>9. OnAnswer'
  BY <1>3, <1>5, <1>6, <1>7, Zenon DEF RestoreInv, OnAnswer, Applying
<1> QED
  BY <1>8, <1>9, Zenon

\* An answer of the present timeline is right for it; a full set is, whatever
\* the timeline of the cursor.
LEMMA OnAnswerBody ==
  ASSUME RestoreInv, Answer
  PROVE  on' \in [resp : BOOLEAN, mem : BOOLEAN, disk : BOOLEAN] /\ OnMirror' /\ OnAnswer'
<1>1. /\ AnswerBody /\ on' = [on EXCEPT !.resp = resp'.full \/ on.mem]
      /\ pc = "wait" /\ pc' = "answered" /\ UNCHANGED <<logVars, kernel, cursor, disk, cut>>
  BY Zenon DEF Answer, AnswerBody
<1>2. resp'.full \in BOOLEAN
  BY <1>1, WriteAuthzType, Zenon DEF AnswerBody, RestoreInv, TypeOK
<1>3. /\ on' \in [resp : BOOLEAN, mem : BOOLEAN, disk : BOOLEAN]
      /\ on'.mem = on.mem /\ on'.disk = on.disk /\ on'.resp = (resp'.full \/ on.mem)
  BY <1>1, <1>2, Zenon DEF RestoreInv
<1>4. resp'.rev = rev /\ AtRev(resp.rev)' /\ RespOK'
  BY <1>1, AnswerRight, Zenon DEF RestoreInv, OnAnswer
<1>5. OnMirror'
  BY <1>1, <1>3, Zenon DEF RestoreInv, OnMirror, AtRev, Covered, Present, logVars
<1>6. on.mem => cursor <= rev
  BY Zenon DEF RestoreInv, OnMirror, AtRev
<1>7. OnAnswer'
  BY <1>1, <1>3, <1>4, <1>6, Zenon DEF OnAnswer, Applying
<1> QED
  BY <1>3, <1>5, <1>7, Zenon

\* The cursor moves to the answer's revision, onto the answer's timeline.
LEMMA OnPersist ==
  ASSUME RestoreInv, pc = "persist", cursor' = resp.rev, UNCHANGED <<logVars, kernel, cut>>,
         \/ disk' = resp.rev /\ on' = [on EXCEPT !.mem = on.resp, !.disk = on.resp]
         \/ disk' = disk /\ on' = [on EXCEPT !.mem = on.resp]
  PROVE  on' \in [resp : BOOLEAN, mem : BOOLEAN, disk : BOOLEAN] /\ OnMirror'
<1>1. /\ on' \in [resp : BOOLEAN, mem : BOOLEAN, disk : BOOLEAN] /\ on'.mem = on.resp
      /\ \/ disk' = resp.rev /\ on'.disk = on.resp
         \/ disk' = disk /\ on'.disk = on.disk
  BY Zenon DEF RestoreInv
<1>2. on.resp => /\ AtRev(resp.rev) /\ Covered(kernel, resp.rev) /\ Present(kernel, cut, resp.rev)
  BY Zenon DEF RestoreInv, OnAnswer, Applying
<1>3. on.disk => on.resp /\ AtRev(disk) /\ disk <= cursor /\ cursor <= resp.rev
  BY Zenon DEF RestoreInv, OnMirror, OnAnswer, Applying
<1>4. cursor \in Nat /\ disk \in Nat /\ resp.rev \in Nat
  BY MaxRevAssumption DEF RestoreInv, TypeOK, Revs
<1>5. on.resp => /\ AtRev(cursor)' /\ Covered(kernel, cursor)' /\ Present(kernel, cut, cursor)'
  BY <1>2, Zenon DEF AtRev, Covered, Present, logVars
<1>6. on'.disk => on.resp /\ AtRev(disk)' /\ disk' <= cursor'
  <2> SUFFICES ASSUME on'.disk PROVE on.resp /\ AtRev(disk)' /\ disk' <= cursor'
    BY Zenon
  <2>1. on.resp /\ AtRev(disk') /\ disk' <= resp.rev
    <3>1. CASE disk' = resp.rev /\ on'.disk = on.resp
      BY <1>2, <1>4, <3>1
    <3>2. CASE disk' = disk /\ on'.disk = on.disk
      BY <1>3, <1>4, <3>2
    <3> QED
      BY <1>1, <3>1, <3>2, Zenon
  <2> QED
    BY <2>1, Zenon DEF AtRev, logVars
<1> QED
  BY <1>1, <1>5, <1>6, Zenon DEF OnMirror

\* The batch of a full set brings any kernel set to the answer's timeline;
\* that of a delta only one that is there already.
LEMMA OnBatch ==
  ASSUME RestoreInv, TypeOK', ApplyBatch, UNCHANGED on
  PROVE  OnMirror' /\ OnAnswer'
<1>1. /\ pc = "planned" /\ pc' = "persist" /\ UNCHANGED <<logVars, cursor, disk, resp, on>>
  BY Zenon DEF ApplyBatch
<1>2. TypeOK /\ cursor \in Revs /\ resp.rev \in Revs /\ kernel' \in SUBSET Addr
  BY Zenon DEF RestoreInv, TypeOK
<1>3. /\ on.resp => AtRev(resp.rev) /\ RespOK /\ PlanOK /\ (resp.full \/ on.mem)
      /\ on.mem => on.resp /\ cursor <= resp.rev
      /\ on.mem => AtRev(cursor) /\ Covered(kernel, cursor) /\ Present(kernel, cut, cursor)
      /\ ~resp.full => cursor <= resp.rev
  BY <1>1, Zenon DEF RestoreInv, OnAnswer, OnMirror, Applying
<1>4. ASSUME on.resp PROVE Covered(kernel', resp.rev) /\ Present(kernel', cut', resp.rev)
  <2>1. \/ resp.full
        \/ /\ cursor <= resp.rev /\ AtRev(cursor)
           /\ Covered(kernel, cursor) /\ Present(kernel, cut, cursor)
    BY <1>3, <1>4, Zenon
  <2> QED
    BY <1>2, <1>3, <1>4, <2>1, BatchRight, Zenon
<1>5. ASSUME on.mem PROVE Covered(kernel', cursor) /\ Present(kernel', cut', cursor)
  BY <1>2, <1>3, <1>4, <1>5, CarryBack, Zenon
<1>6. /\ AtRev(cursor) => AtRev(cursor)'
      /\ AtRev(disk) => AtRev(disk)'
      /\ AtRev(resp.rev) => AtRev(resp.rev)'
  BY <1>1, Zenon DEF AtRev, logVars
<1>7. /\ on.mem => (Covered(kernel, cursor) /\ Present(kernel, cut, cursor))'
      /\ on.resp => (Covered(kernel, resp.rev) /\ Present(kernel, cut, resp.rev))'
  BY <1>1, <1>4, <1>5, Zenon DEF Covered, Present, logVars
<1>8. OnMirror'
  BY <1>1, <1>3, <1>6, <1>7, Zenon DEF RestoreInv, OnMirror
<1>9. OnAnswer'
  BY <1>1, <1>3, <1>6, <1>7, Zenon DEF OnAnswer, Applying
<1> QED
  BY <1>8, <1>9, Zenon

\* A delta is listed only when it is not behind the cursor.
LEMMA OnList ==
  ASSUME RestoreInv, ApplyList, UNCHANGED on
  PROVE  OnAnswer'
<1>1. /\ pc = "answered" /\ pc' = "planned" /\ ~Regressed(resp)
      /\ UNCHANGED <<logVars, kernel, cursor, resp, on>>
  BY Zenon DEF ApplyList
<1>2. PlanOK'
  BY ListRight, Zenon
<1>3. /\ RespOK => RespOK'
      /\ AtRev(resp.rev) => AtRev(resp.rev)'
  BY <1>1, Zenon DEF RespOK, AtRev, logVars
<1>4. ~resp.full => cursor <= resp.rev
  BY <1>1, MaxRevAssumption DEF Regressed, RestoreInv, TypeOK, Revs
<1> QED
  BY <1>1, <1>2, <1>3, <1>4, Zenon DEF RestoreInv, OnAnswer, Applying

\* A restart takes the cursor back to that of runtime.json, and to its
\* timeline.
LEMMA OnRestart ==
  ASSUME RestoreInv, NEW persisted \in {disk, 0}, Restart(persisted),
         on' = [on EXCEPT !.mem = on.disk]
  PROVE  /\ on' \in [resp : BOOLEAN, mem : BOOLEAN, disk : BOOLEAN]
         /\ OnMirror' /\ pc' = "idle"
<1>1. /\ on' \in [resp : BOOLEAN, mem : BOOLEAN, disk : BOOLEAN]
      /\ on'.mem = on.disk /\ on'.disk = on.disk
  BY Zenon DEF RestoreInv
<1>2. on.disk => MirrorInv
  BY Zenon DEF RestoreInv, OnMirror, MirrorInv
<1>3. on.disk => MirrorInv'
  BY <1>2, RestartMirror, Zenon DEF RestoreInv
<1> QED
  BY <1>1, <1>3, Zenon DEF MirrorInv, OnMirror, Restart, ToIdle

\* A restore takes the log of the dump; nothing that runs is of its timeline.
LEMMA OnRestore ==
  ASSUME RestoreInv, Restore
  PROVE  RestoreInv'
<1>1. /\ authz_current' = backup.cur /\ authz_revisions' = backup.revs /\ rev' = backup.rev
      /\ setAt' = backup.setAt /\ touched' = backup.touched /\ backup' = backup
      /\ memo' = [rev |-> -1, set |-> {}]
      /\ on' = [resp |-> FALSE, mem |-> FALSE, disk |-> FALSE]
      /\ UNCHANGED <<kernel, cursor, disk, forceFull, resync, usageVars, hpc, hb, faults, cut>>
      /\ IF pc = "wait" THEN ToIdle ELSE UNCHANGED <<pc, req, resp, plan>>
  BY Zenon DEF Restore
<1>2. LogInv'
  <2>1. DumpInv(backup) /\ backup \in [cur : SUBSET Addr, revs : SUBSET Row, rev : Revs,
            setAt : [Revs -> SUBSET Addr], touched : [Addr -> Revs]]
    BY Zenon DEF RestoreInv, DumpInv
  <2>2. LogTypeOK'
    BY <1>1, <2>1, Zenon DEF LogTypeOK, Revs, Row
  <2> QED
    <3>1. NewestKept'
      BY <1>1, <2>1, Zenon DEF DumpInv, NewestKept
    <3>2. NewestDecides'
      BY <1>1, <2>1, Zenon DEF DumpInv, NewestDecides
    <3>3. /\ \A a \in Addr : touched'[a] <= rev'
          /\ \A r \in authz_revisions' : r.rev <= touched'[r.addr]
          /\ rev' = 0 \/ \E r \in authz_revisions' : r.rev = rev'
          /\ setAt'[rev'] = authz_current' /\ setAt'[0] = {}
      BY <1>1, <2>1, Zenon DEF DumpInv
    <3>4. \A c \in Revs : \A a \in setAt'[c] : touched'[a] > 0
      BY <1>1, <2>1, Zenon DEF DumpInv
    <3> QED
      BY <2>2, <3>1, <3>2, <3>3, <3>4, Zenon DEF LogInv, Revs
<1>3. /\ pc' \in {"idle", "answered", "planned", "persist", "grace"}
      /\ req' \in [rev : Revs, full : BOOLEAN]
      /\ resp' \in [full : BOOLEAN, rev : Revs, add : SUBSET Addr, del : SUBSET Addr]
      /\ plan' \in [add : SUBSET Addr, del : SUBSET Addr]
      /\ pc' = "idle" \/ UNCHANGED <<pc, req, resp, plan>>
  <2>1. CASE pc = "wait"
    <3>1. ToIdle
      BY <1>1, <2>1, Zenon
    <3>2. 0 \in Revs
      BY MaxRevAssumption DEF Revs
    <3> QED
      BY <3>1, <3>2, Zenon DEF ToIdle, NoReq, NoResp, NoPlan
  <2>2. CASE pc # "wait"
    BY <1>1, <2>2, Zenon DEF RestoreInv, TypeOK
  <2> QED
    BY <2>1, <2>2, Zenon
<1>4. TypeOK'
  <2>1. memo' \in [rev : Revs \cup {-1}, set : SUBSET Addr]
    BY <1>1, Zenon
  <2> QED
    BY <1>1, <1>2, <1>3, <2>1, Zenon DEF RestoreInv, TypeOK, LogInv, usageVars, Revs
<1>5. on' \in [resp : BOOLEAN, mem : BOOLEAN, disk : BOOLEAN] /\ OnMirror'
  BY <1>1, Zenon DEF OnMirror
<1>6. OnAnswer'
  BY <1>1, <1>3, Zenon DEF RestoreInv, OnAnswer, Applying
<1>7. DumpInv(backup)'
  BY <1>1, Zenon DEF RestoreInv, DumpInv, Revs, Row
<1> QED
  BY <1>2, <1>4, <1>5, <1>6, <1>7, Zenon DEF RestoreInv

\* Every step of the agent and of its backend keeps the invariant, on the
\* present timeline and off it.
LEMMA RestoreKept ==
  ASSUME RestoreInv, Kept, TypeOK', UNCHANGED backup
  PROVE  RestoreInv'
<1>u. on' = on /\ TypeOK
  BY Zenon DEF Kept, RestoreInv
<1>b. DumpInv(backup)' /\ (on \in [resp : BOOLEAN, mem : BOOLEAN, disk : BOOLEAN])'
  BY <1>u, Zenon DEF RestoreInv, DumpInv, Revs, Row
<1>l. (UNCHANGED logVars) => LogInv'
  BY Zenon DEF RestoreInv, LogInv, LogTypeOK, NewestKept, NewestDecides, logVars
<1>i. ToIdle => OnAnswer'
  BY Zenon DEF ToIdle, OnAnswer, Applying
<1>k. (UNCHANGED <<logVars, kernel, cursor, disk, cut>>) => OnMirror'
  BY <1>u, OnShrink, Zenon
<1>a. (UNCHANGED <<logVars, kernel, cursor, disk, cut, pc, req, resp, plan>>) => OnAnswer'
  BY <1>u, OnShrink, Zenon
<1> SUFFICES LogInv' /\ OnMirror' /\ OnAnswer'
  BY <1>b, Zenon DEF RestoreInv
<1>1. CASE Recompute \/ IngestRevokes \/ Compact
  <2>1. LogInv' /\ LogGrows
    BY <1>1, RecomputeLog, CompactLog, Zenon DEF Recompute, IngestRevokes, Compact, RestoreInv
  <2>2. UNCHANGED <<kernel, cursor, disk, pc, req, resp, plan, cut>>
    BY <1>1, Zenon DEF Recompute, IngestRevokes, Compact, syncVars
  <2> QED
    BY <1>u, <2>1, <2>2, OnGrow, Zenon
<1>2. CASE SyncRequest
  <2>1. pc' = "wait" /\ cursor' = cursor
    BY <1>2, Zenon DEF SyncRequest
  <2>2. PICK full \in BOOLEAN : req' = [rev |-> IF full THEN 0 ELSE cursor, full |-> full]
    BY <1>2, <1>u, Zenon DEF SyncRequest, TypeOK
  <2>3. req'.full \/ req'.rev = cursor
    BY <2>2, Zenon
  <2>4. OnAnswer'
    BY <2>1, <2>3, Zenon DEF OnAnswer, Applying
  <2> QED
    BY <1>2, <1>l, <1>k, <2>4, Zenon DEF SyncRequest
<1>3. CASE AnswerUnchanged \/ ApplyRefused \/ ApplyRejected \/ RequestFails \/ NftFails
  BY <1>3, <1>l, <1>k, <1>i, Zenon DEF AnswerUnchanged, ApplyRefused, ApplyRejected, RequestFails, NftFails
<1>4. CASE ApplyList
  BY <1>4, <1>u, <1>l, <1>k, OnList, Zenon DEF ApplyList
<1>5. CASE ApplyBatch
  <2>1. OnMirror' /\ OnAnswer'
    BY <1>5, <1>u, OnBatch, Zenon
  <2> QED
    BY <1>5, <1>l, <2>1, Zenon DEF ApplyBatch
<1>6. CASE GraceApply
  <2>1. OnMirror'
    BY <1>6, <1>u, OnShrink, Zenon DEF GraceApply
  <2> QED
    BY <1>6, <1>l, <1>i, <2>1, Zenon DEF GraceApply
<1>7. CASE RevokeApply
  <2>1. OnMirror' /\ OnAnswer'
    BY <1>7, <1>u, OnShrink, Zenon DEF RevokeApply, syncVars
  <2> QED
    BY <1>7, <1>l, <2>1, Zenon DEF RevokeApply
<1>8. CASE Flush
  <2>1. OnMirror' /\ OnAnswer'
    BY <1>8, <1>u, OnShrink, Zenon DEF Flush, syncVars
  <2> QED
    BY <1>8, <1>l, <2>1, Zenon DEF Flush
<1>9. CASE RevokeList \/ AckLost \/ HeartbeatStep \/ HeartbeatFails
  BY <1>9, <1>l, <1>k, <1>a, Zenon
     DEF RevokeList, AckLost, HeartbeatStep, HeartbeatRev, HeartbeatList, HeartbeatPost,
         HeartbeatFails, syncVars
<1>10. CASE GraceList
  <2>1. OnAnswer'
    BY <1>10, Zenon DEF GraceList, OnAnswer, Applying
  <2> QED
    BY <1>10, <1>l, <1>k, <2>1, Zenon DEF GraceList
<1> QED
  BY <1>1, <1>2, <1>3, <1>4, <1>5, <1>6, <1>7, <1>8, <1>9, <1>10 DEF Kept, UsageStep

\* Every step, a restore of the database included, keeps the invariant.
LEMMA RestoreSteps == RestoreInv /\ [RestoreNext]_rvars => RestoreInv'
<1> SUFFICES ASSUME RestoreInv, [RestoreNext]_rvars PROVE RestoreInv'
  BY Zenon
<1>b. (UNCHANGED backup) => DumpInv(backup)'
  BY Zenon DEF RestoreInv, DumpInv, Revs, Row
<1>l. (UNCHANGED logVars) => LogInv'
  BY Zenon DEF RestoreInv, LogInv, LogTypeOK, NewestKept, NewestDecides, logVars
<1>i. pc' = "idle" => OnAnswer'
  BY Zenon DEF OnAnswer, Applying
<1>1. CASE SyncOrFault
  <2>1. TypeOK'
    <3>1. Next
      BY <1>1, Zenon DEF SyncOrFault, Answer, Applied, AppliedInMemory, Saved, Restarted, Kept,
                  Next, SyncStep, FaultStep
    <3> QED
      BY <3>1, TypeNext, Zenon DEF RestoreInv
  <2>2. backup' = backup
    BY <1>1, Zenon DEF SyncOrFault
  <2>3. CASE Answer
    BY <2>1, <2>2, <2>3, <1>b, <1>l, OnAnswerBody, Zenon DEF Answer, AnswerBody, RestoreInv
  <2>4. CASE Applied
    <3>1. on' \in [resp : BOOLEAN, mem : BOOLEAN, disk : BOOLEAN] /\ OnMirror'
      BY <2>4, OnPersist, Zenon DEF Applied, Persist
    <3> QED
      BY <2>1, <2>2, <2>4, <1>b, <1>l, <1>i, <3>1, Zenon DEF Applied, Persist, ToIdle, RestoreInv
  <2>5. CASE AppliedInMemory
    <3>1. on' \in [resp : BOOLEAN, mem : BOOLEAN, disk : BOOLEAN] /\ OnMirror'
      BY <2>5, OnPersist, Zenon DEF AppliedInMemory, PersistFails
    <3> QED
      BY <2>1, <2>2, <2>5, <1>b, <1>l, <1>i, <3>1, Zenon DEF AppliedInMemory, PersistFails, ToIdle, RestoreInv
  <2>6. CASE Saved
    <3>1. /\ disk' = cursor /\ UNCHANGED <<logVars, kernel, cursor, cut, pc, req, resp, plan>>
          /\ on' = [on EXCEPT !.disk = on.mem]
      BY <2>6, Zenon DEF Saved, SaveRuntime, syncVars
    <3>2. /\ on' \in [resp : BOOLEAN, mem : BOOLEAN, disk : BOOLEAN]
          /\ on'.mem = on.mem /\ on'.disk = on.mem /\ on'.resp = on.resp
      BY <3>1, Zenon DEF RestoreInv
    <3>3. cursor <= cursor
      BY MaxRevAssumption DEF RestoreInv, TypeOK, Revs
    <3>4. OnMirror'
      BY <3>1, <3>2, <3>3, Zenon DEF RestoreInv, OnMirror, AtRev, Covered, Present, logVars
    <3>5. OnAnswer'
      <4>1. /\ RespOK => RespOK'
            /\ PlanOK => PlanOK'
            /\ AtRev(resp.rev) => AtRev(resp.rev)'
            /\ Covered(kernel, resp.rev) => Covered(kernel, resp.rev)'
            /\ Present(kernel, cut, resp.rev) => Present(kernel, cut, resp.rev)'
        BY <3>1, Zenon DEF RespOK, PlanOK, AtRev, Covered, Present, logVars
      <4> QED
        BY <3>1, <3>2, <4>1, Zenon DEF RestoreInv, OnAnswer, Applying
    <3> QED
      BY <2>1, <2>2, <1>b, <1>l, <3>1, <3>2, <3>4, <3>5, Zenon DEF RestoreInv
  <2>7. CASE Restarted
    <3>1. PICK persisted \in {disk, 0} : Restart(persisted)
      BY <2>7, Zenon DEF Restarted, Crash, CrashCorrupt
    <3>2. /\ on' \in [resp : BOOLEAN, mem : BOOLEAN, disk : BOOLEAN] /\ OnMirror' /\ pc' = "idle"
      BY <2>7, <3>1, OnRestart, Zenon DEF Restarted
    <3> QED
      BY <2>1, <2>2, <1>b, <1>l, <1>i, <3>1, <3>2, Zenon DEF Restart, RestoreInv
  <2>8. CASE Kept
    BY <2>1, <2>2, <2>8, RestoreKept, Zenon
  <2> QED
    BY <1>1, <2>3, <2>4, <2>5, <2>6, <2>7, <2>8, Zenon DEF SyncOrFault
<1>2. CASE ApplyRegressed
  <2>1. /\ UNCHANGED <<logVars, kernel, cursor, disk, resync, usageVars, hbVars, faults, cut, backup, on>>
        /\ forceFull' = TRUE /\ ToIdle
    BY <1>2, Zenon DEF ApplyRegressed
  <2>2. TypeOK'
    <3>1. /\ pc' = "idle"
          /\ req' \in [rev : Revs, full : BOOLEAN]
          /\ resp' \in [full : BOOLEAN, rev : Revs, add : SUBSET Addr, del : SUBSET Addr]
          /\ plan' \in [add : SUBSET Addr, del : SUBSET Addr]
      BY <2>1, MaxRevAssumption DEF ToIdle, NoReq, NoResp, NoPlan, Revs
    <3>2. LogTypeOK'
      BY <2>1, Zenon DEF RestoreInv, LogInv, LogTypeOK, logVars
    <3> QED
      BY <2>1, <3>1, <3>2, Zenon DEF RestoreInv, TypeOK, usageVars, hbVars
  <2>3. OnMirror'
    BY <2>1, OnShrink, Zenon
  <2> QED
    BY <2>1, <2>2, <2>3, <1>b, <1>l, <1>i, Zenon DEF ToIdle, RestoreInv
\* Steps that leave AuthzSync alone.
<1>3. ASSUME UNCHANGED <<vars, on>>, DumpInv(backup)' PROVE RestoreInv'
  <2>1. TypeOK'
    BY <1>3, TypeNext, Zenon DEF RestoreInv
  <2>2. LogInv'
    BY <1>3, <1>l, Zenon DEF vars
  <2>3. OnMirror' /\ OnAnswer'
    BY <1>3, OnShrink, Zenon DEF vars, syncVars
  <2> QED
    BY <1>3, <2>1, <2>2, <2>3, Zenon DEF RestoreInv
<1>4. CASE Backup
  <2>1. backup' = dump /\ UNCHANGED <<vars, on>>
    BY <1>4, Zenon DEF Backup
  <2>2. DumpInv(dump)
    BY DumpIs, Zenon DEF RestoreInv
  <2>3. DumpInv(backup)'
    BY <2>1, <2>2, Zenon DEF DumpInv, Revs, Row
  <2> QED
    BY <1>3, <2>1, <2>3, Zenon
<1>5. CASE Restore
  BY <1>5, OnRestore, Zenon
<1>6. CASE UNCHANGED rvars
  BY <1>3, <1>6, <1>b, Zenon DEF rvars
<1> QED
  BY <1>1, <1>2, <1>4, <1>5, <1>6, Zenon DEF RestoreNext

\* The invariant holds in every reachable state of the system with restores.
LEMMA RestoreInvariance == RestoreSpec => []RestoreInv
BY RestoreInitially, RestoreSteps, PTL DEF RestoreSpec

\* Whatever runSync holds of the old timeline when the database is restored,
\* an answer, a batch, a cursor or a usage ack, the first full set it applies
\* afterwards makes the kernel set mirror the restored log.
THEOREM RestoredIsMirrored == RestoreSpec => []MirrorsRestored
<1>1. RestoreInv => MirrorsRestored
  BY Zenon DEF RestoreInv, OnMirror, Covered, Present, MirrorsRestored, StrayCovered, MissingExplained
<1> QED  BY <1>1, RestoreInvariance, PTL

\* The cursor never goes back with a delta: one that is behind it is refused
\* before it is listed, and the cursor stands still until the batch is
\* persisted.
THEOREM RegressionOnlyByFull == RestoreSpec => CursorBackOnlyByFull
<1>1. RestoreInv /\ [RestoreNext]_rvars =>
        [cursor' < cursor => resp.full \/ (cursor' \in {disk, 0} /\ forceFull')]_rvars
  <2> SUFFICES ASSUME RestoreInv, RestoreNext, cursor' < cursor
               PROVE  resp.full \/ (cursor' \in {disk, 0} /\ forceFull')
    BY Zenon
  <2>1. cursor \in Nat /\ resp.rev \in Nat /\ cursor' # cursor
    BY MaxRevAssumption DEF RestoreInv, TypeOK, Revs
  <2>2. CASE Persist \/ PersistFails
    <3>1. pc = "persist" /\ cursor' = resp.rev
      BY <2>2, Zenon DEF Persist, PersistFails
    <3>2. ~resp.full => cursor <= resp.rev
      BY <3>1, Zenon DEF RestoreInv, OnAnswer
    <3> QED
      BY <2>1, <3>1, <3>2
  <2>3. CASE Crash \/ CrashCorrupt
    BY <2>3, Zenon DEF Crash, CrashCorrupt, Restart
  <2>4. ASSUME ~(Persist \/ PersistFails), ~(Crash \/ CrashCorrupt)
        PROVE  cursor' = cursor
    <3>1. CASE ApplyRegressed \/ Backup \/ Restore
      BY <3>1, Zenon DEF ApplyRegressed, Backup, Restore, vars
    <3>2. CASE Answer \/ Saved
      BY <3>2, Zenon DEF Answer, AnswerBody, Saved, SaveRuntime
    <3>3. CASE Kept
      BY <3>3, Zenon DEF Kept, Recompute, IngestRevokes, Compact, SyncRequest, AnswerUnchanged, ApplyList,
                  ApplyRefused, ApplyBatch, ApplyRejected, GraceApply, UsageStep, RevokeList,
                  RevokeApply, HeartbeatStep, HeartbeatRev, HeartbeatList, HeartbeatPost,
                  RequestFails, GraceList, NftFails, AckLost, HeartbeatFails, Flush
    <3> QED
      BY <2>4, <3>1, <3>2, <3>3, Zenon
         DEF RestoreNext, SyncOrFault, Applied, AppliedInMemory, Restarted
  <2> QED
    BY <2>1, <2>2, <2>3, <2>4, Zenon
<1> QED  BY <1>1, RestoreInvariance, PTL DEF RestoreSpec, CursorBackOnlyByFull
=============================================================================
