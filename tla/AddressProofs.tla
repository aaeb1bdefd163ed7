--------------------------- MODULE AddressProofs ----------------------------
(***************************************************************************)
(* What an address has: the account it belongs to (Whitelist), for any     *)
(* number of hosts and of requests in flight, and its WireGuard devices    *)
(* and their mirror on the interface (WgPeers), for any sets of addresses, *)
(* keys and requests and any pool.                                         *)
(*                                                                         *)
(* Three invariants of Whitelist lean on one another.  OneAccount is the   *)
(* unique index.  NeverStranded needs that only a request in the middle of *)
(* parking or disabling has uncommitted writes (Clean).  AttachedByConsent *)
(* needs NeverStranded: a host that was left can be enabled again only     *)
(* while nothing else is active, and the address that left it has an       *)
(* account of its own by then (LeftForOwn).                                *)
(*                                                                         *)
(* The request side of WgPeers needs to know what a transaction holds      *)
(* before it commits: the lock of its address (Exclusive), room under the  *)
(* cap (Room), and a slot and a key that nobody else has (Reserved).  The  *)
(* agent's side needs that no answer routes an address to two keys:        *)
(* otherwise giving it to one takes it from the other.                     *)
(***************************************************************************)
EXTENDS Whitelist, WgPeers, FiniteSetTheorems, TLAPS

-----------------------------------------------------------------------------
(* The account of an address                                               *)

Clean == \A t \in Tx : pc[t] \in {"idle", "enable", "create", "park", "disable"} => written[t] = {}

LeftForOwn ==
  \A h \in Host : row[h].exists /\ ~row[h].pending => h \in consent \/ (row[Own].exists /\ ~missed)

RowsInv == RowsTypeOK /\ Clean /\ LeftForOwn /\ OneAccount /\ AttachedByConsent /\ NeverStranded

-----------------------------------------------------------------------------
(* Rows                                                                    *)

\* The fields of a whitelist row, and what disabling it changes.
LEMMA RowFacts ==
  ASSUME NEW r \in Rows
  PROVE  /\ r.exists \in BOOLEAN /\ r.enabled \in BOOLEAN /\ r.pending \in BOOLEAN
         /\ [r EXCEPT !.enabled = FALSE] \in Rows
         /\ [r EXCEPT !.enabled = FALSE].exists = r.exists
         /\ [r EXCEPT !.enabled = FALSE].pending = r.pending
         /\ ~Active([r EXCEPT !.enabled = FALSE])
         /\ Active(r) => r.exists
<1>1. CASE r = NoRow
  <2>0. NoRow \in [exists : BOOLEAN, enabled : BOOLEAN, pending : BOOLEAN]
    BY Zenon DEF NoRow
  <2>2. NoRow.exists = FALSE /\ NoRow.enabled = FALSE /\ NoRow.pending = FALSE
    BY Zenon DEF NoRow
  <2>1. [NoRow EXCEPT !.enabled = FALSE] = NoRow
    BY <2>0, <2>2, Zenon
  <2>3. NoRow \in Rows /\ ~Active(NoRow)
    BY <2>2, Zenon DEF Rows, Active
  <2> QED
    BY <1>1, <2>1, <2>2, <2>3, Zenon
<1>2. CASE r \in [exists : {TRUE}, enabled : BOOLEAN, pending : BOOLEAN]
  <2> DEFINE off == [r EXCEPT !.enabled = FALSE]
  <2>1. off \in [exists : {TRUE}, enabled : BOOLEAN, pending : BOOLEAN]
    BY <1>2, Zenon
  <2>2. off.exists = r.exists /\ off.pending = r.pending /\ off.enabled = FALSE
    BY <1>2, Zenon
  <2>3. r.exists = TRUE /\ r.enabled \in BOOLEAN /\ r.pending \in BOOLEAN
    BY <1>2, Zenon
  <2> HIDE DEF off
  <2>4. off \in Rows /\ ~Active(off)
    BY <2>1, <2>2, Zenon DEF Rows, Active
  <2> QED
    BY <2>2, <2>3, <2>4, Zenon DEF off
<1> QED
  BY <1>1, <1>2, Zenon DEF Rows

\* The fields of a new row.
LEMMA NewRow ==
  ASSUME NEW e \in BOOLEAN, NEW p \in BOOLEAN
  PROVE  /\ Row(e, p) \in Rows /\ Row(e, p).exists /\ Row(e, p).enabled = e /\ Row(e, p).pending = p
         /\ Active(Row(e, p)) <=> e /\ ~p
BY Zenon DEF Rows, Row, Active

\* The absent row is neither pending nor active.
LEMMA NoRowFacts == NoRow \in Rows /\ ~NoRow.exists /\ ~NoRow.pending /\ ~Active(NoRow)
BY Zenon DEF Rows, NoRow, Active

\* What a transaction sees is what was committed, less what it disabled.
LEMMA SeenFacts ==
  ASSUME RowsTypeOK, NEW t \in Tx
  PROVE  /\ Seen(t) \in [Account -> Rows]
         /\ \A a \in Account : /\ Seen(t)[a].exists = row[a].exists
                               /\ Seen(t)[a].pending = row[a].pending
                               /\ Active(Seen(t)[a]) <=> Active(row[a]) /\ a \notin written[t]
         /\ ActiveIn(Seen(t)) \subseteq ActiveIn(row)
         /\ written[t] = {} => Seen(t) = row
<1>1. \A a \in Account : row[a] \in Rows
  BY Zenon DEF RowsTypeOK
<1>2. \A a \in Account : Seen(t)[a] = IF a \in written[t] THEN [row[a] EXCEPT !.enabled = FALSE] ELSE row[a]
  BY Zenon DEF Seen
<1>3. \A a \in Account : /\ Seen(t)[a] \in Rows
                         /\ Seen(t)[a].exists = row[a].exists
                         /\ Seen(t)[a].pending = row[a].pending
                         /\ Active(Seen(t)[a]) <=> Active(row[a]) /\ a \notin written[t]
  <2> TAKE a \in Account
  <2>1. CASE a \in written[t]
    <3>1. Seen(t)[a] = [row[a] EXCEPT !.enabled = FALSE] /\ row[a] \in Rows
      BY <1>1, <1>2, <2>1, Zenon
    <3> QED
      BY <2>1, <3>1, RowFacts, Zenon
  <2>2. CASE a \notin written[t]
    <3>1. Seen(t)[a] = row[a] /\ row[a] \in Rows
      BY <1>1, <1>2, <2>2, Zenon
    <3> QED
      BY <2>2, <3>1, Zenon
  <2> QED
    BY <2>1, <2>2, Zenon
<1>4. Seen(t) \in [Account -> Rows]
  BY <1>3, Zenon DEF Seen
<1>5. written[t] = {} => Seen(t) = row
  BY Zenon DEF Seen, RowsTypeOK
<1> QED
  BY <1>3, <1>4, <1>5, Zenon DEF ActiveIn

-----------------------------------------------------------------------------
(* Steps that commit nothing                                               *)

\* EndTx leaves the transactions typed and clean.
LEMMA EndTxKeeps ==
  ASSUME RowsTypeOK, Clean, NEW t \in Tx, EndTx(t), row' \in [Account -> Rows],
         consent' \subseteq Host, missed' \in BOOLEAN
  PROVE  RowsTypeOK' /\ Clean'
BY Zenon DEF RowsTypeOK, Clean, EndTx, Account

\* The rows are as they were.
LEMMA SameRows ==
  ASSUME RowsInv, UNCHANGED <<row, history>>, RowsTypeOK', Clean'
  PROVE  RowsInv'
BY Zenon DEF RowsInv, LeftForOwn, OneAccount, AttachedByConsent, NeverStranded, ActiveIn, Active, history

-----------------------------------------------------------------------------
(* Commits                                                                 *)

\* Row a is committed as r, which is not active, and the address has another
\* active row, as before.
LEMMA CommitInactive ==
  ASSUME RowsInv, NEW t \in Tx, NEW a \in Account, NEW r \in Rows, Commit(t, a, r),
         ~Active(r), ~Active(row[a]), written[t] = {}, UNCHANGED history,
         a = Own => row[Own].exists, a = Own => r.exists,
         a \in Host /\ r.exists /\ ~r.pending => row[a].exists /\ ~row[a].pending
  PROVE  RowsInv'
<1>1. row' = [row EXCEPT ![a] = r] /\ row \in [Account -> Rows] /\ row' \in [Account -> Rows]
  BY SeenFacts, Zenon DEF RowsInv, RowsTypeOK, Commit
<1>2. RowsTypeOK' /\ Clean'
  BY <1>1, EndTxKeeps, Zenon DEF RowsInv, RowsTypeOK, Commit, history
<1>3. ActiveIn(row') = ActiveIn(row)
  BY <1>1, Zenon DEF ActiveIn
<1>4. row'[Own].exists = row[Own].exists
  BY <1>1, Zenon DEF RowsInv, Account, RowsTypeOK, Rows, NoRow
<1>5. LeftForOwn'
  BY <1>1, <1>4, Zenon DEF RowsInv, LeftForOwn, history, Account
<1> QED
  BY <1>2, <1>3, <1>4, <1>5, Zenon DEF RowsInv, OneAccount, AttachedByConsent, NeverStranded, history

\* Row a is committed as an active row: the index has let it.  A host's row
\* must be one agreed to; the address's own may end all agreements.
LEMMA CommitsActive ==
  ASSUME RowsInv, NEW t \in Tx, NEW a \in Account, Commit(t, a, Row(TRUE, FALSE)), Unique(t, a),
         consent' \subseteq Host, missed' \in BOOLEAN,
         a \in Host => a \in consent', 
         \/ consent \subseteq consent' /\ (~missed' \/ missed' = missed)
         \/ a = Own /\ missed' = FALSE
  PROVE  RowsInv'
<1> DEFINE r == Row(TRUE, FALSE)
<1>1. r \in Rows /\ r.exists /\ Active(r) /\ ~r.pending
  BY NewRow, Zenon
<1>2. /\ row' = [Seen(t) EXCEPT ![a] = r] /\ Seen(t) \in [Account -> Rows] /\ row \in [Account -> Rows]
      /\ EndTx(t)
  BY SeenFacts, Zenon DEF RowsInv, RowsTypeOK, Commit
<1> HIDE DEF r
<1>3. row' \in [Account -> Rows] /\ row'[a] = r /\ \A b \in Account \ {a} : row'[b] = Seen(t)[b]
  BY <1>1, <1>2, Zenon
<1>4. RowsTypeOK' /\ Clean'
  BY <1>2, <1>3, EndTxKeeps, Zenon DEF RowsInv
<1>5. ActiveIn(row') = {a}
  BY <1>1, <1>3, Zenon DEF ActiveIn, Unique
<1>6. OneAccount' /\ AttachedByConsent' /\ NeverStranded'
  BY <1>5, Zenon DEF OneAccount, AttachedByConsent, NeverStranded
<1>7. Own \in Account /\ (row[Own].exists => row'[Own].exists)
  BY <1>1, <1>3, SeenFacts, Zenon DEF RowsInv, Account
<1>8. LeftForOwn'
  <2> SUFFICES ASSUME NEW h \in Host, row'[h].exists, ~row'[h].pending
               PROVE  h \in consent' \/ (row'[Own].exists /\ ~missed')
    BY Zenon DEF LeftForOwn
  <2>1. CASE h = a
    BY <2>1, Zenon
  <2>2. CASE a = Own /\ missed' = FALSE
    BY <1>1, <1>3, <2>2, Zenon
  <2>3. CASE h # a /\ consent \subseteq consent' /\ (~missed' \/ missed' = missed)
    <3>1. row[h].exists /\ ~row[h].pending
      BY <1>3, <2>3, SeenFacts DEF RowsInv, Account
    <3> QED
      BY <1>7, <2>3, <3>1, Zenon DEF RowsInv, LeftForOwn
  <2> QED
    BY <2>1, <2>2, <2>3, Zenon
<1> QED
  BY <1>4, <1>6, <1>8, Zenon DEF RowsInv

\* A request that was refused by the index has changed nothing.
LEMMA TxRefused ==
  ASSUME RowsInv, NEW t \in Tx, EndTx(t), UNCHANGED <<row, history>>
  PROVE  RowsInv'
<1>1. RowsTypeOK' /\ Clean'
  BY EndTxKeeps, Zenon DEF RowsInv, RowsTypeOK, history
<1> QED
  BY <1>1, SameRows, Zenon

\* The writes are committed as they are.
LEMMA CommitSeen ==
  ASSUME RowsInv, NEW t \in Tx, row' = Seen(t), EndTx(t), UNCHANGED history,
         row[Own].exists => ActiveIn(Seen(t)) # {}
  PROVE  RowsInv'
<1>1. /\ Seen(t) \in [Account -> Rows]
      /\ \A a \in Account : Seen(t)[a].exists = row[a].exists /\ Seen(t)[a].pending = row[a].pending
      /\ ActiveIn(row') \subseteq ActiveIn(row)
  BY SeenFacts, Zenon DEF RowsInv
<1>2. RowsTypeOK' /\ Clean'
  BY <1>1, EndTxKeeps, Zenon DEF RowsInv, RowsTypeOK, history
<1>3. Own \in Account /\ Host \subseteq Account
  BY Zenon DEF Account
<1>4. LeftForOwn'
  BY <1>1, <1>3, Zenon DEF RowsInv, LeftForOwn, history
<1>5. OneAccount' /\ AttachedByConsent' /\ NeverStranded'
  BY <1>1, <1>3, Zenon DEF RowsInv, OneAccount, AttachedByConsent, NeverStranded, history
<1> QED
  BY <1>2, <1>4, <1>5, Zenon DEF RowsInv

\* CommitActive, when the history does not change: the row was active, or it
\* is the address's own.
LEMMA CommitActiveKeeps ==
  ASSUME RowsInv, NEW t \in Tx, NEW a \in Account, CommitActive(t, a, Row(TRUE, FALSE)),
         UNCHANGED history, a \in Host /\ Unique(t, a) => a \in consent
  PROVE  RowsInv'
<1>1. CASE Unique(t, a)
  <2>1. Commit(t, a, Row(TRUE, FALSE))
    BY <1>1, Zenon DEF CommitActive
  <2>2. consent' \subseteq Host /\ missed' \in BOOLEAN /\ consent' = consent /\ missed' = missed
    BY Zenon DEF RowsInv, RowsTypeOK, history
  <2> QED
    BY <1>1, <2>1, <2>2, CommitsActive, Zenon
<1>2. CASE ~Unique(t, a)
  BY <1>2, TxRefused, Zenon DEF CommitActive
<1> QED
  BY <1>1, <1>2, Zenon

-----------------------------------------------------------------------------
(* The operations                                                          *)

\* Inviting a guest keeps the invariant of the rows.
LEMMA InviteKeeps ==
  ASSUME RowsInv, NEW t \in Tx, NEW h \in Host, InviteGuest(t, h)
  PROVE  RowsInv'
<1>1. /\ h \in Account /\ h # Own /\ written[t] = {} /\ row[h] \in Rows
      /\ UNCHANGED history /\ Commit(t, h, Row(TRUE, ~Active(row[h])))
  BY WhitelistAssumption, Zenon DEF RowsInv, Clean, RowsTypeOK, InviteGuest, Account
<1>2. CASE Active(row[h])
  <2>1. Row(TRUE, ~Active(row[h])) = Row(TRUE, FALSE)
    BY <1>2, Zenon DEF Row
  <2>2. Commit(t, h, Row(TRUE, FALSE)) /\ h \in consent
    BY <1>1, <1>2, <2>1, Zenon DEF RowsInv, AttachedByConsent, ActiveIn
  <2>3. Unique(t, h)
    BY <1>1, <1>2, SeenFacts, Zenon DEF RowsInv, OneAccount, Unique, ActiveIn
  <2>4. consent' = consent /\ missed' = missed /\ consent' \subseteq Host /\ missed' \in BOOLEAN
    BY <1>1, Zenon DEF history, RowsInv, RowsTypeOK
  <2> QED
    BY <1>1, <2>2, <2>3, <2>4, CommitsActive, Zenon
<1>3. CASE ~Active(row[h])
  <2>1. Row(TRUE, ~Active(row[h])) = Row(TRUE, TRUE)
    BY <1>3, Zenon DEF Row
  <2>2. Row(TRUE, TRUE) \in Rows /\ Row(TRUE, TRUE).pending /\ ~Active(Row(TRUE, TRUE))
    BY NewRow, Zenon
  <2> QED
    BY <1>1, <1>3, <2>1, <2>2, CommitInactive, Zenon
<1> QED
  BY <1>2, <1>3, Zenon

\* Withdrawing an invitation keeps the invariant of the rows.
LEMMA DeletePendingKeeps ==
  ASSUME RowsInv, NEW t \in Tx, NEW h \in Host, DeletePending(t, h)
  PROVE  RowsInv'
<1>1. h \in Account /\ h # Own /\ written[t] = {} /\ ~Active(row[h]) /\ UNCHANGED history
      /\ Commit(t, h, NoRow)
  BY WhitelistAssumption, Zenon DEF RowsInv, Clean, DeletePending, Account, Active
<1> QED
  BY <1>1, NoRowFacts, CommitInactive, Zenon

\* Adding an address keeps the invariant of the rows.
LEMMA AddKeeps ==
  ASSUME RowsInv, NEW t \in Tx, NEW h \in Host, AddWhitelist(t, h)
  PROVE  RowsInv'
<1>1. /\ h \in Account /\ CommitActive(t, h, Row(TRUE, FALSE)) /\ missed' = missed
      /\ consent' = IF Active(row'[h]) THEN consent \cup {h} ELSE consent
  BY Zenon DEF AddWhitelist, Account
<1>2. consent' \subseteq Host /\ missed' \in BOOLEAN /\ consent \subseteq consent'
  BY <1>1, Zenon DEF RowsInv, RowsTypeOK
<1>3. CASE Unique(t, h)
  <2>1. Commit(t, h, Row(TRUE, FALSE))
    BY <1>1, <1>3, Zenon DEF CommitActive
  <2>2. row'[h] = Row(TRUE, FALSE)
    BY <1>1, <2>1, SeenFacts, Zenon DEF Commit, RowsInv
  <2>3. h \in consent'
    BY <1>1, <2>2, NewRow, Zenon
  <2> QED
    BY <1>1, <1>2, <1>3, <2>1, <2>3, CommitsActive, Zenon
<1>4. CASE ~Unique(t, h)
  <2>1. EndTx(t) /\ UNCHANGED row
    BY <1>1, <1>4, Zenon DEF CommitActive
  <2>2. consent' = consent
    BY <1>1, <2>1, Zenon DEF RowsInv, AttachedByConsent, ActiveIn
  <2> QED
    BY <1>1, <2>1, <2>2, TxRefused, Zenon DEF history
<1> QED
  BY <1>3, <1>4, Zenon

\* Accepting an invitation keeps the invariant of the rows.
LEMMA ActivatesKeeps ==
  ASSUME RowsInv, NEW t \in Tx, Activates(t)
  PROVE  RowsInv'
<1>1. at[t] \in Account /\ CommitActive(t, at[t], Row(TRUE, FALSE))
  BY Zenon DEF Activates, RowsInv, RowsTypeOK
<1>2. CASE Unique(t, at[t])
  <2>1. Commit(t, at[t], Row(TRUE, FALSE))
    BY <1>1, <1>2, Zenon DEF CommitActive
  <2>2. row'[at[t]] = Row(TRUE, FALSE) /\ Active(Row(TRUE, FALSE))
    BY <1>1, <2>1, SeenFacts, NewRow, Zenon DEF Commit, RowsInv
  <2>3. (consent' = IF at[t] = Own THEN {} ELSE consent \cup {at[t]}) /\ missed' = FALSE
    BY <2>2, Zenon DEF Activates
  <2>4. consent' \subseteq Host /\ (at[t] \in Host => at[t] \in consent')
    BY <1>1, <2>3, WhitelistAssumption, Zenon DEF RowsInv, RowsTypeOK, Account
  <2>5. at[t] = Own \/ consent \subseteq consent'
    BY <2>3, Zenon
  <2> QED
    BY <1>1, <1>2, <2>1, <2>3, <2>4, <2>5, CommitsActive, Zenon
<1>3. CASE ~Unique(t, at[t])
  <2>1. EndTx(t) /\ row' = row
    BY <1>1, <1>3, Zenon DEF CommitActive
  <2>2. CASE ~Active(row[at[t]])
    BY <2>1, <2>2, TxRefused, Zenon DEF Activates
  <2>3. CASE Active(row[at[t]])
    <3>1. Unique(t, at[t])
      BY <1>1, <2>3, SeenFacts, Zenon DEF RowsInv, OneAccount, Unique, ActiveIn
    <3> QED
      BY <1>3, <3>1, Zenon
  <2> QED
    BY <2>2, <2>3, Zenon
<1> QED
  BY <1>2, <1>3, Zenon

\* Enabling a row keeps the invariant of the rows.
LEMMA EnablesKeeps ==
  ASSUME RowsInv, NEW t \in Tx, Enables(t)
  PROVE  RowsInv'
<1> DEFINE a == at[t]
           p == IF a # Own /\ ~row[a].enabled /\ saw[t] # {} THEN TRUE ELSE row[a].pending
<1>1. a \in Account /\ row[a] \in Rows /\ written[t] = {} /\ UNCHANGED history
  BY Zenon DEF Enables, RowsInv, RowsTypeOK, Clean
<1>2. p \in BOOLEAN
  BY <1>1, RowFacts, Zenon
<1>3. EnabledRow(a, saw[t] # {}) = Row(TRUE, p)
  BY Zenon DEF EnabledRow
<1>4. CASE ~row[a].exists
  BY <1>1, <1>4, TxRefused, Zenon DEF Enables
<1>5. CASE row[a].exists /\ ~p
  <2>1. Row(TRUE, p) = Row(TRUE, FALSE) /\ Active(Row(TRUE, FALSE))
    BY <1>2, <1>5, NewRow, Zenon DEF Row
  <2>2. CommitActive(t, a, Row(TRUE, FALSE))
    BY <1>3, <1>5, <2>1, Zenon DEF Enables
  <2>3. ~row[a].pending
    BY <1>5, Zenon
  <2>4. ASSUME a \in Host, Unique(t, a) PROVE a \in consent
    <3>1. CASE row[Own].exists /\ ~missed
      <4>1. ActiveIn(row) # {} /\ ActiveIn(row) \subseteq {a}
        BY <1>1, <2>4, <3>1, SeenFacts, Zenon DEF RowsInv, NeverStranded, Unique
      <4> QED
        BY <2>4, <4>1, Zenon DEF RowsInv, AttachedByConsent
    <3> QED
      BY <1>5, <2>3, <2>4, <3>1, Zenon DEF RowsInv, LeftForOwn
  <2> HIDE DEF a, p
  <2> QED
    BY <1>1, <2>2, <2>4, CommitActiveKeeps, Zenon
<1>6. CASE row[a].exists /\ p
  <2>1. Row(TRUE, p) \in Rows /\ Row(TRUE, p).exists /\ Row(TRUE, p).pending /\ ~Active(Row(TRUE, p))
    BY <1>2, <1>6, NewRow, Zenon
  <2>2. Commit(t, a, Row(TRUE, p))
    BY <1>3, <1>6, <2>1, Zenon DEF Enables
  <2>3. ~Active(row[a])
    BY <1>6, Zenon DEF Active
  <2> HIDE DEF p
  <2> QED
    BY <1>1, <1>6, <2>1, <2>2, <2>3, CommitInactive, Zenon
<1> QED
  BY <1>4, <1>5, <1>6, Zenon

\* Creating the account of a guest keeps the invariant of the rows.
LEMMA CreatesKeeps ==
  ASSUME RowsInv, NEW t \in Tx, Creates(t)
  PROVE  RowsInv'
<1>1. Own \in Account /\ Own \notin Host /\ written[t] = {} /\ consent' = consent
  BY WhitelistAssumption, Zenon DEF Creates, RowsInv, Clean, Account
<1>2. CASE row[Own].exists
  BY <1>1, <1>2, TxRefused, Zenon DEF Creates, history
<1>3. CASE ~row[Own].exists /\ saw[t] = {}
  BY <1>1, <1>3, CommitActiveKeeps, Zenon DEF Creates, history
<1>4. CASE ~row[Own].exists /\ saw[t] # {}
  <2> DEFINE r == Row(FALSE, FALSE)
  <2>1. r \in Rows /\ r.exists /\ ~Active(r)
    BY NewRow, Zenon
  <2>2. Commit(t, Own, r) /\ missed' = (ActiveIn(row) = {})
    BY <1>4, Zenon DEF Creates
  <2> HIDE DEF r
  <2>3. row' = [row EXCEPT ![Own] = r] /\ row \in [Account -> Rows] /\ row' \in [Account -> Rows]
    BY <1>1, <2>1, <2>2, SeenFacts, Zenon DEF Commit, RowsInv, RowsTypeOK
  <2>4. RowsTypeOK' /\ Clean'
    BY <1>1, <2>2, <2>3, EndTxKeeps, Zenon DEF RowsInv, RowsTypeOK, Commit
  <2>5. ~Active(row[Own])
    BY <1>1, <1>4, <2>3, RowFacts, Zenon
  <2>6. ActiveIn(row') = ActiveIn(row)
    BY <1>1, <2>1, <2>3, <2>5, Zenon DEF ActiveIn
  <2>7. NeverStranded'
    BY <2>2, <2>6, Zenon DEF NeverStranded
  <2>8. LeftForOwn'
    BY <1>1, <1>4, <2>3, Zenon DEF RowsInv, LeftForOwn, Account
  <2> QED
    BY <1>1, <2>4, <2>6, <2>7, <2>8, Zenon DEF RowsInv, OneAccount, AttachedByConsent
<1> QED
  BY <1>2, <1>3, <1>4, Zenon

\* Finding an address without owner, and giving it one, keeps the invariant
\* of the rows.
LEMMA OrphanKeeps ==
  ASSUME RowsInv, NEW t \in Tx, IfOrphan(t) \/ Reowns(t)
  PROVE  RowsInv'
<1>1. CASE IfOrphan(t) /\ ActiveIn(Seen(t)) # {}
  BY <1>1, CommitSeen, Zenon DEF IfOrphan
<1>2. CASE IfOrphan(t) /\ ActiveIn(Seen(t)) = {}
  <2>1. RowsTypeOK' /\ Clean' /\ UNCHANGED <<row, history>>
    BY <1>2, Zenon DEF IfOrphan, Goto, RowsInv, RowsTypeOK, Clean, history
  <2> QED
    BY <2>1, SameRows, Zenon
<1>3. CASE Reowns(t) /\ row[Own].exists
  <2>1. Own \in Account /\ Own \notin Host
    BY WhitelistAssumption, Zenon DEF Account
  <2> QED
    BY <1>3, <2>1, CommitActiveKeeps, Zenon DEF Reowns
<1>4. CASE Reowns(t) /\ ~row[Own].exists
  BY <1>4, CommitSeen, Zenon DEF Reowns
<1> QED
  BY <1>1, <1>2, <1>3, <1>4, Zenon

\* Statements that only read or lock, writes not yet committed, rollbacks.
LEMMA QuietKeeps ==
  ASSUME RowsInv, NEW t \in Tx,
         \/ \E h \in Host : AcceptInvite(t, h)
         \/ ActivateOwner(t) \/ ParkSees(t) \/ Parks(t) \/ Disables(t) \/ Abort(t)
         \/ \E a \in Account : DisableStarts(t, a) \/ Sees(t, a, "enable")
         \/ Sees(t, Own, "create")
  PROVE  RowsInv'
<1> USE DEF RowsInv
<1>0. Own \in Account /\ Host \subseteq Account
  BY Zenon DEF Account
<1>1. ASSUME NEW h \in Host, AcceptInvite(t, h) PROVE RowsInv'
  BY <1>0, <1>1, SameRows, Zenon DEF AcceptInvite, Goto, RowsTypeOK, Clean, history
<1>2. CASE ActivateOwner(t)
  BY <1>0, <1>2, SameRows, Zenon DEF ActivateOwner, Goto, RowsTypeOK, Clean, history
<1>3. CASE ParkSees(t)
  <2>1. ActiveIn(row) \ {at[t]} \subseteq Account
    BY Zenon DEF ActiveIn
  <2> QED
    BY <1>3, <2>1, SameRows, Zenon DEF ParkSees, Goto, RowsTypeOK, Clean, history
<1>4. CASE Parks(t)
  BY <1>4, SameRows, Zenon DEF Parks, Goto, RowsTypeOK, Clean, history, ActiveIn
<1>5. CASE Disables(t) /\ row[at[t]].exists
  BY <1>5, SameRows DEF Disables, Goto, RowsTypeOK, Clean, history
<1>6. CASE Disables(t) /\ ~row[at[t]].exists
  BY <1>6, TxRefused, Zenon DEF Disables
<1>7. CASE Abort(t)
  BY <1>7, TxRefused, Zenon DEF Abort
<1>8. ASSUME NEW a \in Account, DisableStarts(t, a) PROVE RowsInv'
  BY <1>8, SameRows, Zenon DEF DisableStarts, Goto, RowsTypeOK, Clean, history
<1>9. ASSUME NEW a \in Account, NEW label \in {"enable", "create"}, Sees(t, a, label) PROVE RowsInv'
  <2>1. ActiveIn(row) \ {a} \subseteq Account
    BY Zenon DEF ActiveIn
  <2> QED
    BY <1>9, <2>1, SameRows, Zenon DEF Sees, Goto, RowsTypeOK, Clean, history
<1> QED
  BY <1>0, <1>1, <1>2, <1>3, <1>4, <1>5, <1>6, <1>7, <1>8, <1>9, Zenon

\* The invariant of the rows holds initially.
LEMMA RowsInitially == WhitelistInit => RowsInv
<1> SUFFICES ASSUME WhitelistInit PROVE RowsInv
  BY Zenon
<1>1. Own \in Account /\ Host \subseteq Account
  BY Zenon DEF Account
<1>2. \A a \in Account : row[a] = NoRow
  BY Zenon DEF WhitelistInit
<1>3. ActiveIn(row) = {}
  BY <1>2, NoRowFacts, Zenon DEF ActiveIn
<1>4. RowsTypeOK /\ Clean
  BY <1>1, NoRowFacts, Zenon DEF WhitelistInit, RowsTypeOK, Clean
<1>5. LeftForOwn /\ NeverStranded
  BY <1>1, <1>2, NoRowFacts, Zenon DEF LeftForOwn, NeverStranded
<1> QED
  BY <1>3, <1>4, <1>5, Zenon DEF RowsInv, OneAccount, AttachedByConsent

\* Every step keeps the invariant of the rows.
LEMMA RowsKeep == RowsInv /\ [WhitelistNext]_whitelistVars => RowsInv'
<1> SUFFICES ASSUME RowsInv, [WhitelistNext]_whitelistVars PROVE RowsInv'
  BY Zenon
<1>1. CASE UNCHANGED whitelistVars
  <2>1. RowsTypeOK' /\ Clean' /\ UNCHANGED <<row, history>>
    BY <1>1, Zenon DEF whitelistVars, txVars, history, RowsInv, RowsTypeOK, Clean
  <2> QED
    BY <2>1, SameRows, Zenon
<1>2. CASE WhitelistNext
  BY <1>2, InviteKeeps, DeletePendingKeeps, AddKeeps, ActivatesKeeps, EnablesKeeps, CreatesKeeps, OrphanKeeps,
     QuietKeeps, Zenon DEF WhitelistNext
<1> QED
  BY <1>1, <1>2, Zenon

\* The invariant of the rows holds in every reachable state.
LEMMA RowsInvariance == WhitelistSpec => []RowsInv
BY RowsInitially, RowsKeep, PTL DEF WhitelistSpec

-----------------------------------------------------------------------------
\* The model's types, for every number of hosts and requests.
THEOREM WhitelistTyped == WhitelistSpec => []RowsTypeOK
<1>1. RowsInv => RowsTypeOK
  BY Zenon DEF RowsInv
<1> QED
  BY <1>1, RowsInvariance, PTL

\* An address is attributed to at most one account, whatever the races
\* of whitelist.go and admin.go.
THEOREM AddressHasOneAccount == WhitelistSpec => []OneAccount
<1>1. RowsInv => OneAccount
  BY Zenon DEF RowsInv
<1> QED
  BY <1>1, RowsInvariance, PTL

\* No host attaches an address that has not agreed to it, or has left it for
\* its own account: neither by inviting again nor by SetWhitelistEnabled.
THEOREM HostsNeedConsent == WhitelistSpec => []AttachedByConsent
<1>1. RowsInv => AttachedByConsent
  BY Zenon DEF RowsInv
<1> QED
  BY <1>1, RowsInvariance, PTL

\* An address with an account of its own always has an active row, but for the
\* race of CreateAccount.
THEOREM AddressNeverStranded == WhitelistSpec => []NeverStranded
<1>1. RowsInv => NeverStranded
  BY Zenon DEF RowsInv
<1> QED
  BY <1>1, RowsInvariance, PTL

-----------------------------------------------------------------------------
(* The devices of an address                                               *)

Request == [pc : InTx \cup {"asked", "full"}, addr : Addr, key : Key, tries : Nat, idx : Nat,
            alone : BOOLEAN]

ReqTyped ==
  /\ req \in [Req -> {Idle} \cup Request]
  /\ seq \in 0..(Slots - 1) /\ issues \in 0..MaxIssue
  /\ \A r \in Req : req[r].pc \in {"drawn", "inserted"} => req[r].idx \in 2..(Slots + 1)

TableTyped ==
  /\ DOMAIN table \in SUBSET Key
  /\ table \in [DOMAIN table -> [addr : Addr, idx : 2..(Slots + 1)]]
  /\ \A k, d \in DOMAIN table : table[k].idx = table[d].idx => k = d

Exclusive ==
  \A r, q \in Req : req[r].pc \in InTx /\ req[q].pc \in InTx /\ r # q => req[r].addr # req[q].addr

Reserved ==
  \A r \in Req : At(r, "inserted") =>
    /\ req[r].idx \notin Taken(table) /\ req[r].key \notin DOMAIN table
    /\ \A q \in Req \ {r} : At(q, "inserted") => req[q].idx # req[r].idx /\ req[q].key # req[r].key

Room == \A r \in Req : req[r].pc \in InTx => Cardinality(PeersOf(table, req[r].addr)) < MaxPeers

ReqInv == ReqTyped /\ TableTyped /\ Exclusive /\ Reserved /\ Room /\ CapHolds

\* What a table tells the agent: no slot is routed to two keys.
Answer(t) ==
  /\ DOMAIN t \in SUBSET Key
  /\ t \in [DOMAIN t -> 1..(PoolSize - 1)]
  /\ \A k, d \in DOMAIN t : t[k] = t[d] => k = d

AgentInv ==
  /\ DOMAIN iface \in SUBSET Key /\ iface \in [DOMAIN iface -> 0..(PoolSize - 1)]
  /\ etag = {} \/ \E t \in Some(Key, 1..(PoolSize - 1)) : etag = {t}
  /\ job = NoJob \/ (job.pc = "answered" /\ Answer(job.table))
  /\ due \in BOOLEAN /\ dirty \in BOOLEAN /\ faults \in 0..MaxFaults
  /\ EtagTruthful

\* There is at least one inner address.
LEMMA SlotsNat == Slots \in Nat /\ Slots > 0
BY WgAssumption DEF Slots

\* Membership in the set of partial functions.
LEMMA SomeDef ==
  ASSUME NEW S, NEW T, NEW f
  PROVE  f \in Some(S, T) <=> DOMAIN f \in SUBSET S /\ f \in [DOMAIN f -> T]
BY Zenon DEF Some

\* One address has finitely many tunnels.
LEMMA PeersFinite ==
  ASSUME NEW t, DOMAIN t \in SUBSET Key, NEW a
  PROVE  IsFiniteSet(PeersOf(t, a)) /\ Cardinality(PeersOf(t, a)) \in Nat
BY WgAssumption, FS_Subset, FS_CardinalityType, Zenon DEF PeersOf

-----------------------------------------------------------------------------
(* Requests                                                                *)

\* The invariant of the requests holds initially.
LEMMA ReqInit == Init => ReqInv
<1> SUFFICES ASSUME Init PROVE ReqInv
  BY Zenon
<1>1. table \in Some(Key, [addr : Addr, idx : 2..(Slots + 1)])
  BY Zenon DEF Init, Tables
<1>2. TableTyped
  BY <1>1, SomeDef, Zenon DEF Init, Tables, TableTyped
<1>3. CapHolds
  BY Zenon DEF Init, Tables, CapHolds
<1>4. \A r \in Req : req[r] = Idle
  BY Zenon DEF Init
<1>5. ReqTyped
  BY <1>4, WgAssumption DEF Init, ReqTyped, Idle, InTx
<1> QED
  BY <1>2, <1>3, <1>4, <1>5 DEF ReqInv, Exclusive, Reserved, Room, At, Idle, InTx

\* A request that moves on within or into its transaction and neither commits
\* nor takes what another holds.
LEMMA MoveKeeps ==
  ASSUME ReqInv, NEW r \in Req, NEW new \in {Idle} \cup Request, Becomes(r, new),
         UNCHANGED <<table, issues>>, seq' \in 0..(Slots - 1),
         new.pc \in {"drawn", "inserted"} => new.idx \in 2..(Slots + 1),
         new.pc \in InTx => /\ \A q \in Req \ {r} : req[q].pc \in InTx => req[q].addr # new.addr
                            /\ Cardinality(PeersOf(table, new.addr)) < MaxPeers,
         new.pc = "inserted" =>
           /\ new.idx \notin Taken(table) /\ new.key \notin DOMAIN table
           /\ \A q \in Req \ {r} : At(q, "inserted") => req[q].idx # new.idx /\ req[q].key # new.key
  PROVE  ReqInv'
<1> USE DEF ReqInv
<1>1. req' = [req EXCEPT ![r] = new] /\ req \in [Req -> {Idle} \cup Request]
  BY Zenon DEF Becomes, ReqTyped
<1>2. \A q \in Req : req'[q] = IF q = r THEN new ELSE req[q]
  BY <1>1, Zenon
<1>3. ReqTyped'
  <2>1. req' \in [Req -> {Idle} \cup Request]
    BY <1>1, Zenon
  <2>2. \A q \in Req : req'[q].pc \in {"drawn", "inserted"} => req'[q].idx \in 2..(Slots + 1)
    BY <1>2, Zenon DEF ReqTyped
  <2> QED
    BY <2>1, <2>2, Zenon DEF ReqTyped, Slots
<1>4. TableTyped' /\ CapHolds'
  BY Zenon DEF TableTyped, CapHolds, PeersOf, Slots
<1>5. Exclusive'
  BY <1>2, Zenon DEF Exclusive
<1>6. Reserved'
  BY <1>2 DEF Reserved, At, Taken
<1>7. Room'
  <2> SUFFICES ASSUME NEW q \in Req, req'[q].pc \in InTx
               PROVE  Cardinality(PeersOf(table', req'[q].addr)) < MaxPeers
    BY Zenon DEF Room
  <2> QED
    BY <1>2, Zenon DEF Room
<1> QED
  BY <1>3, <1>4, <1>5, <1>6, <1>7, Zenon

\* The request is typed where it runs.
LEMMA RunningTyped ==
  ASSUME ReqInv, NEW r \in Req, req[r].pc # "idle"
  PROVE  req[r] \in Request
BY DEF ReqInv, ReqTyped, Idle

\* The next slot and its inner address stay in range, the wrap included.
LEMMA NextSlotRange ==
  ASSUME seq \in 0..(Slots - 1)
  PROVE  (seq + 1) % Slots \in 0..(Slots - 1) /\ 2 + seq \in 2..(Slots + 1)
BY SlotsNat

\* Counting, drawing a slot, inserting and refusing keep the invariant.
LEMMA StepKeeps ==
  ASSUME ReqInv, NEW r \in Req, CountPeers(r) \/ NextSlot(r) \/ InsertPeer(r) \/ Refused(r)
  PROVE  ReqInv'
<1>1. CASE CountPeers(r)
  <2>1. req[r] \in Request /\ req[r].pc = "asked"
    BY <1>1, RunningTyped, Zenon DEF CountPeers, At
  <2>2. CASE Becomes(r, Idle)
    BY <1>1, <2>2, MoveKeeps, Zenon DEF CountPeers, Idle, InTx, ReqInv, ReqTyped
  <2>3. CASE Cardinality(PeersOf(table, req[r].addr)) < MaxPeers /\ With(r, "counted")
    <3> DEFINE new == [req[r] EXCEPT !.pc = "counted"]
    <3>1. new \in Request /\ new.pc = "counted" /\ new.addr = req[r].addr
      BY <2>1, Zenon DEF Request, InTx
    <3>2. \A q \in Req \ {r} : req[q].pc \in InTx => req[q].addr # new.addr
      BY <1>1, <3>1, Zenon DEF CountPeers, LockedBy
    <3>3. Becomes(r, new)
      BY <2>3, Zenon DEF With
    <3> HIDE DEF new
    <3> QED
      BY <1>1, <2>3, <3>1, <3>2, <3>3, MoveKeeps, Zenon DEF CountPeers, ReqInv, ReqTyped
  <2> QED
    BY <1>1, <2>2, <2>3, Zenon DEF CountPeers
<1>2. CASE NextSlot(r)
  <2> DEFINE new == [req[r] EXCEPT !.pc = "drawn", !.idx = 2 + seq]
  <2>1. req[r] \in Request /\ req[r].pc = "counted" /\ req[r].pc \in InTx
    BY <1>2, RunningTyped, Zenon DEF NextSlot, At, InTx
  <2>2. seq' \in 0..(Slots - 1) /\ 2 + seq \in 2..(Slots + 1) /\ 2 + seq \in Nat
    BY <1>2, NextSlotRange DEF NextSlot, ReqInv, ReqTyped
  <2>3. new \in Request /\ new.pc = "drawn" /\ new.addr = req[r].addr /\ new.idx = 2 + seq
    BY <2>1, <2>2, Zenon DEF Request, InTx
  <2>4. /\ \A q \in Req \ {r} : req[q].pc \in InTx => req[q].addr # new.addr
        /\ Cardinality(PeersOf(table, new.addr)) < MaxPeers
    BY <2>1, <2>3, Zenon DEF ReqInv, Exclusive, Room
  <2>5. Becomes(r, new)
    BY <1>2, Zenon DEF NextSlot
  <2> HIDE DEF new
  <2> QED
    BY <1>2, <2>2, <2>3, <2>4, <2>5, MoveKeeps, Zenon DEF NextSlot
<1>3. CASE InsertPeer(r)
  <2>1. req[r] \in Request /\ req[r].pc = "drawn" /\ req[r].pc \in InTx /\ req[r].idx \in 2..(Slots + 1)
    BY <1>3, RunningTyped, Zenon DEF InsertPeer, At, InTx, ReqInv, ReqTyped
  <2>2. /\ \A q \in Req \ {r} : req[q].pc \in InTx => req[q].addr # req[r].addr
        /\ Cardinality(PeersOf(table, req[r].addr)) < MaxPeers
    BY <2>1, Zenon DEF ReqInv, Exclusive, Room
  <2>3. CASE Becomes(r, Idle)
    BY <1>3, <2>3, MoveKeeps, Zenon DEF InsertPeer, Idle, InTx, ReqInv, ReqTyped
  <2>4. ASSUME NEW label \in {"full", "counted"},
               Becomes(r, [req[r] EXCEPT !.pc = label, !.tries = @ + 1])
        PROVE  ReqInv'
    <3> DEFINE new == [req[r] EXCEPT !.pc = label, !.tries = @ + 1]
    <3>0. new = [[req[r] EXCEPT !.pc = label] EXCEPT !.tries = req[r].tries + 1] /\ req[r].tries + 1 \in Nat
      BY <2>1 DEF Request
    <3>1. new \in Request /\ new.pc = label /\ new.addr = req[r].addr
      BY <2>1, <3>0, Zenon DEF Request, InTx
    <3>2. Becomes(r, new)
      BY <2>4, Zenon
    <3> HIDE DEF new
    <3> QED
      BY <1>3, <2>2, <3>1, <3>2, MoveKeeps, Zenon DEF InsertPeer, ReqInv, ReqTyped
  <2>5. CASE /\ req[r].idx \notin Taken(table) /\ req[r].key \notin DOMAIN table
             /\ With(r, "inserted")
    <3> DEFINE new == [req[r] EXCEPT !.pc = "inserted"]
    <3>1. /\ new \in Request /\ new.pc = "inserted" /\ new.addr = req[r].addr
          /\ new.idx = req[r].idx /\ new.key = req[r].key
      BY <2>1, Zenon DEF Request, InTx
    <3>2. \A q \in Req \ {r} : At(q, "inserted") => req[q].idx # new.idx /\ req[q].key # new.key
      BY <1>3, <3>1, Zenon DEF InsertPeer, InsertedBy
    <3>3. Becomes(r, new)
      BY <2>5, Zenon DEF With
    <3> HIDE DEF new
    <3> QED
      BY <1>3, <2>1, <2>2, <2>5, <3>1, <3>2, <3>3, MoveKeeps, Zenon DEF InsertPeer, ReqInv, ReqTyped
  <2>6. CASE \E label \in {"full", "counted"} : Becomes(r, [req[r] EXCEPT !.pc = label, !.tries = @ + 1])
    BY <2>4, <2>6, Zenon
  <2>7. CASE req[r].idx \in Taken(table)
    <3> DEFINE to == IF req[r].tries + 1 = Attempts THEN "full" ELSE "counted"
    <3>1. to \in {"full", "counted"}
      BY Zenon
    <3>2. Becomes(r, [req[r] EXCEPT !.pc = to, !.tries = @ + 1])
      BY <1>3, <2>7, Zenon DEF InsertPeer
    <3> HIDE DEF to
    <3> QED
      BY <2>6, <3>1, <3>2, Zenon
  <2>8. CASE req[r].idx \notin Taken(table)
    BY <1>3, <2>3, <2>5, <2>8, Zenon DEF InsertPeer
  <2> QED
    BY <2>7, <2>8, Zenon
<1>4. CASE Refused(r)
  BY <1>4, MoveKeeps, Zenon DEF Refused, Idle, InTx, ReqInv, ReqTyped
<1> QED
  BY <1>1, <1>2, <1>3, <1>4, Zenon

\* A new request disturbs no other but in the history alone.
LEMMA CrossedSame ==
  ASSUME ReqInv, NEW q \in Req
  PROVE  /\ Crossed[q] \in {Idle} \cup Request
         /\ Crossed[q].pc = req[q].pc
         /\ req[q].pc # "idle" => /\ Crossed[q].addr = req[q].addr /\ Crossed[q].key = req[q].key
                                  /\ Crossed[q].idx = req[q].idx
<1>1. CASE req[q].pc = "idle"
  BY <1>1, Zenon DEF Crossed, At, Idle
<1>2. CASE req[q].pc # "idle"
  BY <1>2, RunningTyped, Zenon DEF Crossed, At, Request, InTx
<1> QED
  BY <1>1, <1>2, Zenon

\* The arrival of a request keeps the invariant.
LEMMA AskKeeps ==
  ASSUME ReqInv, NEW r \in Req, NEW a \in Addr, NEW k \in Key, WgNew(r, a, k)
  PROVE  ReqInv'
<1> DEFINE new == [pc |-> "asked", addr |-> a, key |-> k, tries |-> 0, idx |-> 0,
                   alone |-> \A q \in Req : At(q, "idle")]
<1>1. new \in Request /\ new.pc = "asked"
  BY Zenon DEF Request, InTx
<1>2. req' = [Crossed EXCEPT ![r] = new] /\ UNCHANGED <<table, seq>> /\ issues' = issues + 1
      /\ issues < MaxIssue
  BY Zenon DEF WgNew
<1>3. DOMAIN Crossed = Req
  BY Zenon DEF Crossed
<1> HIDE DEF new
<1>4. \A q \in Req : req'[q] = IF q = r THEN new ELSE Crossed[q]
  BY <1>2, <1>3, Zenon DEF Crossed
<1>5. \A q \in Req :
        /\ req'[q] \in {Idle} \cup Request
        /\ req'[q].pc \in InTx \cup {"full"} =>
             /\ req'[q].pc = req[q].pc /\ req'[q].addr = req[q].addr
             /\ req'[q].key = req[q].key /\ req'[q].idx = req[q].idx
  BY <1>1, <1>4, CrossedSame, Zenon DEF InTx
<1>6. ReqTyped'
  <2>1. req' \in [Req -> {Idle} \cup Request]
    BY <1>2, <1>3, <1>5, Zenon DEF Crossed
  <2>2. issues' \in 0..MaxIssue
    BY <1>2, WgAssumption DEF ReqInv, ReqTyped
  <2> QED
    BY <1>2, <1>5, <2>1, <2>2, Zenon DEF ReqInv, ReqTyped, Slots, InTx
<1>7. TableTyped' /\ CapHolds'
  BY <1>2, Zenon DEF ReqInv, TableTyped, CapHolds, PeersOf, Slots
<1>8. Exclusive'
  BY <1>5 DEF ReqInv, Exclusive, InTx
<1>9. Reserved'
  BY <1>2, <1>5 DEF ReqInv, Reserved, At, Taken, InTx
<1>10. Room'
  BY <1>2, <1>5 DEF ReqInv, Room, PeersOf
<1> QED
  BY <1>6, <1>7, <1>8, <1>9, <1>10, Zenon DEF ReqInv

\* Deleting a tunnel keeps the invariant.
LEMMA DeleteKeeps ==
  ASSUME ReqInv, NEW k \in Key, DeleteWgPeer(k)
  PROVE  ReqInv'
<1>1. table' = [d \in DOMAIN table \ {k} |-> table[d]] /\ req' = Crossed /\ UNCHANGED <<seq, issues>>
  BY Zenon DEF DeleteWgPeer
<1>2. \A q \in Req :
        /\ req'[q] \in {Idle} \cup Request
        /\ req'[q].pc = req[q].pc
        /\ req[q].pc \in InTx => /\ req'[q].addr = req[q].addr /\ req'[q].key = req[q].key
                                  /\ req'[q].idx = req[q].idx
  BY <1>1, CrossedSame, Zenon DEF InTx
<1>3. ReqTyped'
  <2>1. req' \in [Req -> {Idle} \cup Request]
    BY <1>1, <1>2, Zenon DEF Crossed
  <2> QED
    BY <1>1, <1>2, <2>1, Zenon DEF ReqInv, ReqTyped, Slots, InTx
<1>4. TableTyped' /\ DOMAIN table' = DOMAIN table \ {k} /\ DOMAIN table \in SUBSET Key
  BY <1>1, Zenon DEF ReqInv, TableTyped, Slots
<1>5. \A a \in Addr : Cardinality(PeersOf(table', a)) <= Cardinality(PeersOf(table, a))
                     /\ Cardinality(PeersOf(table', a)) \in Nat /\ Cardinality(PeersOf(table, a)) \in Nat
  <2> SUFFICES ASSUME NEW a \in Addr
               PROVE  Cardinality(PeersOf(table', a)) <= Cardinality(PeersOf(table, a))
                     /\ Cardinality(PeersOf(table', a)) \in Nat /\ Cardinality(PeersOf(table, a)) \in Nat
    BY Zenon
  <2>1. PeersOf(table', a) \subseteq PeersOf(table, a)
    BY <1>1, Zenon DEF PeersOf
  <2> QED
    BY <1>4, <2>1, PeersFinite, FS_Subset, Zenon
<1>6. CapHolds'
  BY <1>5, WgAssumption DEF ReqInv, CapHolds
<1>7. Room'
  <2> SUFFICES ASSUME NEW r \in Req, req'[r].pc \in InTx
               PROVE  Cardinality(PeersOf(table', req'[r].addr)) < MaxPeers
    BY Zenon DEF Room
  <2>1. req[r].pc \in InTx /\ req'[r].addr = req[r].addr /\ req[r].addr \in Addr
    BY <1>2, RunningTyped, Zenon DEF InTx, Request
  <2> QED
    BY <1>5, <2>1, WgAssumption DEF ReqInv, Room
<1>8. Exclusive'
  BY <1>2 DEF ReqInv, Exclusive
<1>9. Reserved'
  BY <1>1, <1>2, <1>4 DEF ReqInv, Reserved, At, Taken, InTx
<1> QED
  BY <1>3, <1>4, <1>6, <1>7, <1>8, <1>9, Zenon DEF ReqInv

\* The commit of a new tunnel keeps the invariant.
LEMMA CommitKeeps ==
  ASSUME ReqInv, NEW r \in Req, CommitPeer(r)
  PROVE  ReqInv'
<1> DEFINE peer == [addr |-> req[r].addr, idx |-> req[r].idx]
           key == req[r].key
<1>1. /\ req[r] \in Request /\ req[r].pc = "inserted" /\ req[r].pc \in InTx
      /\ req[r].idx \in 2..(Slots + 1) /\ key \in Key /\ req[r].addr \in Addr
  BY RunningTyped, Zenon DEF CommitPeer, At, InTx, ReqInv, ReqTyped, Request
<1>2. key \notin DOMAIN table /\ req[r].idx \notin Taken(table)
  BY <1>1, Zenon DEF ReqInv, Reserved, At
<1>3. /\ table' = [k \in DOMAIN table \cup {key} |-> IF k = key THEN peer ELSE table[k]]
      /\ Becomes(r, Idle) /\ UNCHANGED <<seq, issues>>
  BY Zenon DEF CommitPeer
<1>4. peer \in [addr : Addr, idx : 2..(Slots + 1)]
  BY <1>1, Zenon
<1>5. DOMAIN table \in SUBSET Key /\ table \in [DOMAIN table -> [addr : Addr, idx : 2..(Slots + 1)]]
      /\ \A k, d \in DOMAIN table : table[k].idx = table[d].idx => k = d
  BY Zenon DEF ReqInv, TableTyped
<1>p. peer.addr = req[r].addr /\ peer.idx = req[r].idx
  BY Zenon
<1> HIDE DEF peer, key
<1>6. /\ DOMAIN table' = DOMAIN table \cup {key} /\ table'[key] = peer
      /\ \A k \in DOMAIN table : table'[k] = table[k]
  BY <1>2, <1>3, Zenon
<1>7. TableTyped'
  <2>1. DOMAIN table' \in SUBSET Key /\ table' \in [DOMAIN table' -> [addr : Addr, idx : 2..(Slots + 1)]]
    BY <1>1, <1>3, <1>4, <1>5, Zenon
  <2>2. \A k, d \in DOMAIN table' : table'[k].idx = table'[d].idx => k = d
    BY <1>2, <1>5, <1>6, <1>p DEF Taken
  <2> QED
    BY <2>1, <2>2, Zenon DEF TableTyped, Slots
<1>8. \A q \in Req : req'[q] = IF q = r THEN Idle ELSE req[q]
  BY <1>3, Zenon DEF Becomes, ReqInv, ReqTyped
<1>9. ReqTyped'
  <2>1. req' \in [Req -> {Idle} \cup Request]
    BY <1>3, Zenon DEF Becomes, ReqInv, ReqTyped
  <2> QED
    BY <1>3, <1>8, <2>1 DEF ReqInv, ReqTyped, Slots, Idle
<1>10. Exclusive'
  BY <1>8 DEF ReqInv, Exclusive, Idle, InTx
<1>11. Reserved'
  <2> SUFFICES ASSUME NEW q \in Req, q # r, req[q].pc = "inserted"
               PROVE  /\ req[q].idx \notin Taken(table') /\ req[q].key \notin DOMAIN table'
                      /\ \A p \in Req \ {q} : At(p, "inserted")' => req'[p].idx # req[q].idx /\ req'[p].key # req[q].key
    BY <1>8 DEF Reserved, At, Idle
  <2>1. /\ req[q].idx \notin Taken(table) /\ req[q].key \notin DOMAIN table
        /\ req[q].idx # req[r].idx /\ req[q].key # key
    BY <1>1, Zenon DEF ReqInv, Reserved, At, key
  <2>2. Taken(table') = Taken(table) \cup {req[r].idx}
    BY <1>6, <1>p, Zenon DEF Taken
  <2>3. \A p \in Req \ {q} : At(p, "inserted")' => req'[p].idx # req[q].idx /\ req'[p].key # req[q].key
    BY <1>8 DEF ReqInv, Reserved, At, Idle
  <2> QED
    BY <1>6, <2>1, <2>2, <2>3, Zenon
<1>12. PeersOf(table', req[r].addr) = PeersOf(table, req[r].addr) \cup {key}
  BY <1>6, <1>p, Zenon DEF PeersOf
<1>13. \A a \in Addr : a # req[r].addr => PeersOf(table', a) = PeersOf(table, a)
  BY <1>6, <1>p, Zenon DEF PeersOf
<1>14. Cardinality(PeersOf(table', req[r].addr)) <= MaxPeers
  <2>1. key \notin PeersOf(table, req[r].addr)
    BY <1>2, Zenon DEF PeersOf
  <2>2. Cardinality(PeersOf(table, req[r].addr)) < MaxPeers
    BY <1>1, Zenon DEF ReqInv, Room
  <2>3. IsFiniteSet(PeersOf(table, req[r].addr)) /\ Cardinality(PeersOf(table, req[r].addr)) \in Nat
    BY <1>5, PeersFinite, Zenon
  <2>4. Cardinality(PeersOf(table', req[r].addr)) = Cardinality(PeersOf(table, req[r].addr)) + 1
    BY <1>12, <2>1, <2>3, FS_AddElement, Zenon
  <2> QED
    BY <2>2, <2>3, <2>4, WgAssumption
<1>15. CapHolds'
  BY <1>13, <1>14, Zenon DEF ReqInv, CapHolds
<1>16. Room'
  <2> SUFFICES ASSUME NEW q \in Req, q # r, req[q].pc \in InTx
               PROVE  Cardinality(PeersOf(table', req[q].addr)) < MaxPeers
    BY <1>8 DEF Room, Idle, InTx
  <2>1. req[q].addr # req[r].addr /\ req[q].addr \in Addr
    BY <1>1, RunningTyped, Zenon DEF ReqInv, Exclusive, InTx, Request
  <2> QED
    BY <1>13, <2>1, Zenon DEF ReqInv, Room
<1> QED
  BY <1>7, <1>9, <1>10, <1>11, <1>15, <1>16, Zenon DEF ReqInv

\* The agent leaves the requests and the table alone.
LEMMA ReqFrame ==
  ASSUME ReqInv, UNCHANGED <<table, reqVars>>
  PROVE  ReqInv'
BY DEF ReqInv, ReqTyped, TableTyped, Exclusive, Reserved, Room, CapHolds, reqVars, PeersOf, Taken,
       At, Slots, Request, Idle, InTx

\* Every step keeps the invariant of the requests.
LEMMA ReqNext == ReqInv /\ [Next]_vars => ReqInv'
<1> SUFFICES ASSUME ReqInv, [Next]_vars PROVE ReqInv'
  BY Zenon
<1>1. CASE UNCHANGED vars
  BY <1>1, ReqFrame, Zenon DEF vars
<1>2. ASSUME NEW r \in Req, ReqStep(r) \/ Refused(r) \/ \E a \in Addr, k \in Key : WgNew(r, a, k)
      PROVE  ReqInv'
  BY <1>2, StepKeeps, CommitKeeps, AskKeeps, Zenon DEF ReqStep
<1>3. ASSUME NEW k \in Key, DeleteWgPeer(k) PROVE ReqInv'
  BY <1>3, DeleteKeeps, Zenon
<1>4. CASE AgentStep
  BY <1>4, ReqFrame, Zenon DEF AgentStep, WgPoll, ApplyFails, FullSyncDue, Restart, ApplyWgPeers, OutOfBand
<1> QED
  BY <1>1, <1>2, <1>3, <1>4, Zenon DEF Next

\* The invariant of the requests holds in every reachable state.
LEMMA ReqInvariance == Spec => []ReqInv
BY ReqInit, ReqNext, PTL DEF Spec

-----------------------------------------------------------------------------
(* A request that nothing crossed                                          *)

\* The t slots drawn last when the sequence stands at s; all of them, if the
\* sequence went round.
Tried(s, t) ==
  IF t >= Slots THEN 2 .. (Slots + 1)
  ELSE IF t <= s THEN (s - t + 2) .. (s + 1)
  ELSE 2 .. (s + 1) \cup (Slots - (t - s) + 2) .. (Slots + 1)

\* What is known of request r, in state k, when nothing crossed it.
Alone(r, k) ==
  /\ \A q \in Req \ {r} : req[q].pc = "idle"
  /\ k.pc = "full" => k.tries = Attempts
  /\ k.pc \in {"asked", "counted", "full"} => Tried(seq, k.tries) \in SUBSET Taken(table)
  /\ k.pc = "drawn" => seq = (k.idx - 1) % Slots /\ Tried(k.idx - 2, k.tries) \in SUBSET Taken(table)

AloneInv == \A r \in Req : req[r].pc # "idle" /\ req[r].alone => Alone(r, req[r])

\* The modulus of the slot counter, as a case distinction.
LEMMA NextSlotIs ==
  ASSUME NEW s \in 0..(Slots - 1)
  PROVE  (s + 1) % Slots = IF s + 1 = Slots THEN 0 ELSE s + 1
BY SlotsNat

\* One more draw adds the slot drawn.
LEMMA TriedNext ==
  ASSUME NEW s \in 0..(Slots - 1), NEW t \in Nat
  PROVE  Tried((s + 1) % Slots, t + 1) \in SUBSET (Tried(s, t) \cup {s + 2})
<1>1. Slots \in Nat /\ Slots > 0
  BY SlotsNat, Zenon
<1>2. CASE s + 1 = Slots
  BY <1>1, <1>2, NextSlotIs DEF Tried
<1>3. CASE s + 1 # Slots
  BY <1>1, <1>3, NextSlotIs DEF Tried
<1> QED
  BY <1>2, <1>3, Zenon

\* No slot is drawn twice before all were drawn.
LEMMA TriedSize ==
  ASSUME NEW s \in 0..(Slots - 1), NEW t \in Nat
  PROVE  /\ IsFiniteSet(Tried(s, t))
         /\ Cardinality(Tried(s, t)) = IF t < Slots THEN t ELSE Slots
<1>1. Slots \in Nat /\ Slots > 0
  BY SlotsNat, Zenon
<1>2. CASE t >= Slots
  <2>1. Tried(s, t) = 2 .. (Slots + 1)
    BY <1>2, Zenon DEF Tried
  <2> QED
    BY <1>1, <1>2, <2>1, FS_Interval
<1>3. CASE t < Slots /\ t <= s
  <2>1. Tried(s, t) = (s - t + 2) .. (s + 1)
    BY <1>1, <1>3 DEF Tried
  <2>2. s - t + 2 \in Int /\ s + 1 \in Int /\ (s + 1) - (s - t + 2) + 1 = t
    BY <1>1
  <2> QED
    BY <1>1, <1>3, <2>1, <2>2, FS_Interval
<1>4. CASE t < Slots /\ t > s
  <2> DEFINE low == 2 .. (s + 1)
             high == (Slots - (t - s) + 2) .. (Slots + 1)
  <2>1. Tried(s, t) = low \cup high
    BY <1>1, <1>4 DEF Tried
  <2>2. IsFiniteSet(low) /\ Cardinality(low) = s
    <3>1. s + 1 - 2 + 1 = s /\ (2 > s + 1 => s = 0)
      BY <1>1
    <3> QED
      BY <1>1, <3>1, FS_Interval
  <2>3. IsFiniteSet(high) /\ Cardinality(high) = t - s
    <3>1. /\ Slots - (t - s) + 2 \in Int /\ Slots + 1 \in Int
          /\ (Slots + 1) - (Slots - (t - s) + 2) + 1 = t - s
      BY <1>1
    <3> QED
      BY <1>1, <1>4, <3>1, FS_Interval
  <2>4. low \cap high = {}
    BY <1>1, <1>4
  <2> HIDE DEF low, high
  <2>5. IsFiniteSet(low \cup high) /\ Cardinality(low \cup high) = s + (t - s)
    <3>1. Cardinality(low \cap high) = 0
      BY <2>4, FS_EmptySet, Zenon
    <3> QED
      BY <1>1, <2>2, <2>3, <3>1, FS_Union
  <2> QED
    BY <1>1, <1>4, <2>1, <2>5
<1> QED
  BY <1>1, <1>2, <1>3, <1>4

\* A request under way takes a step: if it is alone it stays so.
LEMMA AloneStep ==
  ASSUME ReqInv, AloneInv, NEW r \in Req, req[r].pc # "idle", NEW new, Becomes(r, new),
         new.pc # "idle" => /\ new.alone = req[r].alone
                            /\ new.alone => Alone(r, new)'
  PROVE  AloneInv'
<1>1. \A q \in Req : req'[q] = IF q = r THEN new ELSE req[q]
  BY Zenon DEF ReqInv, ReqTyped, Becomes
<1>2. ASSUME NEW q \in Req, req'[q].pc # "idle", req'[q].alone PROVE Alone(q, req[q])'
  <2>1. CASE q = r
    BY <1>1, <1>2, <2>1, Zenon
  <2>2. CASE q # r
    BY <1>1, <1>2, <2>2, Zenon DEF AloneInv, Alone
  <2> QED
    BY <2>1, <2>2, Zenon
<1> QED
  BY <1>2, Zenon DEF AloneInv

\* A collision on the inner address keeps the account of the slots tried.
LEMMA AloneInsert ==
  ASSUME ReqInv, AloneInv, NEW r \in Req, InsertPeer(r)
  PROVE  AloneInv'
<1>1. req[r] \in Request /\ req[r].pc = "drawn" /\ req[r].idx \in 2..(Slots + 1)
  BY RunningTyped, Zenon DEF InsertPeer, At, ReqInv, ReqTyped
<1>2. UNCHANGED <<table, seq>>
  BY Zenon DEF InsertPeer
<1>3. PICK j : j = req[r]
  BY Zenon
<1>4. /\ j \in Request /\ j.pc = "drawn" /\ j.idx \in 2..(Slots + 1) /\ j.tries \in Nat /\ j.alone \in BOOLEAN
      /\ j.alone => Alone(r, j)
  BY <1>1, <1>3, Zenon DEF AloneInv, Request
<1>5. CASE j.idx \in Taken(table)
  <2> DEFINE label == IF j.tries + 1 = Attempts THEN "full" ELSE "counted"
  <2>1. PICK new : new = [[j EXCEPT !.pc = label] EXCEPT !.tries = j.tries + 1]
    BY Zenon
  <2>2. Becomes(r, new)
    <3>1. Becomes(r, [j EXCEPT !.pc = label, !.tries = @ + 1])
      BY <1>3, <1>5, Zenon DEF InsertPeer
    <3>2. [j EXCEPT !.pc = label, !.tries = @ + 1] = new
      BY <1>4, <2>1, Zenon DEF Request
    <3> QED
      BY <3>1, <3>2, Zenon
  <2>3. new.pc = label /\ new.tries = j.tries + 1 /\ new.alone = j.alone
    BY <1>4, <2>1, Zenon DEF Request
  <2>4. ASSUME j.alone PROVE Alone(r, new)'
    <3>1. /\ \A q \in Req \ {r} : req[q].pc = "idle"
          /\ seq = (j.idx - 1) % Slots /\ Tried(j.idx - 2, j.tries) \in SUBSET Taken(table)
      BY <1>4, <2>4, Zenon DEF Alone
    <3>2. \A q \in Req \ {r} : req'[q].pc = "idle"
      BY <2>2, <3>1, Zenon DEF Becomes, ReqInv, ReqTyped
    <3>3. j.idx - 2 \in 0..(Slots - 1) /\ (j.idx - 2) + 1 = j.idx - 1 /\ (j.idx - 2) + 2 = j.idx
      BY <1>4, SlotsNat
    <3>4. Tried(seq, j.tries + 1) \in SUBSET (Tried(j.idx - 2, j.tries) \cup {j.idx})
      BY <1>4, <3>1, <3>3, TriedNext, Zenon
    <3>5. Tried(seq, new.tries) \in SUBSET Taken(table)
      BY <1>5, <2>3, <3>1, <3>4, Zenon
    <3>6. Tried(seq', new.tries) \in SUBSET Taken(table')
      BY <1>2, <3>5, Zenon
    <3>7. new.pc = "full" => new.tries = Attempts
      BY <2>3, Zenon
    <3>8. new.pc # "drawn"
      BY <2>3, Zenon
    <3>9. Tried(seq, new.tries)' = Tried(seq', new.tries)
      BY Zenon DEF Tried, Slots
    <3>10. Taken(table)' = Taken(table')
      BY Zenon DEF Taken
    <3> QED
      BY <3>2, <3>6, <3>7, <3>8, <3>9, <3>10, Zenon DEF Alone
  <2> HIDE DEF label
  <2> QED
    BY <1>1, <1>3, <2>2, <2>3, <2>4, AloneStep, Zenon
<1>6. CASE Becomes(r, Idle)
  BY <1>1, <1>6, AloneStep, Zenon DEF Idle
<1>7. CASE With(r, "inserted")
  <2>1. PICK new : new = [j EXCEPT !.pc = "inserted"]
    BY Zenon
  <2>2. Becomes(r, new) /\ new.pc = "inserted" /\ new.alone = j.alone
    BY <1>3, <1>4, <1>7, <2>1, Zenon DEF With, Request
  <2>3. ASSUME j.alone PROVE Alone(r, new)'
    <3>1. \A q \in Req \ {r} : req'[q].pc = "idle"
      BY <1>4, <2>2, <2>3, Zenon DEF Alone, Becomes, ReqInv, ReqTyped
    <3> QED
      BY <2>2, <3>1, Zenon DEF Alone
  <2> QED
    BY <1>1, <1>3, <2>2, <2>3, AloneStep, Zenon
<1> QED
  BY <1>3, <1>5, <1>6, <1>7, Zenon DEF InsertPeer

\* Drawing the next slot keeps the account of the slots tried.
LEMMA AloneDraw ==
  ASSUME ReqInv, AloneInv, NEW r \in Req, NextSlot(r)
  PROVE  AloneInv'
<1>1. req[r] \in Request /\ req[r].pc = "counted" /\ seq \in 0..(Slots - 1)
  BY RunningTyped, Zenon DEF NextSlot, At, ReqInv, ReqTyped
<1>2. PICK j : j = req[r]
  BY Zenon
<1>3. PICK new : new = [j EXCEPT !.pc = "drawn", !.idx = 2 + seq]
  BY Zenon
<1>4. /\ Becomes(r, new) /\ seq' = (seq + 1) % Slots /\ UNCHANGED table
      /\ j \in Request /\ j.pc = "counted"
      /\ j.alone => Alone(r, j)
  BY <1>1, <1>2, <1>3, Zenon DEF NextSlot, AloneInv
<1>5. new.pc = "drawn" /\ new.idx = 2 + seq /\ new.alone = j.alone /\ new.tries = j.tries
  BY <1>3, <1>4, Zenon DEF Request
<1>6. ASSUME j.alone PROVE Alone(r, new)'
  <2>1. /\ \A q \in Req \ {r} : req[q].pc = "idle"
        /\ Tried(seq, j.tries) \in SUBSET Taken(table)
    BY <1>4, <1>6, Zenon DEF Alone
  <2>2. \A q \in Req \ {r} : req'[q].pc = "idle"
    BY <1>4, <2>1, Zenon DEF Becomes, ReqInv, ReqTyped
  <2>3. new.idx - 1 = seq + 1 /\ new.idx - 2 = seq
    BY <1>1, <1>5, SlotsNat
  <2>4. seq' = (new.idx - 1) % Slots /\ Tried(new.idx - 2, new.tries) \in SUBSET Taken(table)
    BY <1>4, <1>5, <2>1, <2>3, Zenon
  <2>5. Tried(new.idx - 2, new.tries)' = Tried(new.idx - 2, new.tries) /\ Taken(table)' = Taken(table)
    BY <1>4, Zenon DEF Tried, Slots, Taken
  <2> QED
    BY <1>5, <2>2, <2>4, <2>5, Zenon DEF Alone, Slots
<1> QED
  BY <1>1, <1>2, <1>4, <1>5, <1>6, AloneStep, Zenon

\* The count under the cap keeps the account of the slots tried.
LEMMA AloneCount ==
  ASSUME ReqInv, AloneInv, NEW r \in Req, CountPeers(r)
  PROVE  AloneInv'
<1>1. req[r] \in Request /\ req[r].pc = "asked" /\ UNCHANGED <<table, seq>>
  BY RunningTyped, Zenon DEF CountPeers, At
<1>2. CASE Becomes(r, Idle)
  BY <1>1, <1>2, AloneStep, Zenon DEF Idle
<1>3. CASE With(r, "counted")
  <2>1. PICK j : j = req[r]
    BY Zenon
  <2>2. PICK new : new = [j EXCEPT !.pc = "counted"]
    BY Zenon
  <2>3. Becomes(r, new) /\ new.pc = "counted" /\ new.alone = j.alone /\ new.tries = j.tries
    BY <1>1, <1>3, <2>1, <2>2, Zenon DEF With, Request
  <2>4. ASSUME j.alone PROVE Alone(r, new)'
    <3>1. /\ \A q \in Req \ {r} : req[q].pc = "idle"
          /\ Tried(seq, j.tries) \in SUBSET Taken(table)
      BY <1>1, <2>1, <2>4, Zenon DEF Alone, AloneInv
    <3>2. \A q \in Req \ {r} : req'[q].pc = "idle"
      BY <2>3, <3>1, Zenon DEF Becomes, ReqInv, ReqTyped
    <3>3. Tried(seq, new.tries)' = Tried(seq, new.tries) /\ Taken(table)' = Taken(table)
      BY <1>1, Zenon DEF Tried, Slots, Taken
    <3> QED
      BY <2>3, <3>1, <3>2, <3>3, Zenon DEF Alone
  <2> QED
    BY <1>1, <2>1, <2>3, <2>4, AloneStep, Zenon
<1> QED
  BY <1>2, <1>3, Zenon DEF CountPeers

\* Whoever starts a request or deletes a device crosses those under way.
LEMMA CrossedNotAlone ==
  ASSUME ReqInv, NEW q \in Req, Crossed[q].pc # "idle"
  PROVE  req[q].pc # "idle" /\ ~Crossed[q].alone
<1>1. req[q].pc # "idle"
  BY CrossedSame, Zenon
<1>2. req[q] \in Request /\ Crossed[q] = [req[q] EXCEPT !.alone = FALSE]
  BY <1>1, RunningTyped, Zenon DEF Crossed, At
<1> QED
  BY <1>1, <1>2, Zenon DEF Request

\* A new request keeps the account of the slots tried.
LEMMA AloneAsk ==
  ASSUME ReqInv, AloneInv, NEW r \in Req, NEW a \in Addr, NEW k \in Key, WgNew(r, a, k)
  PROVE  AloneInv'
<1>1. PICK new : new = [pc |-> "asked", addr |-> a, key |-> k, tries |-> 0, idx |-> 0,
                        alone |-> \A q \in Req : At(q, "idle")]
  BY Zenon
<1>2. req' = [Crossed EXCEPT ![r] = new] /\ UNCHANGED <<table, seq>>
  BY <1>1, Zenon DEF WgNew
<1>3. \A q \in Req : req'[q] = IF q = r THEN new ELSE Crossed[q]
  BY <1>2, Zenon DEF Crossed
<1>4. new.pc = "asked" /\ new.tries = 0 /\ (new.alone <=> \A q \in Req : req[q].pc = "idle")
  BY <1>1, Zenon DEF At
<1>5. ASSUME new.alone PROVE Alone(r, new)'
  <2>1. \A q \in Req \ {r} : req'[q].pc = "idle"
    BY <1>3, <1>4, <1>5, CrossedSame, Zenon
  <2>2. seq' \in 0..(Slots - 1)
    BY <1>2, Zenon DEF ReqInv, ReqTyped
  <2>3. Tried(seq', 0) = {}
    <3>1. ~(0 >= Slots) /\ 0 <= seq' /\ seq' \in Nat
      BY <2>2, SlotsNat
    <3>2. Tried(seq', 0) = (seq' - 0 + 2) .. (seq' + 1)
      BY <3>1, Zenon DEF Tried
    <3> QED
      BY <3>1, <3>2
  <2>4. Tried(seq, new.tries)' = {}
    BY <1>4, <2>3, Zenon DEF Tried, Slots
  <2> QED
    BY <1>4, <2>1, <2>4, Zenon DEF Alone
<1> QED
  BY <1>3, <1>5, CrossedNotAlone, Zenon DEF AloneInv

\* Every step keeps the account of the slots tried.
LEMMA AloneNext == ReqInv /\ AloneInv /\ [Next]_vars => AloneInv'
<1> SUFFICES ASSUME ReqInv, AloneInv, [Next]_vars PROVE AloneInv'
  BY Zenon
<1>1. CASE UNCHANGED <<table, seq, req>>
  <2>1. ASSUME NEW r, NEW k PROVE Alone(r, k)' <=> Alone(r, k)
    <3>1. /\ Tried(seq, k.tries)' = Tried(seq, k.tries) /\ Tried(k.idx - 2, k.tries)' = Tried(k.idx - 2, k.tries)
          /\ Taken(table)' = Taken(table)
      BY <1>1, Zenon DEF Tried, Taken, Slots
    <3>2. seq' = seq /\ req' = req /\ Slots' = Slots
      BY <1>1, Zenon DEF Slots
    <3> QED
      BY <3>1, <3>2, Zenon DEF Alone
  <2> QED
    BY <1>1, <2>1, Zenon DEF AloneInv
<1>2. ASSUME NEW r \in Req, CommitPeer(r) \/ Refused(r) PROVE AloneInv'
  BY <1>2, AloneStep, Zenon DEF CommitPeer, Refused, At, Idle, InTx
<1>3. ASSUME NEW k \in Key, DeleteWgPeer(k) PROVE AloneInv'
  BY <1>3, CrossedNotAlone, Zenon DEF AloneInv, DeleteWgPeer
<1>4. CASE AgentStep \/ UNCHANGED vars
  BY <1>1, <1>4, Zenon DEF AgentStep, WgPoll, ApplyFails, FullSyncDue, Restart, ApplyWgPeers, OutOfBand,
                    vars, reqVars
<1> QED
  BY <1>2, <1>3, <1>4, AloneInsert, AloneDraw, AloneCount, AloneAsk, Zenon DEF Next, ReqStep

-----------------------------------------------------------------------------
(* The agent                                                               *)

\* The table of the tunnels is a well-formed answer to the agent.
LEMMA TableAnswers == ReqInv => Answer(WgPeerTable(table))
<1> SUFFICES ASSUME ReqInv PROVE Answer(WgPeerTable(table))
  BY Zenon
<1>1. \A k \in DOMAIN table : table[k].idx \in 1..(PoolSize - 1)
  BY WgAssumption DEF ReqInv, TableTyped, Slots
<1> QED
  BY <1>1, Zenon DEF ReqInv, TableTyped, Answer, WgPeerTable

\* applyWgPeers with no failure makes the interface the answer: a key that
\* keeps its slot does not lose it to one that is added, because the answer
\* gives every slot to one key.
LEMMA ApplyMakesTable ==
  ASSUME NEW t, Answer(t), SetPeers(DiffPeers(iface, t).add, DiffPeers(iface, t).del, t)
  PROVE  iface' = t
<1> DEFINE add == DiffPeers(iface, t).add
           del == DiffPeers(iface, t).del
<1>1. add = {k \in DOMAIN t : k \notin DOMAIN iface \/ iface[k] # t[k]} /\ del = DOMAIN iface \ DOMAIN t
  BY Zenon DEF DiffPeers
<1>2. iface' = [k \in (DOMAIN iface \cup add) \ del |->
                  IF k \in add THEN t[k]
                  ELSE IF \E n \in add : t[n] = iface[k] THEN 0 ELSE iface[k]]
  BY Zenon DEF SetPeers
<1> HIDE DEF add, del
<1>3. (DOMAIN iface \cup add) \ del = DOMAIN t
  BY <1>1, Zenon
<1>4. ASSUME NEW k \in DOMAIN t, k \notin add
      PROVE  iface[k] = t[k] /\ ~\E n \in add : t[n] = iface[k]
  BY <1>1, <1>4, Zenon DEF Answer
<1>5. iface' = [k \in DOMAIN t |-> t[k]]
  BY <1>2, <1>3, <1>4, Zenon
<1> QED
  BY <1>5, Zenon DEF Answer

\* With failures it still has keys and slots of the two.
LEMMA ApplyTyped ==
  ASSUME NEW t, Answer(t), NEW add \in SUBSET DOMAIN t, NEW del, SetPeers(add, del, t),
         DOMAIN iface \in SUBSET Key, iface \in [DOMAIN iface -> 0..(PoolSize - 1)]
  PROVE  DOMAIN iface' \in SUBSET Key /\ iface' \in [DOMAIN iface' -> 0..(PoolSize - 1)]
<1>1. iface' = [k \in (DOMAIN iface \cup add) \ del |->
                  IF k \in add THEN t[k]
                  ELSE IF \E n \in add : t[n] = iface[k] THEN 0 ELSE iface[k]]
  BY Zenon DEF SetPeers
<1>2. \A k \in add : t[k] \in 0..(PoolSize - 1) /\ k \in Key
  BY WgAssumption DEF Answer
<1>3. 0 \in 0..(PoolSize - 1)
  BY WgAssumption
<1>4. \A k \in DOMAIN iface : iface[k] \in 0..(PoolSize - 1) /\ k \in Key
  BY Zenon
<1> QED
  BY <1>1, <1>2, <1>3, <1>4, Zenon

\* The invariant of the agent holds initially.
LEMMA AgentInit == Init => AgentInv
<1> SUFFICES ASSUME Init PROVE AgentInv
  BY Zenon
<1>1. Answer(iface)
  BY ReqInit, TableAnswers, Zenon DEF Init
<1>2. DOMAIN iface \in SUBSET Key /\ iface \in [DOMAIN iface -> 0..(PoolSize - 1)]
  BY <1>1, WgAssumption DEF Answer
<1>3. iface \in Some(Key, 1..(PoolSize - 1)) /\ etag = {iface}
  BY <1>1, SomeDef, Zenon DEF Answer, Init
<1>4. faults \in 0..MaxFaults
  BY WgAssumption DEF Init
<1>5. due \in BOOLEAN /\ dirty \in BOOLEAN /\ job = NoJob
  BY Zenon DEF Init
<1>6. EtagTruthful
  BY <1>3, Zenon DEF EtagTruthful
<1>7. \E t \in Some(Key, 1..(PoolSize - 1)) : etag = {t}
  BY <1>3, Zenon
<1> QED
  BY <1>2, <1>4, <1>5, <1>6, <1>7, Zenon DEF AgentInv

\* Applying an answer to the interface keeps the invariant of the agent.
LEMMA ApplyKeeps ==
  ASSUME AgentInv, NEW bad \in SUBSET Key, ApplyWgPeers(bad)
  PROVE  AgentInv'
<1> DEFINE diff == DiffPeers(iface, job.table)
<1>1. Answer(job.table)
  BY DEF AgentInv, ApplyWgPeers, NoJob
<1>2. /\ SetPeers(diff.add \ bad, diff.del \ bad, job.table)
      /\ etag' = {job.table} /\ due' = (due /\ ~job.full) /\ dirty' = (bad # {}) /\ job' = NoJob
      /\ bad = {} \/ faults < MaxFaults
      /\ faults' = IF bad = {} THEN faults ELSE faults + 1
  BY Zenon DEF ApplyWgPeers
<1>3. diff.add \ bad \in SUBSET DOMAIN job.table
  BY Zenon DEF DiffPeers
<1>4. DOMAIN iface' \in SUBSET Key /\ iface' \in [DOMAIN iface' -> 0..(PoolSize - 1)]
  BY <1>1, <1>2, <1>3, ApplyTyped, Zenon DEF AgentInv
<1>5. bad = {} => iface' = job.table
  <2> SUFFICES ASSUME bad = {} PROVE iface' = job.table
    BY Zenon
  <2>1. SetPeers(diff.add, diff.del, job.table)
    <3>1. diff.add \ bad = diff.add /\ diff.del \ bad = diff.del
      BY Zenon
    <3> QED
      BY <1>2, <3>1, Zenon
  <2> QED
    BY <1>1, <2>1, ApplyMakesTable, Zenon
<1>6. EtagTruthful'
  BY <1>2, <1>5, Zenon DEF EtagTruthful
<1>7. job.table \in Some(Key, 1..(PoolSize - 1))
  BY <1>1, SomeDef, Zenon DEF Answer
<1>8. faults' \in 0..MaxFaults
  BY <1>2, WgAssumption DEF AgentInv
<1>9. due' \in BOOLEAN /\ dirty' \in BOOLEAN
  BY <1>2, Zenon
<1>10. \E t \in Some(Key, 1..(PoolSize - 1)) : etag' = {t}
  BY <1>2, <1>7, Zenon
<1>11. job' = NoJob
  BY <1>2, Zenon
<1> HIDE DEF diff
<1> QED
  BY <1>4, <1>6, <1>8, <1>9, <1>10, <1>11, Zenon DEF AgentInv, NoJob

\* Exchanging the addresses of two peers keeps the interface typed.
LEMMA SwapTyped ==
  ASSUME DOMAIN iface \in SUBSET Key, iface \in [DOMAIN iface -> 0..(PoolSize - 1)],
         NEW k \in DOMAIN iface, NEW d \in DOMAIN iface,
         iface' = [iface EXCEPT ![k] = iface[d], ![d] = iface[k]]
  PROVE  DOMAIN iface' \in SUBSET Key /\ iface' \in [DOMAIN iface' -> 0..(PoolSize - 1)]
BY Zenon

\* Every step keeps the invariant of the agent.
LEMMA AgentNextInv == ReqInv /\ AgentInv /\ [Next]_vars => AgentInv'
<1> SUFFICES ASSUME ReqInv, AgentInv, [Next]_vars PROVE AgentInv'
  BY Zenon
<1>1. CASE UNCHANGED agentVars
  BY <1>1, Zenon DEF AgentInv, agentVars, EtagTruthful, Answer, NoJob
<1>2. CASE WgPoll
  <2>1. /\ job' = [pc |-> "answered", table |-> WgPeerTable(table), full |-> due \/ etag = {}]
        /\ UNCHANGED <<iface, etag, due, faults, dirty>>
    BY <1>2, Zenon DEF WgPoll
  <2>2. job'.pc = "answered" /\ job'.table = WgPeerTable(table)
    BY <2>1, Zenon
  <2>3. Answer(job'.table)
    BY <2>2, TableAnswers, Zenon
  <2> QED
    BY <2>1, <2>2, <2>3, Zenon DEF AgentInv, EtagTruthful, Answer
<1>3. CASE \E bad \in SUBSET Key : ApplyWgPeers(bad)
  BY <1>3, ApplyKeeps, Zenon
<1>4. CASE ApplyFails
  <2>1. faults' \in 0..MaxFaults
    BY <1>4, WgAssumption DEF ApplyFails, AgentInv
  <2> QED
    BY <1>4, <2>1, Zenon DEF ApplyFails, AgentInv, EtagTruthful, NoJob
<1>5. CASE FullSyncDue
  BY <1>5, Zenon DEF FullSyncDue, AgentInv, EtagTruthful, Answer, NoJob
<1>6. CASE Restart
  <2>1. faults' \in 0..MaxFaults
    BY <1>6, WgAssumption DEF Restart, AgentInv
  <2> QED
    BY <1>6, <2>1, Zenon DEF Restart, AgentInv, EtagTruthful, NoJob
<1>7. ASSUME NEW to, OutOfBand(to),
             DOMAIN iface' \in SUBSET Key /\ iface' \in [DOMAIN iface' -> 0..(PoolSize - 1)]
      PROVE  AgentInv'
  <2>1. faults' \in 0..MaxFaults
    BY <1>7, WgAssumption DEF OutOfBand, AgentInv
  <2> QED
    BY <1>7, <2>1, Zenon DEF OutOfBand, AgentInv, EtagTruthful, Answer, NoJob
<1>8. CASE OutOfBand(Nobody)
  <2>1. DOMAIN iface' \in SUBSET Key /\ iface' \in [DOMAIN iface' -> 0..(PoolSize - 1)]
    BY <1>8, Zenon DEF OutOfBand, Nobody
  <2> QED
    BY <1>7, <1>8, <2>1, Zenon
<1>9. ASSUME NEW k \in DOMAIN iface, NEW d \in DOMAIN iface,
             OutOfBand([iface EXCEPT ![k] = iface[d], ![d] = iface[k]])
      PROVE  AgentInv'
  <2>1. iface' = [iface EXCEPT ![k] = iface[d], ![d] = iface[k]]
    BY <1>9, Zenon DEF OutOfBand
  <2>2. DOMAIN iface' \in SUBSET Key /\ iface' \in [DOMAIN iface' -> 0..(PoolSize - 1)]
    BY <1>9, <2>1, SwapTyped, Zenon DEF AgentInv
  <2> QED
    BY <1>7, <1>9, <2>2, Zenon
<1>10. CASE \/ \E r \in Req : ReqStep(r) \/ Refused(r) \/ \E a \in Addr, k \in Key : WgNew(r, a, k)
            \/ \E k \in Key : DeleteWgPeer(k)
  <2>1. UNCHANGED agentVars
    BY <1>10, Zenon DEF ReqStep, CountPeers, NextSlot, InsertPeer, CommitPeer, Refused, WgNew, DeleteWgPeer
  <2> QED
    BY <1>1, <2>1, Zenon
<1>11. CASE AgentStep
  BY <1>2, <1>3, <1>4, <1>5, <1>6, <1>8, <1>9, <1>11, Zenon DEF AgentStep
<1>12. CASE UNCHANGED vars
  BY <1>1, <1>12, Zenon DEF vars
<1> QED
  BY <1>10, <1>11, <1>12, Zenon DEF Next

\* Both invariants hold in every reachable state.
LEMMA PeersInvariance == Spec => [](ReqInv /\ AgentInv)
<1>1. Init => ReqInv /\ AgentInv
  BY ReqInit, AgentInit, Zenon
<1>2. ReqInv /\ AgentInv /\ [Next]_vars => ReqInv' /\ AgentInv'
  BY ReqNext, AgentNextInv, Zenon
<1> QED
  BY <1>1, <1>2, PTL DEF Spec

-----------------------------------------------------------------------------
\* The model's types, for every pool and every set of requests.
THEOREM WgPeersTyped == Spec => []TypeOK
<1>1. ReqInv /\ AgentInv => TypeOK
  <2> SUFFICES ASSUME ReqInv, AgentInv PROVE TypeOK
    BY Zenon
  <2>1. DOMAIN table \subseteq Key /\ \A k \in DOMAIN table : table[k].addr \in Addr
    BY Zenon DEF ReqInv, TableTyped
  <2>2. \A r \in Req : req[r].pc \in InTx \cup {"idle", "asked", "full"}
    BY DEF ReqInv, ReqTyped, Idle, Request
  <2>3. iface \in Some(Key, 0..(PoolSize - 1))
    BY SomeDef, Zenon DEF AgentInv
  <2>4. etag \in SUBSET Some(Key, 1..(PoolSize - 1)) /\ Cardinality(etag) <= 1
    <3>1. CASE etag = {}
      BY <3>1, FS_EmptySet
    <3>2. ASSUME NEW t \in Some(Key, 1..(PoolSize - 1)), etag = {t}
          PROVE  etag \in SUBSET Some(Key, 1..(PoolSize - 1)) /\ Cardinality(etag) <= 1
      <4>1. Cardinality({t}) = 1
        BY FS_Singleton, Zenon
      <4> QED
        BY <3>2, <4>1
    <3> QED
      BY <3>1, <3>2, Zenon DEF AgentInv
  <2>5. job.pc \in {"idle", "answered"}
    BY DEF AgentInv, NoJob
  <2> QED
    BY <2>1, <2>2, <2>3, <2>4, <2>5, Zenon DEF TypeOK, AgentInv, ReqInv, ReqTyped
<1> QED
  BY <1>1, PeersInvariance, PTL

\* However the requests for one address interleave, CreateWgPeer never gives it
\* more devices than the cap.
THEOREM CapIsKept == Spec => []CapHolds
<1>1. ReqInv => CapHolds
  BY Zenon DEF ReqInv
<1> QED
  BY <1>1, ReqInvariance, PTL

\* No two devices share an inner address, and none has one of the exit's,
\* although the allocation sequence wraps and aborted requests use numbers up.
THEOREM InnerAddressesDistinct == Spec => []OwnInnerAddress
<1>1. ReqInv => OwnInnerAddress
  <2> SUFFICES ASSUME ReqInv PROVE OwnInnerAddress
    BY Zenon
  <2>1. \A k \in DOMAIN table : table[k].idx \in 2..(PoolSize - 2)
    BY WgAssumption DEF ReqInv, TableTyped, Slots
  <2> QED
    BY <2>1, Zenon DEF OwnInnerAddress, Taken, ReqInv, TableTyped
<1> QED
  BY <1>1, ReqInvariance, PTL

\* A request that nothing crossed is refused for a full pool only when the
\* table holds as many slots as it may try: the sequence gives it a new slot
\* each time until it went round.
THEOREM FullMeansCrowded == Spec => []FullIsCrowded
<1>1. Init => AloneInv
  BY DEF Init, AloneInv, Idle
<1>2. ReqInv /\ AloneInv => FullIsCrowded
  <2> SUFFICES ASSUME ReqInv, AloneInv, NEW r \in Req, At(r, "full"), req[r].alone
               PROVE  Cardinality(Taken(table)) >= IF Attempts < Slots THEN Attempts ELSE Slots
    BY Zenon DEF FullIsCrowded
  <2>1. Tried(seq, Attempts) \in SUBSET Taken(table) /\ seq \in 0..(Slots - 1)
    BY Zenon DEF AloneInv, Alone, At, ReqInv, ReqTyped
  <2>2. IsFiniteSet(Taken(table))
    <3>1. Taken(table) \in SUBSET (2 .. (Slots + 1))
      BY DEF Taken, ReqInv, TableTyped
    <3>2. IsFiniteSet(2 .. (Slots + 1))
      BY SlotsNat, FS_Interval
    <3> QED
      BY <3>1, <3>2, FS_Subset, Zenon
  <2>3. /\ Cardinality(Tried(seq, Attempts)) = IF Attempts < Slots THEN Attempts ELSE Slots
        /\ Cardinality(Tried(seq, Attempts)) <= Cardinality(Taken(table))
    BY <2>1, <2>2, TriedSize, FS_Subset, WgAssumption, Zenon
  <2>4. Cardinality(Taken(table)) \in Nat /\ Attempts \in Nat /\ Slots \in Nat
    BY <2>2, FS_CardinalityType, WgAssumption, SlotsNat, Zenon
  <2> QED
    BY <2>3, <2>4, Zenon
<1> QED
  BY <1>1, <1>2, AloneNext, ReqInvariance, PTL DEF Spec

\* The address locks and the unique indexes never make requests wait in a ring:
\* a transaction that holds a slot does not wait for anything any more.
THEOREM RequestsNeverDeadlock == Spec => []NoDeadlock
<1>1. NoDeadlock
  BY DEF NoDeadlock, WaitsFor, LockedBy, InsertedBy, At, InTx
<1> QED
  BY <1>1, PTL

\* The etag the agent keeps is that of its interface, so that a poll answered
\* with 204 leaves nothing undone, unless a change was skipped or made outside.
THEOREM EtagIsTruthful == Spec => []EtagTruthful
<1>1. ReqInv /\ AgentInv => EtagTruthful
  BY Zenon DEF AgentInv
<1> QED
  BY <1>1, PeersInvariance, PTL
=============================================================================
