------------------------------ MODULE Whitelist -----------------------------
(***************************************************************************)
(* To which account one address belongs (backend/store/whitelist.go,       *)
(* backend/store/admin.go): its own account, or a host that invited it.    *)
(*                                                                         *)
(* Requests run concurrently as READ COMMITTED transactions.  A statement  *)
(* sees what was committed when it started, plus its own transaction's     *)
(* writes; a row that another transaction has written or locked makes it   *)
(* wait, and is then looked at again.  The partial unique index            *)
(* whitelist_active_addr lets one row of the address be active: a second   *)
(* one waits for a transaction that is changing the first, and fails when  *)
(* it is still there.  Rows of different addresses do not meet, so one     *)
(* address is enough; RecomputeAuthz, which follows every operation, is in *)
(* AuthzLog and RecomputeTx.                                               *)
(***************************************************************************)
CONSTANTS Host,  \* accounts of others that may invite the address
          Own,   \* the address's own account
          Tx     \* requests in flight

ASSUME WhitelistAssumption == Own \notin Host

VARIABLES row,      \* whitelist_entries of the address, as committed
          pc,       \* the next statement of each request
          at,       \* the account it is about
          written,  \* the rows it has written, not yet committed
          locked,   \* the rows it has locked
          saw,      \* what its present statement saw
          consent,  \* history: hosts agreed to since the address last chose its own account
          missed    \* history: CreateAccount parked the row for one just gone

Account == Host \cup {Own}
txVars == <<pc, at, written, locked, saw>>
history == <<consent, missed>>
whitelistVars == <<row, txVars, history>>

NoRow == [exists |-> FALSE, enabled |-> FALSE, pending |-> FALSE]
Rows == {NoRow} \cup [exists : {TRUE}, enabled : BOOLEAN, pending : BOOLEAN]
Row(enabled, pending) == [exists |-> TRUE, enabled |-> enabled, pending |-> pending]
Active(r) == r.enabled /\ ~r.pending

RowsTypeOK ==
  /\ row \in [Account -> Rows]
  /\ pc \in [Tx -> {"idle", "park", "parking", "activate", "disable", "orphan", "reown",
                    "enable", "create"}]
  /\ at \in [Tx -> Account]
  /\ written \in [Tx -> SUBSET Account]
  /\ locked \in [Tx -> SUBSET Account]
  /\ saw \in [Tx -> SUBSET Account]
  /\ consent \subseteq Host
  /\ missed \in BOOLEAN

WhitelistInit ==
  /\ row = [a \in Account |-> NoRow]
  /\ pc = [t \in Tx |-> "idle"]
  /\ at = [t \in Tx |-> Own]
  /\ written = [t \in Tx |-> {}]
  /\ locked = [t \in Tx |-> {}]
  /\ saw = [t \in Tx |-> {}]
  /\ consent = {}
  /\ missed = FALSE

-----------------------------------------------------------------------------
(* The database                                                            *)

\* Every uncommitted write of this code disables a row.
Seen(t) == [a \in Account |-> IF a \in written[t] THEN [row[a] EXCEPT !.enabled = FALSE] ELSE row[a]]
ActiveIn(rows) == {a \in Account : Active(rows[a])}

Free(t, a) == \A u \in Tx \ {t} : a \notin locked[u]

\* Row a may become active: nobody is changing another active row, ...
MayCheck(t, a) ==
  \A u \in Tx \ {t} : \A b \in written[u] \ {a} : ~Active(row[b])

\* ... and there is none.
Unique(t, a) == ActiveIn(Seen(t)) \subseteq {a}

EndTx(t) ==
  /\ pc' = [pc EXCEPT ![t] = "idle"]
  /\ at' = [at EXCEPT ![t] = Own]
  /\ written' = [written EXCEPT ![t] = {}]
  /\ locked' = [locked EXCEPT ![t] = {}]
  /\ saw' = [saw EXCEPT ![t] = {}]

\* Commit with row a as given and the transaction's other writes.
Commit(t, a, r) ==
  /\ row' = [Seen(t) EXCEPT ![a] = r]
  /\ EndTx(t)

\* The statement makes row a active, or fails on the index; the request then
\* rolls back.
CommitActive(t, a, r) ==
  /\ MayCheck(t, a)
  /\ IF Unique(t, a) THEN Commit(t, a, r) ELSE EndTx(t) /\ UNCHANGED row

\* An error, a cancelled request or a broken deadlock: rollback.
Abort(t) ==
  /\ pc[t] # "idle"
  /\ EndTx(t)
  /\ UNCHANGED <<row, history>>

\* Statement t is done and the next one is due.
Goto(t, label) == pc' = [pc EXCEPT ![t] = label]

-----------------------------------------------------------------------------
(* One-statement operations                                                *)

\* Mutant of InviteGuest: rows as they were before invitations needed consent.
InviteAttaches(t, h) ==
  /\ pc[t] = "idle" /\ Free(t, h)
  /\ CommitActive(t, h, Row(TRUE, FALSE))
  /\ UNCHANGED history

\* InviteGuest: a new or parked row becomes pending, an active one stays.
InviteGuest(t, h) ==
  /\ pc[t] = "idle" /\ Free(t, h)
  /\ Commit(t, h, Row(TRUE, ~Active(row[h])))
  /\ UNCHANGED history

\* WithdrawInvite, DeclineInvite, and SetWhitelistEnabled(false) of a pending row.
DeletePending(t, h) ==
  /\ pc[t] = "idle" /\ Free(t, h)
  /\ row[h].pending
  /\ Commit(t, h, NoRow)
  /\ UNCHANGED history

\* AddWhitelist, the operator's: accepted at once, or ErrAddressInUse.
AddWhitelist(t, h) ==
  /\ pc[t] = "idle" /\ Free(t, h)
  /\ CommitActive(t, h, Row(TRUE, FALSE))
  /\ consent' = IF Active(row'[h]) THEN consent \cup {h} ELSE consent
  /\ UNCHANGED missed

-----------------------------------------------------------------------------
(* AcceptInvite and ActivateOwner                                          *)

\* SELECT ... FOR UPDATE of the invitation; the host has a package.
AcceptInvite(t, h) ==
  /\ pc[t] = "idle" /\ Free(t, h)
  /\ row[h].pending /\ row[h].enabled
  /\ locked' = [locked EXCEPT ![t] = {h}]
  /\ at' = [at EXCEPT ![t] = h]
  /\ Goto(t, "park")
  /\ UNCHANGED <<row, written, saw, history>>

\* activateOwnerTx, from the dashboard or in the transaction of a grant.
ActivateOwner(t) ==
  /\ pc[t] = "idle" /\ Free(t, Own)
  /\ row[Own].exists
  /\ locked' = [locked EXCEPT ![t] = {Own}]
  /\ at' = [at EXCEPT ![t] = Own]
  /\ Goto(t, "park")
  /\ UNCHANGED <<row, written, saw, history>>

\* activateRowTx, first statement: it starts ...
ParkSees(t) ==
  /\ pc[t] = "park"
  /\ saw' = [saw EXCEPT ![t] = ActiveIn(row) \ {at[t]}]
  /\ Goto(t, "parking")
  /\ UNCHANGED <<row, at, written, locked, history>>

\* ... and parks what it saw and is still active.
Parks(t) ==
  /\ pc[t] = "parking"
  /\ \A a \in saw[t] : Free(t, a)
  /\ LET parked == saw[t] \cap ActiveIn(row)
     IN  /\ written' = [written EXCEPT ![t] = parked]
         /\ locked' = [locked EXCEPT ![t] = @ \cup parked]
  /\ Goto(t, "activate")
  /\ UNCHANGED <<row, at, saw, history>>

\* Second statement, and commit.
Activates(t) ==
  /\ pc[t] = "activate"
  /\ CommitActive(t, at[t], Row(TRUE, FALSE))
  /\ IF Active(row'[at[t]]) THEN /\ consent' = IF at[t] = Own THEN {} ELSE consent \cup {at[t]}
                                 /\ missed' = FALSE
                            ELSE UNCHANGED history

-----------------------------------------------------------------------------
(* SetWhitelistEnabled(false), the row not being a pending guest row       *)

DisableStarts(t, a) ==
  /\ pc[t] = "idle"
  /\ a \in Host => ~row[a].pending
  /\ at' = [at EXCEPT ![t] = a]
  /\ Goto(t, "disable")
  /\ UNCHANGED <<row, written, locked, saw, history>>

\* UPDATE ... SET enabled = false, whatever the row is by now.
Disables(t) ==
  /\ pc[t] = "disable" /\ Free(t, at[t])
  /\ IF row[at[t]].exists
     THEN /\ written' = [written EXCEPT ![t] = {at[t]}]
          /\ locked' = [locked EXCEPT ![t] = {at[t]}]
          /\ Goto(t, "orphan")
          /\ UNCHANGED <<at, saw>>
     ELSE EndTx(t)
  /\ UNCHANGED <<row, history>>

\* Mutant of IfOrphan: the address is left without an active row.
NoFallback(t) ==
  /\ pc[t] = "orphan"
  /\ row' = Seen(t) /\ EndTx(t)
  /\ UNCHANGED history

\* reactivateOwnerIfOrphanTx: is another row active, ...
IfOrphan(t) ==
  /\ pc[t] = "orphan"
  /\ IF ActiveIn(Seen(t)) # {} THEN row' = Seen(t) /\ EndTx(t)
                               ELSE Goto(t, "reown") /\ UNCHANGED <<row, at, written, locked, saw>>
  /\ UNCHANGED history

\* ... and if not, the owner row is, where there is one.
Reowns(t) ==
  /\ pc[t] = "reown"
  /\ IF row[Own].exists
     THEN Free(t, Own) /\ CommitActive(t, Own, Row(TRUE, FALSE))
     ELSE row' = Seen(t) /\ EndTx(t)
  /\ UNCHANGED history

-----------------------------------------------------------------------------
(* SetWhitelistEnabled(true) and CreateAccount: one statement each, with a *)
(* subquery that sees the state it started in.                             *)

Sees(t, a, label) ==
  /\ pc[t] = "idle"
  /\ at' = [at EXCEPT ![t] = a]
  /\ saw' = [saw EXCEPT ![t] = ActiveIn(row) \ {a}]
  /\ Goto(t, label)
  /\ UNCHANGED <<row, written, locked, history>>

\* A parked guest row whose address was active elsewhere becomes pending.
EnabledRow(a, elsewhere) ==
  Row(TRUE, IF a # Own /\ ~row[a].enabled /\ elsewhere THEN TRUE ELSE row[a].pending)

Enables(t) ==
  /\ pc[t] = "enable" /\ Free(t, at[t])
  /\ LET r == EnabledRow(at[t], saw[t] # {})
     IN  IF ~row[at[t]].exists THEN EndTx(t) /\ UNCHANGED row
         ELSE IF Active(r) THEN CommitActive(t, at[t], r)
         ELSE Commit(t, at[t], r)
  /\ UNCHANGED history

\* The owner row is inserted enabled unless the address was active elsewhere.
Creates(t) ==
  /\ pc[t] = "create" /\ Free(t, Own)
  /\ IF row[Own].exists THEN EndTx(t) /\ UNCHANGED <<row, missed>>
     ELSE IF saw[t] = {} THEN CommitActive(t, Own, Row(TRUE, FALSE)) /\ UNCHANGED missed
     ELSE Commit(t, Own, Row(FALSE, FALSE)) /\ missed' = (ActiveIn(row) = {})
  /\ UNCHANGED consent

-----------------------------------------------------------------------------
WhitelistNext ==
  \E t \in Tx :
    \/ \E h \in Host :
         InviteGuest(t, h) \/ DeletePending(t, h) \/ AddWhitelist(t, h) \/ AcceptInvite(t, h)
    \/ ActivateOwner(t) \/ ParkSees(t) \/ Parks(t) \/ Activates(t)
    \/ \E a \in Account : DisableStarts(t, a) \/ Sees(t, a, "enable")
    \/ Disables(t) \/ IfOrphan(t) \/ Reowns(t)
    \/ Sees(t, Own, "create") \/ Enables(t) \/ Creates(t)
    \/ Abort(t)

WhitelistSpec == WhitelistInit /\ [][WhitelistNext]_whitelistVars

-----------------------------------------------------------------------------
\* "An address is attributed to at most ONE account at a time": no race of
\* accepts, activations, fallbacks and new accounts makes two rows active.
OneAccount == \A a, b \in ActiveIn(row) : a = b

\* A host's row is active only if the address agreed to that host (or support
\* added it), and has not gone back to its own account since: neither a
\* repeated invitation nor a toggle of the host attaches it.
AttachedByConsent == ActiveIn(row) \cap Host \subseteq consent

\* Whoever has an account is never left without an active row: hosts, support
\* and races may move the address, but it falls back to its own account.  The
\* exception is a CreateAccount that parks the new owner row for a guest row
\* disabled under it.
NeverStranded == row[Own].exists /\ ~missed => ActiveIn(row) # {}
=============================================================================
