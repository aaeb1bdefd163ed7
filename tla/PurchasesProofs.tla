--------------------------- MODULE PurchasesProofs --------------------------
(***************************************************************************)
(* Proofs about Purchases and Cashu, for any set of purchases, tokens,     *)
(* mints and prices, and any bounds.                                       *)
(*                                                                         *)
(* What the properties need beyond themselves is the order of the buy      *)
(* request (BuyInv: no row and no invoice before the step that makes it,   *)
(* and nothing is found by invoice id before the request is done) and that *)
(* a Settled event is only sent about a settled invoice (EventInv).        *)
(*                                                                         *)
(* Paying with ecash adds nothing to what may happen to a purchase, so     *)
(* that all of it holds with ecash too, and a rejected token is still the  *)
(* buyer's.  MeltInv says which token a request may still hand over: told  *)
(* is set only when the request is over, and a token leaves the buyer only *)
(* for a request that is waiting for the mint.                             *)
(***************************************************************************)
EXTENDS Cashu, TLAPS

BuyInv ==
  /\ \A p \in Purchase :
       /\ buy[p] \in {"idle", "checked"} => status[p] = "none"
       /\ buy[p] \in {"idle", "checked", "created"} => invoice[p] = "none"
  /\ \A p \in invoiced \cup open : buy[p] = "done"
  /\ unpaid # NoOne => buy[unpaid] = "done"

EventInv == \A e \in events : e.type = "Settled" => invoice[e.id] = "settled"

IInv == TypeOK /\ BuyInv /\ EventInv /\ AccessMatchesStatus /\ GrantedOnlyPaid

-----------------------------------------------------------------------------
(* The store                                                               *)

\* What a grant leaves behind: this purchase settled and entitled, the others
\* as they were.
LEMMA GrantFacts ==
  ASSUME TypeOK, AccessMatchesStatus, NEW p \in Purchase, NEW ok \in BOOLEAN, Grant(p, ok)
  PROVE  /\ status' = [status EXCEPT ![p] = "settled"]
         /\ entitled' = entitled \cup {p}
         /\ home' \in BOOLEAN /\ authz' \in BOOLEAN
<1>1. CASE status[p] = "settled"
  <2>1. p \in entitled
    BY <1>1, Zenon DEF AccessMatchesStatus
  <2> QED  BY <1>1, <2>1, Zenon DEF Grant, Recompute, Desired, TypeOK
<1>2. CASE status[p] # "settled"
  BY <1>2, Zenon DEF Grant, GrantEntitlementTx, Recompute, Desired, TypeOK
<1> QED  BY <1>1, <1>2, Zenon

\* What a void leaves behind.
LEMMA VoidFacts ==
  ASSUME TypeOK, AccessMatchesStatus, NEW p \in Purchase, NEW as \in Void, NEW ok \in BOOLEAN,
         VoidTx(p, as, ok)
  PROVE  /\ \/ status[p] = "settled" /\ status' = status /\ entitled' = entitled
            \/ /\ status[p] # "settled"
               /\ status' = [status EXCEPT ![p] = as]
               /\ entitled' = entitled
         /\ home' \in BOOLEAN /\ authz' \in BOOLEAN
<1>1. CASE status[p] = "settled"
  BY <1>1, Zenon DEF VoidTx, Recompute, Desired, TypeOK
<1>2. CASE status[p] # "settled"
  <2>1. p \notin entitled
    BY <1>2, Zenon DEF AccessMatchesStatus
  <2> QED  BY <1>2, <2>1, ZenonT(30) DEF VoidTx, Recompute, Desired, TypeOK
<1> QED  BY <1>1, <1>2, Zenon

-----------------------------------------------------------------------------
(* The invariant                                                           *)

\* The inductive invariant holds at first: nothing has been bought.
LEMMA InvInit == Init => IInv
BY Zenon DEF Init, IInv, TypeOK, BuyInv, EventInv, AccessMatchesStatus, GrantedOnlyPaid, Rails,
       Event, Open, Void

\* A grant of a purchase whose row exists keeps the invariant when its invoice
\* is settled, or the operator or the lack of a rail stands in for that.
LEMMA GrantKeeps ==
  ASSUME IInv, NEW p \in Purchase, NEW ok \in BOOLEAN, Grant(p, ok),
         buy[p] \notin {"idle", "checked"},
         UNCHANGED <<rail, buy, invoiced, lapsed, invoice, aged, unpaid, lost, late>>,
         events' \subseteq events, open' \subseteq open, checked' \subseteq checked,
         comped' \in {comped, comped \cup {p}},
         invoice[p] = "settled" \/ p \in comped'
  PROVE  IInv'
<1> USE DEF IInv
<1>1. /\ status' = [status EXCEPT ![p] = "settled"]
      /\ entitled' = entitled \cup {p}
      /\ home' \in BOOLEAN /\ authz' \in BOOLEAN
  BY GrantFacts, Zenon
<1>2. TypeOK'
  BY <1>1, Zenon DEF TypeOK
<1>3. BuyInv'
  BY <1>1, Zenon DEF BuyInv, TypeOK
<1>4. EventInv'
  BY Zenon DEF EventInv
<1>5. AccessMatchesStatus'
  BY <1>1, Zenon DEF AccessMatchesStatus, TypeOK
<1>6. GrantedOnlyPaid'
  BY <1>1, Zenon DEF GrantedOnlyPaid
<1> QED  BY <1>2, <1>3, <1>4, <1>5, <1>6, Zenon

\* A void keeps the invariant.
LEMMA VoidKeeps ==
  ASSUME IInv, NEW p \in Purchase, NEW as \in Void, NEW ok \in BOOLEAN, VoidTx(p, as, ok),
         buy[p] = "done",
         UNCHANGED <<rail, buyVars, lapsed, invoice, checked, aged, open, history>>,
         events' \subseteq events, unpaid' \in {unpaid, NoOne}
  PROVE  IInv'
<1> USE DEF IInv
<1>1. /\ \/ status[p] = "settled" /\ status' = status /\ entitled' = entitled
         \/ /\ status[p] # "settled"
            /\ status' = [status EXCEPT ![p] = as]
            /\ entitled' = entitled
      /\ home' \in BOOLEAN /\ authz' \in BOOLEAN
  BY VoidFacts, Zenon
<1>2. TypeOK'
  BY <1>1, Zenon DEF TypeOK, Void, buyVars, history
<1>3. BuyInv'
  BY <1>1, Zenon DEF BuyInv, TypeOK, buyVars
<1>4. EventInv'
  BY Zenon DEF EventInv
<1>5. AccessMatchesStatus'
  BY <1>1, Zenon DEF AccessMatchesStatus, TypeOK, Void
<1>6. GrantedOnlyPaid'
  BY <1>1, Zenon DEF GrantedOnlyPaid, history
<1> QED  BY <1>2, <1>3, <1>4, <1>5, <1>6, Zenon

\* A step that touches neither the purchases nor the invoices keeps the
\* invariant.
LEMMA FrameKeeps ==
  ASSUME IInv,
         UNCHANGED <<rail, buyVars, status, entitled, invoice, comped>>,
         events' \subseteq events, open' \subseteq invoiced \cup open,
         unpaid' \in open \cup {unpaid, NoOne},
         lapsed' \subseteq Purchase, checked' \subseteq Purchase, aged' \subseteq Purchase,
         lost' \subseteq Purchase, late' \subseteq Purchase,
         home' \in BOOLEAN, authz' \in BOOLEAN
  PROVE  IInv'
<1> USE DEF IInv, buyVars
<1>1. TypeOK'
  BY Zenon DEF TypeOK
<1>2. BuyInv'
  BY Zenon DEF BuyInv
<1> QED  BY <1>1, <1>2, Zenon DEF EventInv, AccessMatchesStatus, GrantedOnlyPaid

\* A settled invoice is not moved again, so what the provider does keeps the
\* invariant.
LEMMA MovesKeeps ==
  ASSUME IInv, NEW p \in Purchase, NEW to \in {"processing", "settled", "invalid", "expired"},
         Moves(p, to), invoice[p] # "settled", buy[p] \in {"invoiced", "done"},
         late' \subseteq Purchase
  PROVE  IInv'
<1> USE DEF IInv
<1>1. /\ invoice' = [invoice EXCEPT ![p] = to]
      /\ UNCHANGED <<rail, buy, invoiced, status, entitled, home, authz, lapsed, checked, aged,
                     open, unpaid, lost, comped>>
  BY Zenon DEF Moves, buyVars, grantVars, sweepVars
<1>2. \A e \in events' \ events :
         e \in Event /\ e.id = p /\ (e.type = "Settled" => to = "settled")
  BY DEF Moves, Event
<1>3. TypeOK'
  BY <1>1, <1>2, Zenon DEF TypeOK, Void
<1>4. BuyInv'
  BY <1>1, Zenon DEF BuyInv, TypeOK
<1>5. EventInv'
  <2> SUFFICES ASSUME NEW e \in events', e.type = "Settled" PROVE invoice'[e.id] = "settled"
    BY Zenon DEF EventInv
  <2>1. CASE e \in events
    BY <2>1, <1>1, Zenon DEF EventInv, TypeOK, Event
  <2>2. CASE e \notin events
    BY <2>2, <1>1, <1>2, Zenon DEF TypeOK
  <2> QED  BY <2>1, <2>2, Zenon
<1>6. AccessMatchesStatus' /\ GrantedOnlyPaid'
  BY <1>1, Zenon DEF AccessMatchesStatus, GrantedOnlyPaid, TypeOK
<1> QED  BY <1>3, <1>4, <1>5, <1>6, Zenon

\* The buy request's own steps keep the invariant.
LEMMA BuyKeeps ==
  ASSUME IInv, NEW p \in Purchase, BuyStep(p)
  PROVE  IInv'
<1> USE DEF IInv
<1>1. CASE \E listed \in BOOLEAN : BuyCheck(p, listed)
  <2>1. /\ buy[p] = "idle" /\ buy' = [buy EXCEPT ![p] = "checked"]
        /\ authz' = Desired(entitled, home)
        /\ UNCHANGED <<rail, status, invoiced, entitled, home, lapsed, invoice, events, checked,
                       aged, open, unpaid, lost, late, comped>>
    BY <1>1, Zenon DEF BuyCheck, providerVars, sweepVars, history
  <2>2. TypeOK'
    BY <2>1, Zenon DEF TypeOK, Desired
  <2>3. BuyInv'
    BY <2>1, Zenon DEF BuyInv, TypeOK
  <2> QED  BY <2>1, <2>2, <2>3, Zenon DEF EventInv, AccessMatchesStatus, GrantedOnlyPaid
<1>2. CASE CreatePurchase(p)
  <2>1. /\ buy[p] = "checked" /\ buy' = [buy EXCEPT ![p] = "created"]
        /\ status' = [status EXCEPT ![p] = "pending"]
        /\ UNCHANGED <<rail, invoiced, entitled, home, authz, lapsed, invoice, events, checked,
                       aged, open, unpaid, lost, late, comped>>
    BY <1>2, Zenon DEF CreatePurchase, grantVars, providerVars, sweepVars, history
  <2>2. TypeOK'
    BY <2>1, Zenon DEF TypeOK, Open
  <2>3. BuyInv'
    BY <2>1, Zenon DEF BuyInv, TypeOK
  <2>4. AccessMatchesStatus'
    BY <2>1, Zenon DEF AccessMatchesStatus, BuyInv, TypeOK
  <2> QED  BY <2>1, <2>2, <2>3, <2>4, Zenon DEF EventInv, GrantedOnlyPaid
<1>3. CASE CreateInvoice(p)
  <2>1. /\ buy[p] = "created" /\ buy' = [buy EXCEPT ![p] = "invoiced"]
        /\ invoice' = [invoice EXCEPT ![p] = "new"]
        /\ UNCHANGED <<rail, status, invoiced, entitled, home, authz, lapsed, events, checked,
                       aged, open, unpaid, lost, late, comped>>
    BY <1>3, Zenon DEF CreateInvoice, grantVars, sweepVars, history
  <2>2. TypeOK'
    BY <2>1, Zenon DEF TypeOK
  <2>3. BuyInv'
    BY <2>1, Zenon DEF BuyInv, TypeOK
  <2>4. invoice[p] = "none"
    BY <2>1, Zenon DEF BuyInv
  <2>5. EventInv' /\ GrantedOnlyPaid'
    BY <2>1, <2>4, Zenon DEF EventInv, GrantedOnlyPaid, TypeOK, Event
  <2> QED  BY <2>1, <2>2, <2>3, <2>5, Zenon DEF AccessMatchesStatus
<1>4. CASE BuyFails(p) \/ AttachInvoice(p)
  <2>1. /\ buy[p] \in {"created", "invoiced"} /\ buy' = [buy EXCEPT ![p] = "done"]
        /\ invoiced' \in {invoiced, invoiced \cup {p}}
        /\ UNCHANGED <<rail, status, entitled, home, authz, lapsed, invoice, events, checked,
                       aged, open, unpaid, lost, late, comped>>
    BY <1>4, Zenon DEF BuyFails, AttachInvoice, grantVars, providerVars, sweepVars, history
  <2>2. TypeOK'
    BY <2>1, Zenon DEF TypeOK
  <2>3. BuyInv'
    BY <2>1, Zenon DEF BuyInv, TypeOK
  <2> QED  BY <2>1, <2>2, <2>3, Zenon DEF EventInv, AccessMatchesStatus, GrantedOnlyPaid
<1>5. CASE AutoSettle(p)
  <2>1. PICK ok \in BOOLEAN : Grant(p, ok)
    BY <1>5, Zenon DEF AutoSettle
  <2>2. /\ buy[p] = "created" /\ buy' = [buy EXCEPT ![p] = "done"]
        /\ comped' = comped \cup {p}
        /\ UNCHANGED <<rail, invoiced, lapsed, invoice, events, checked, aged, open, unpaid,
                       lost, late>>
    BY <1>5, Zenon DEF AutoSettle, providerVars, sweepVars
  <2>3. /\ status' = [status EXCEPT ![p] = "settled"]
        /\ entitled' = entitled \cup {p}
        /\ home' \in BOOLEAN /\ authz' \in BOOLEAN
    BY <2>1, GrantFacts, Zenon
  <2>4. TypeOK'
    BY <2>2, <2>3, Zenon DEF TypeOK
  <2>5. BuyInv'
    BY <2>2, <2>3, Zenon DEF BuyInv, TypeOK
  <2>6. AccessMatchesStatus' /\ GrantedOnlyPaid'
    BY <2>2, <2>3, Zenon DEF AccessMatchesStatus, GrantedOnlyPaid, TypeOK
  <2> QED  BY <2>2, <2>4, <2>5, <2>6, Zenon DEF EventInv
<1> QED  BY <1>1, <1>2, <1>3, <1>4, <1>5, Zenon DEF BuyStep

\* The provider's steps keep the invariant.
LEMMA ProviderKeeps ==
  ASSUME IInv, NEW p \in Purchase, ProviderStep(p)
  PROVE  IInv'
<1>1. CASE Pay(p)
  <2>1. PICK to \in {"processing", "settled"} : Moves(p, to)
    BY <1>1, Zenon DEF Pay
  <2>2. invoice[p] = "new" /\ buy[p] = "done" /\ late' \subseteq Purchase
    BY <1>1, Zenon DEF Pay, IInv, BuyInv, TypeOK
  <2> QED  BY <2>1, <2>2, MovesKeeps, Zenon
<1>2. CASE Ends(p)
  <2>1. PICK to \in {"settled", "invalid", "expired"} : Moves(p, to)
    BY <1>2, Zenon DEF Ends
  <2>2. invoice[p] \in {"processing", "new"} /\ buy[p] # "invoiced" /\ late' \subseteq Purchase
    BY <1>2, Zenon DEF Ends, IInv, TypeOK
  <2>3. buy[p] = "done"
    BY <2>2, Zenon DEF IInv, BuyInv, TypeOK
  <2> QED  BY <2>1, <2>2, <2>3, MovesKeeps, Zenon
<1>3. CASE ClearsLate(p)
  <2>1. Moves(p, "settled") /\ invoice[p] \in Void /\ buy[p] = "done" /\ late' \subseteq Purchase
    BY <1>3, Zenon DEF ClearsLate, IInv, BuyInv, TypeOK
  <2> QED  BY <2>1, MovesKeeps, Zenon DEF Void
<1> QED  BY <1>1, <1>2, <1>3, Zenon DEF ProviderStep

\* The webhook handlers keep the invariant, whatever they find.
LEMMA HookKeeps ==
  ASSUME IInv, NEW p \in Purchase, HookStep(p)
  PROVE  IInv'
<1> USE DEF IInv
<1>1. ASSUME NEW ack \in BOOLEAN, HookProcessing(p, ack)
      PROVE  IInv'
  <2>1. /\ events' \subseteq events
        /\ UNCHANGED <<rail, buy, invoiced, entitled, home, authz, lapsed, invoice, checked,
                       aged, open, unpaid, lost, late, comped>>
    BY <1>1, Zenon DEF HookProcessing, Acked, buyVars, grantVars, sweepVars, history
  <2>2. status' \in {status, [status EXCEPT ![p] =
                               IF status[p] = "pending" THEN "processing" ELSE status[p]]}
    BY <1>1, Zenon DEF HookProcessing, MarkProcessing
  <2>3. TypeOK'
    BY <2>1, <2>2, Zenon DEF TypeOK, Open
  <2>4. BuyInv'
    BY <2>1, <2>2, Zenon DEF BuyInv, TypeOK
  <2>5. AccessMatchesStatus'
    BY <2>1, <2>2, Zenon DEF AccessMatchesStatus, TypeOK
  <2> QED  BY <2>1, <2>3, <2>4, <2>5, Zenon DEF EventInv, GrantedOnlyPaid
<1>2. ASSUME NEW ack \in BOOLEAN, HookVoid(p, ack)
      PROVE  IInv'
  <2>1. /\ events' \subseteq events
        /\ UNCHANGED <<rail, buyVars, lapsed, invoice, checked, aged, open, unpaid, history>>
    BY <1>2, Zenon DEF HookVoid, Acked, sweepVars
  <2>2. CASE p \in invoiced
    <3>1. PICK as \in Void, ok \in BOOLEAN : VoidTx(p, as, ok)
      BY <1>2, <2>2, Zenon DEF HookVoid, Void
    <3>2. buy[p] = "done"
      BY <2>2, Zenon DEF BuyInv
    <3> QED  BY <2>1, <3>1, <3>2, VoidKeeps, Zenon
  <2>3. CASE p \notin invoiced
    <3>1. UNCHANGED <<status, entitled, home, authz>>
      BY <1>2, <2>3, Zenon DEF HookVoid, Nothing, grantVars
    <3> QED  BY <2>1, <3>1, FrameKeeps, Zenon DEF TypeOK, history
  <2> QED  BY <2>2, <2>3, Zenon
<1>3. ASSUME NEW ack \in BOOLEAN, HookSettled(p, ack)
      PROVE  IInv'
  <2>1. /\ events' \subseteq events /\ checked' \subseteq checked
        /\ [type |-> "Settled", id |-> p] \in events
        /\ UNCHANGED <<rail, buyVars, lapsed, invoice, aged, open, unpaid, history>>
    BY <1>3, Zenon DEF HookSettled, Acked, sweepVars
  <2>2. CASE p \in invoiced
    <3>1. PICK ok \in BOOLEAN : Grant(p, ok)
      BY <1>3, <2>2, Zenon DEF HookSettled
    <3>2. buy[p] = "done" /\ invoice[p] = "settled"
      BY <2>1, <2>2, Zenon DEF BuyInv, EventInv
    <3> QED  BY <2>1, <3>1, <3>2, GrantKeeps, Zenon DEF buyVars, history
  <2>3. CASE p \notin invoiced
    <3>1. UNCHANGED <<status, entitled, home, authz>>
      BY <1>3, <2>3, Zenon DEF HookSettled, Nothing, grantVars
    <3> QED  BY <2>1, <3>1, FrameKeeps, Zenon DEF TypeOK, history
  <2> QED  BY <2>2, <2>3, Zenon
<1>4. CASE HookCheck(p) \/ HookDies(p) \/ LoseEvent(p)
  BY <1>4, FrameKeeps, Zenon
     DEF HookCheck, HookDies, LoseEvent, Acked, TypeOK, grantVars, providerVars, sweepVars,
         history
<1> QED  BY <1>1, <1>2, <1>3, <1>4, Zenon DEF HookStep

\* The reconciler keeps the invariant: what it looks at has been attached.
LEMMA SweepKeepsInv ==
  ASSUME IInv, SweepStep
  PROVE  IInv'
<1> USE DEF IInv
<1>1. CASE ListOpenLightning \/ SweepFails
  BY <1>1, FrameKeeps, Zenon
     DEF ListOpenLightning, SweepFails, TypeOK, grantVars, providerVars, sweepVars, history
<1>2. ASSUME NEW p \in Purchase, SweepPaid(p)
      PROVE  IInv'
  <2>1. PICK ok \in BOOLEAN : Grant(p, ok)
    BY <1>2, Zenon DEF SweepPaid
  <2>2. buy[p] = "done" /\ invoice[p] = "settled" /\ open' \subseteq open
    BY <1>2, Zenon DEF SweepPaid, BuyInv
  <2> QED  BY <1>2, <2>1, <2>2, GrantKeeps, Zenon DEF SweepPaid, buyVars, providerVars, history
<1>3. ASSUME NEW p \in Purchase, SweepUnpaid(p)
      PROVE  IInv'
  BY <1>3, FrameKeeps, Zenon DEF SweepUnpaid, TypeOK, grantVars, providerVars, history
<1>4. CASE SweepOld
  <2>1. unpaid # NoOne /\ unpaid' = NoOne
        /\ UNCHANGED <<rail, buyVars, lapsed, invoice, events, checked, aged, open, history>>
    BY <1>4, Zenon DEF SweepOld, providerVars
  <2>2. CASE unpaid \in aged
    <3>1. PICK ok \in BOOLEAN : VoidTx(unpaid, "expired", ok)
      BY <1>4, <2>2, Zenon DEF SweepOld
    <3>2. buy[unpaid] = "done" /\ unpaid \in Purchase /\ "expired" \in Void
      BY <2>1, <2>2, Zenon DEF BuyInv, TypeOK, Void
    <3> QED  BY <2>1, <3>1, <3>2, VoidKeeps, Zenon
  <2>3. CASE unpaid \notin aged
    <3>1. UNCHANGED <<status, entitled, home, authz>>
      BY <1>4, <2>3, Zenon DEF SweepOld, Nothing, grantVars
    <3> QED  BY <2>1, <3>1, FrameKeeps, Zenon DEF TypeOK, history
  <2> QED  BY <2>2, <2>3, Zenon
<1> QED  BY <1>1, <1>2, <1>3, <1>4, Zenon DEF SweepStep

\* Every step keeps the inductive invariant.
LEMMA InvNext == IInv /\ [Next]_vars => IInv'
<1> SUFFICES ASSUME IInv, [Next]_vars PROVE IInv'
  BY Zenon
<1> USE DEF IInv
<1>0. CASE UNCHANGED vars
  BY <1>0, FrameKeeps, Zenon DEF vars, TypeOK, grantVars, providerVars, sweepVars, history
<1>1. ASSUME NEW p \in Purchase, BuyStep(p) \/ ProviderStep(p) \/ HookStep(p)
      PROVE  IInv'
  BY <1>1, BuyKeeps, ProviderKeeps, HookKeeps, Zenon
<1>2. ASSUME NEW p \in Purchase, Age(p) \/ Lapse(p)
      PROVE  IInv'
  BY <1>2, FrameKeeps, Zenon DEF Age, Lapse, TypeOK, grantVars, providerVars, sweepVars, history
<1>3. ASSUME NEW p \in Purchase, AdminSettle(p)
      PROVE  IInv'
  <2>1. PICK ok \in BOOLEAN : Grant(p, ok)
    BY <1>3, Zenon DEF AdminSettle
  <2>2. /\ status[p] # "none"
        /\ comped' = IF status[p] = "settled" THEN comped ELSE comped \cup {p}
        /\ UNCHANGED <<rail, buy, invoiced, lapsed, invoice, events, checked, aged, open, unpaid,
                       lost, late>>
    BY <1>3, Zenon DEF AdminSettle, buyVars, providerVars, sweepVars
  <2>3. buy[p] \notin {"idle", "checked"}
    BY <2>2, Zenon DEF BuyInv
  <2>4. invoice[p] = "settled" \/ p \in comped'
    BY <2>2, Zenon DEF AccessMatchesStatus, GrantedOnlyPaid
  <2> QED  BY <2>1, <2>2, <2>3, <2>4, GrantKeeps, Zenon
<1>4. CASE SweepStep
  BY <1>4, SweepKeepsInv, Zenon
<1>5. CASE ExpirySweep
  BY <1>5, FrameKeeps, Zenon DEF ExpirySweep, Desired, TypeOK, providerVars, sweepVars, history
<1>6. CASE LeaveHome
  BY <1>6, FrameKeeps, Zenon DEF LeaveHome, Recompute, Desired, TypeOK, providerVars, sweepVars, history
<1> QED  BY <1>0, <1>1, <1>2, <1>3, <1>4, <1>5, <1>6, Zenon DEF Next

-----------------------------------------------------------------------------
(* The theorems                                                            *)

\* The inductive invariant holds in every reachable state.
LEMMA Invariance == Spec => []IInv
BY InvInit, InvNext, PTL DEF Spec

\* The model's types, for every set of purchases.
THEOREM PurchasesTyped == Spec => []TypeOK
<1>1. IInv => TypeOK
  BY Zenon DEF IInv
<1> QED  BY <1>1, Invariance, PTL

\* However webhooks, reconciler, operator and buy requests interleave, exactly
\* the settled purchases have an entitlement.
THEOREM EntitledIffSettled == Spec => []AccessMatchesStatus
<1>1. IInv => AccessMatchesStatus
  BY Zenon DEF IInv
<1> QED  BY <1>1, Invariance, PTL

\* No interleaving grants access on a payment that is not final.
THEOREM NoGrantBeforeFinal == Spec => []GrantedOnlyPaid
<1>1. IInv => GrantedOnlyPaid
  BY Zenon DEF IInv
<1> QED  BY <1>1, Invariance, PTL

\* No step of any party takes a settled purchase back.
LEMMA SettledStays ==
  ASSUME IInv, [Next]_vars, NEW q \in Purchase, status[q] = "settled"
  PROVE  status'[q] = "settled"
<1> USE DEF IInv
<1>g. ASSUME NEW p \in Purchase, NEW ok \in BOOLEAN, Grant(p, ok)
      PROVE  status'[q] = "settled"
  BY <1>g, GrantFacts, Zenon DEF TypeOK
<1>v. ASSUME NEW p \in Purchase, NEW as \in Void, NEW ok \in BOOLEAN, VoidTx(p, as, ok)
      PROVE  status'[q] = "settled"
  BY <1>v, VoidFacts, Zenon DEF TypeOK
<1>1. ASSUME NEW p \in Purchase, BuyStep(p)
      PROVE  status'[q] = "settled"
  <2>1. CASE CreatePurchase(p)
    BY <2>1, Zenon DEF CreatePurchase, BuyInv, TypeOK
  <2>2. CASE AutoSettle(p)
    BY <2>2, <1>g, Zenon DEF AutoSettle
  <2>3. CASE (\E listed \in BOOLEAN : BuyCheck(p, listed)) \/ CreateInvoice(p) \/ BuyFails(p)
             \/ AttachInvoice(p)
    BY <2>3, Zenon DEF BuyCheck, CreateInvoice, BuyFails, AttachInvoice
  <2> QED  BY <1>1, <2>1, <2>2, <2>3, Zenon DEF BuyStep
<1>2. ASSUME NEW p \in Purchase, HookStep(p)
      PROVE  status'[q] = "settled"
  <2>1. ASSUME NEW ack \in BOOLEAN, HookProcessing(p, ack)
        PROVE  status'[q] = "settled"
    BY <2>1, Zenon DEF HookProcessing, MarkProcessing, TypeOK
  <2>2. ASSUME NEW ack \in BOOLEAN, HookVoid(p, ack)
        PROVE  status'[q] = "settled"
    <3>1. UNCHANGED status \/ \E as \in Void, ok \in BOOLEAN : VoidTx(p, as, ok)
      BY <2>2, Zenon DEF HookVoid, Nothing, Void
    <3> QED  BY <3>1, <1>v, Zenon
  <2>3. ASSUME NEW ack \in BOOLEAN, HookSettled(p, ack)
        PROVE  status'[q] = "settled"
    BY <2>3, <1>g, Zenon DEF HookSettled, Nothing
  <2>4. CASE HookCheck(p) \/ HookDies(p) \/ LoseEvent(p)
    BY <2>4, Zenon DEF HookCheck, HookDies, LoseEvent
  <2> QED  BY <1>2, <2>1, <2>2, <2>3, <2>4, Zenon DEF HookStep
<1>3. CASE SweepStep
  <2>1. CASE SweepOld
    <3>1. CASE unpaid \in aged
      BY <2>1, <3>1, <1>v, Zenon DEF SweepOld, TypeOK, Void
    <3>2. CASE unpaid \notin aged
      BY <2>1, <3>2, Zenon DEF SweepOld, Nothing
    <3> QED  BY <3>1, <3>2, Zenon
  <2>2. ASSUME NEW p \in Purchase, SweepPaid(p)
        PROVE  status'[q] = "settled"
    BY <2>2, <1>g, Zenon DEF SweepPaid
  <2>3. CASE ListOpenLightning \/ SweepFails \/ \E p \in Purchase : SweepUnpaid(p)
    BY <2>3, Zenon DEF ListOpenLightning, SweepFails, SweepUnpaid
  <2> QED  BY <1>3, <2>1, <2>2, <2>3, Zenon DEF SweepStep
<1>4. ASSUME NEW p \in Purchase, AdminSettle(p)
      PROVE  status'[q] = "settled"
  BY <1>4, <1>g, Zenon DEF AdminSettle
<1>5. ASSUME NEW p \in Purchase, ProviderStep(p) \/ Age(p) \/ Lapse(p)
      PROVE  status'[q] = "settled"
  BY <1>5, Zenon DEF ProviderStep, Pay, Ends, ClearsLate, Moves, Age, Lapse
<1>6. CASE ExpirySweep \/ LeaveHome \/ UNCHANGED vars
  BY <1>6, Zenon DEF ExpirySweep, LeaveHome, vars
<1> QED  BY <1>1, <1>2, <1>3, <1>4, <1>5, <1>6, Zenon DEF Next

\* Once access was granted for a payment, no event, sweep or retry revokes it.
THEOREM SettlementIsFinal == Spec => SettledIsFinal
<1>1. IInv /\ IInv' /\ [Next]_vars =>
        [\A p \in Purchase : status[p] = "settled" => status'[p] = "settled" /\ p \in entitled']_vars
  <2> SUFFICES ASSUME IInv, IInv', [Next]_vars, NEW p \in Purchase, status[p] = "settled"
               PROVE  status'[p] = "settled" /\ p \in entitled'
    BY Zenon
  <2>1. status'[p] = "settled"
    BY SettledStays, Zenon
  <2> QED  BY <2>1, Zenon DEF IInv, AccessMatchesStatus
<1> QED  BY <1>1, Invariance, PTL DEF Spec, SettledIsFinal

\* No retry, redelivery or operator call overrides the account the buyer chose
\* after a purchase was granted.
THEOREM ChoiceSurvives == Spec => ChoiceKept
<1>1. [Next]_vars => [~home /\ home' => \E p \in Purchase : p \in entitled' \ entitled]_vars
  <2> SUFFICES ASSUME Next, ~home, home'
               PROVE  \E p \in Purchase : p \in entitled' \ entitled
    BY Zenon DEF vars, grantVars
  <2>g. ASSUME NEW p \in Purchase, NEW ok \in BOOLEAN, Grant(p, ok)
        PROVE  p \in entitled' \ entitled
    BY <2>g, Zenon DEF Grant, GrantEntitlementTx
  <2>1. ASSUME NEW p \in Purchase, BuyStep(p) \/ AdminSettle(p)
        PROVE  \E r \in Purchase : r \in entitled' \ entitled
    BY <2>1, <2>g, Zenon DEF BuyStep, BuyCheck, CreatePurchase, CreateInvoice, BuyFails, AttachInvoice,
                      AutoSettle, AdminSettle, grantVars
  <2>2. ASSUME NEW p \in Purchase, HookStep(p)
        PROVE  \E r \in Purchase : r \in entitled' \ entitled
    BY <2>2, <2>g, Zenon DEF HookStep, HookProcessing, HookVoid, HookSettled, HookCheck, HookDies,
                      LoseEvent, VoidTx, Nothing, grantVars
  <2>3. CASE SweepStep
    BY <2>3, <2>g, Zenon DEF SweepStep, ListOpenLightning, SweepPaid, SweepUnpaid, SweepFails, SweepOld,
                      VoidTx, Nothing, grantVars
  <2>4. ASSUME NEW p \in Purchase, ProviderStep(p) \/ Age(p) \/ Lapse(p)
        PROVE  FALSE
    BY <2>4, Zenon DEF ProviderStep, Pay, Ends, ClearsLate, Moves, Age, Lapse, grantVars
  <2>5. CASE ExpirySweep \/ LeaveHome
    BY <2>5, Zenon DEF ExpirySweep, LeaveHome
  <2> QED  BY <2>1, <2>2, <2>3, <2>4, <2>5, Zenon DEF Next
<1> QED  BY <1>1, PTL DEF Spec, ChoiceKept

-----------------------------------------------------------------------------
(* Ecash                                                                   *)

MeltInv ==
  /\ MeltTypeOK
  /\ \A m \in Token : melt[m].pc # "done" => melt[m].told = "nothing"
  /\ \A m \in Token : melt[m].pc \in {"quote", "melt", "wait"} \/ proofs[m] = "pending" =>
                        melt[m].for \in Purchase
  /\ RejectedKept

\* The melt invariant holds before the first token is offered.
LEMMA MeltInitInv == MeltInit => MeltInv
BY DEF MeltInit, MeltInv, MeltTypeOK, NoRequest, RejectedKept

\* A step of one request leaves the others alone.
LEMMA RequestKeeps ==
  ASSUME MeltInv, NEW m \in Token,
         NEW new \in [pc : {"idle", "quote", "melt", "wait", "done"},
                      told : {"nothing", "ok", "settled", "rejected"},
                      need : {0} \cup {Price + r : r \in Reserves}, for : Purchase \cup {NoOne}],
         NEW at \in {"held", "pending", "spent"},
         melt' = [melt EXCEPT ![m] = new], proofs' = [proofs EXCEPT ![m] = at],
         cut' \in {cut, cut \cup {m}},
         at # "held" => new.pc \in {"wait", "done"},
         new.pc # "done" => new.told = "nothing",
         new.pc \in {"quote", "melt", "wait"} \/ at = "pending" => new.for \in Purchase,
         new.told = "rejected" => at = "held" \/ m \in cut'
  PROVE  MeltInv'
<1>1. \A n \in Token : /\ melt'[n] = IF n = m THEN new ELSE melt[n]
                       /\ proofs'[n] = IF n = m THEN at ELSE proofs[n]
  BY Zenon DEF MeltInv, MeltTypeOK
<1>2. MeltTypeOK'
  <2>1. melt' \in [Token -> [pc : {"idle", "quote", "melt", "wait", "done"},
                             told : {"nothing", "ok", "settled", "rejected"},
                             need : {0} \cup {Price + r : r \in Reserves}, for : Purchase \cup {NoOne}]]
    BY Zenon DEF MeltInv, MeltTypeOK
  <2>2. proofs' \in [Token -> {"held", "pending", "spent"}] /\ cut' \subseteq Token
    BY Zenon DEF MeltInv, MeltTypeOK
  <2> QED
    BY <1>1, <2>1, <2>2 DEF MeltInv, MeltTypeOK
<1>3. RejectedKept'
  BY <1>1 DEF MeltInv, RejectedKept
<1> QED
  BY <1>1, <1>2, <1>3 DEF MeltInv

\* Every step of a melt keeps the melt invariant.
LEMMA MeltStepKeeps ==
  ASSUME MeltInv, NEW m \in Token, MeltStep(m)
  PROVE  MeltInv'
<1> DEFINE Requests == [pc : {"idle", "quote", "melt", "wait", "done"},
                        told : {"nothing", "ok", "settled", "rejected"},
                        need : {0} \cup {Price + r : r \in Reserves}, for : Purchase \cup {NoOne}]
<1>t. /\ melt \in [Token -> Requests] /\ melt[m] \in Requests
      /\ proofs \in [Token -> {"held", "pending", "spent"}] /\ proofs[m] \in {"held", "pending", "spent"}
      /\ proofs[m] # "held" => melt[m].pc \in {"wait", "done"}
      /\ melt[m].pc # "done" => melt[m].told = "nothing"
      /\ melt[m].pc \in {"quote", "melt", "wait"} \/ proofs[m] = "pending" => melt[m].for \in Purchase
      /\ melt[m].told = "rejected" => proofs[m] = "held" \/ m \in cut
  BY Zenon DEF MeltInv, MeltTypeOK, RejectedKept
<1>s. /\ proofs = [proofs EXCEPT ![m] = proofs[m]]
      /\ melt = [melt EXCEPT ![m] = melt[m]]
  BY <1>t, Zenon
\* What Told makes of the request.
<1>d. ASSUME NEW told \in {"ok", "settled", "rejected"}, Told(m, told), UNCHANGED proofs,
             cut' \in {cut, cut \cup {m}}, told = "rejected" => proofs[m] = "held" \/ m \in cut'
      PROVE  MeltInv'
  <2> DEFINE new == [melt[m] EXCEPT !.pc = "done", !.told = told]
  <2>1. new \in Requests /\ new.pc = "done" /\ new.told = told /\ new.for = melt[m].for
    BY <1>t, Zenon
  <2>2. melt' = [melt EXCEPT ![m] = new]
    BY <1>d, Zenon DEF Told
  <2> HIDE DEF new
  <2> QED
    BY <1>d, <1>s, <1>t, <2>1, <2>2, RequestKeeps, Zenon
<1>1. ASSUME NEW p \in Purchase, Present(m, p) PROVE MeltInv'
  <2>1. CASE Told(m, "settled")
    BY <1>1, <1>d, <2>1, Zenon DEF Present
  <2>2. CASE Told(m, "rejected")
    BY <1>1, <1>d, <1>t, <2>2, Zenon DEF Present, At
  <2>3. CASE melt' = [melt EXCEPT ![m] = [pc |-> "quote", told |-> "nothing", need |-> 0, for |-> p]]
    <3> DEFINE new == [pc |-> "quote", told |-> "nothing", need |-> 0, for |-> p]
    <3>1. new \in Requests /\ new.pc = "quote" /\ new.told = "nothing" /\ new.for = p
      BY Zenon
    <3>2. proofs[m] = "held" /\ UNCHANGED <<proofs, cut>>
      BY <1>1, <1>t, Zenon DEF Present, At
    <3>3. melt' = [melt EXCEPT ![m] = new]
      BY <2>3, Zenon
    <3> HIDE DEF new
    <3> QED
      BY <1>s, <3>1, <3>2, <3>3, RequestKeeps, Zenon
  <2> QED
    BY <1>1, <2>1, <2>2, <2>3, Zenon DEF Present
<1>2. CASE MeltQuote(m)
  <2>1. PICK r \in Reserves :
          melt' = [melt EXCEPT ![m].need = Price + r,
                               ![m].pc = IF Value[m] < Price + r THEN "done" ELSE "melt",
                               ![m].told = IF Value[m] < Price + r THEN "rejected" ELSE "nothing"]
    BY <1>2, Zenon DEF MeltQuote
  <2> DEFINE new == [melt[m] EXCEPT !.need = Price + r,
                                    !.pc = IF Value[m] < Price + r THEN "done" ELSE "melt",
                                    !.told = IF Value[m] < Price + r THEN "rejected" ELSE "nothing"]
  <2>2. /\ new \in Requests /\ new.for = melt[m].for
        /\ new.pc \in {"done", "melt"} /\ (new.pc = "melt" => new.told = "nothing")
    BY <1>t, Zenon
  <2>3. proofs[m] = "held" /\ melt[m].for \in Purchase /\ UNCHANGED <<proofs, cut>>
    BY <1>2, <1>t, Zenon DEF MeltQuote, At
  <2>4. melt' = [melt EXCEPT ![m] = new]
    BY <1>t, <2>1, Zenon
  <2> HIDE DEF new
  <2> QED
    BY <1>s, <2>2, <2>3, <2>4, RequestKeeps, Zenon
<1>3. CASE HandOver(m)
  <2> DEFINE new == [melt[m] EXCEPT !.pc = "wait", !.need = 0]
  <2>1. new \in Requests /\ new.pc = "wait" /\ new.for = melt[m].for /\ new.told = melt[m].told
    BY <1>t, Zenon
  <2>2. /\ melt[m].for \in Purchase /\ melt[m].told = "nothing"
        /\ proofs' = [proofs EXCEPT ![m] = "pending"] /\ cut' = cut
    BY <1>3, <1>t, Zenon DEF HandOver, At
  <2>3. melt' = [melt EXCEPT ![m] = new]
    BY <1>3, <1>t, Zenon DEF HandOver
  <2> HIDE DEF new
  <2> QED
    BY <2>1, <2>2, <2>3, RequestKeeps, Zenon
<1>4. CASE MintPays(m) \/ MintGivesBack(m)
  <2>1. PICK at \in {"spent", "held"} : proofs' = [proofs EXCEPT ![m] = at]
    BY <1>4, Zenon DEF MintPays, MintGivesBack
  <2>2. UNCHANGED <<melt, cut>> /\ proofs[m] = "pending"
    BY <1>4, Zenon DEF MintPays, MintGivesBack
  <2> QED
    BY <1>s, <1>t, <2>1, <2>2, RequestKeeps, ZenonT(30)
<1>5. CASE MeltAnswer(m)
  <2>1. CASE proofs[m] = "held"
    BY <1>5, <1>d, <2>1, Zenon DEF MeltAnswer
  <2>2. CASE proofs[m] # "held"
    BY <1>5, <1>d, <2>2, Zenon DEF MeltAnswer
  <2> QED
    BY <2>1, <2>2, Zenon
<1>6. CASE MeltLost(m)
  BY <1>6, <1>d, <1>t, Zenon DEF MeltLost, At
<1>7. CASE Retry(m)
  <2>1. NoRequest \in Requests /\ NoRequest.pc = "idle" /\ NoRequest.told = "nothing"
    BY Zenon DEF NoRequest
  <2>2. proofs[m] = "held" /\ UNCHANGED <<proofs, cut>> /\ melt' = [melt EXCEPT ![m] = NoRequest]
    BY <1>7, Zenon DEF Retry
  <2> QED
    BY <1>s, <2>1, <2>2, RequestKeeps, Zenon
<1> QED
  BY <1>1, <1>2, <1>3, <1>4, <1>5, <1>6, <1>7, Zenon DEF MeltStep

\* Only the mint's payment touches the purchase, and it is a payment like any.
LEMMA MeltStepIsNext ==
  ASSUME MeltInv, NEW m \in Token, MeltStep(m)
  PROVE  [Next]_vars
<1>1. CASE MintPays(m)
  <2>1. Pay(melt[m].for) /\ melt[m].for \in Purchase
    BY <1>1, Zenon DEF MintPays, MeltInv
  <2> QED
    BY <2>1, Zenon DEF Next, ProviderStep
<1>2. CASE ~MintPays(m)
  BY <1>2, Zenon DEF MeltStep, Present, MeltQuote, HandOver, MintGivesBack, MeltAnswer, MeltLost, Retry
<1> QED
  BY <1>1, <1>2, Zenon

\* A step of the melt protocol keeps its invariant and is a step of
\* Purchases, or leaves the variables of Purchases alone.
LEMMA MeltNext == MeltInv /\ [CashuNext]_cashuVars => MeltInv' /\ [Next]_vars
<1> SUFFICES ASSUME MeltInv, [CashuNext]_cashuVars PROVE MeltInv' /\ [Next]_vars
  BY Zenon
<1>1. CASE UNCHANGED meltVars /\ [Next]_vars
  BY <1>1, Zenon DEF meltVars, MeltInv, MeltTypeOK, RejectedKept
<1>2. CASE \E m \in Token : MeltStep(m)
  BY <1>2, MeltStepKeeps, MeltStepIsNext, Zenon
<1> QED
  BY <1>1, <1>2, Zenon DEF CashuNext, cashuVars

\* The melt invariant holds in every reachable state.
LEMMA MeltInvariance == CashuSpec => []MeltInv
BY MeltInitInv, MeltNext, PTL DEF CashuSpec, CashuInit

-----------------------------------------------------------------------------
\* Paying with ecash is one more way to pay: whatever payCashu, the wallet and
\* the mint do, the purchases behave as Purchases says.
THEOREM CashuImplementsPurchases == CashuSpec => Spec
BY MeltInvariance, MeltNext, PTL DEF CashuSpec, CashuInit, Spec

\* The types, and: a token leaves the buyer only for a request to the mint.
THEOREM MeltTyped == CashuSpec => []MeltTypeOK
<1>1. MeltInv => MeltTypeOK
  BY Zenon DEF MeltInv
<1> QED
  BY <1>1, MeltInvariance, PTL

\* A buyer told that the token was rejected has it still, unless the mint's
\* answer was lost.
THEOREM RejectedTokensKept == CashuSpec => []RejectedKept
<1>1. MeltInv => RejectedKept
  BY Zenon DEF MeltInv
<1> QED
  BY <1>1, MeltInvariance, PTL

\* The headroom MeltAmount adds covers every reserve of up to 1%, rounded up,
\* at every price.
THEOREM HeadroomCovers == CashuSpec => []SizedTokenCovers
<1>1. MeltInv => SizedTokenCovers
  <2> SUFFICES ASSUME MeltInv, NEW m \in Token, Value[m] >= MeltAmount(Price), melt[m].need > Value[m]
               PROVE  (melt[m].need - Price - 1) * 100 >= Price
    BY Zenon DEF SizedTokenCovers
  <2>1. Value[m] \in Nat /\ Price \in Nat /\ melt[m].need \in Nat
    <3>1. Value[m] \in Nat /\ Price \in Nat /\ \A r \in Reserves : Price + r \in Nat
      BY CashuAssumption
    <3>2. melt[m].need \in {0} \cup {Price + r : r \in Reserves}
      BY Zenon DEF MeltInv, MeltTypeOK
    <3> QED
      BY <3>1, <3>2
  <2>2. ((Price + 99) \div 100) * 100 >= Price /\ (Price + 99) \div 100 \in Nat
    BY <2>1
  <2> DEFINE c == (Price + 99) \div 100
  <2>3. c \in Nat /\ c * 100 >= Price /\ melt[m].need > Price + c
    BY <2>1, <2>2 DEF MeltAmount
  <2> HIDE DEF c
  <2> QED
    BY <2>1, <2>3
<1> QED
  BY <1>1, MeltInvariance, PTL

\* The safety of purchases with ecash: typed, entitled if and only if settled,
\* settled only by a final payment or the operator, and for good; and a choice
\* made after paying is not undone.
THEOREM PurchasesSafe ==
  CashuSpec => /\ [](TypeOK /\ AccessMatchesStatus /\ GrantedOnlyPaid)
               /\ SettledIsFinal /\ ChoiceKept
<1>1. IInv => TypeOK /\ AccessMatchesStatus /\ GrantedOnlyPaid
  BY Zenon DEF IInv
<1> QED
  BY <1>1, CashuImplementsPurchases, Invariance, SettlementIsFinal, ChoiceSurvives, PTL
=============================================================================
