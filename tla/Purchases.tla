----------------------------- MODULE Purchases ------------------------------
(***************************************************************************)
(* From a click on "buy" to access (backend/portal.go buy,                 *)
(* backend/store/packages.go, backend/store/payments.go,                   *)
(* backend/payments_handler.go, backend/reconciler.go, backend/sweep.go),  *)
(* for the purchases of one account.                                       *)
(*                                                                         *)
(* Four parties interleave: the request that buys, the payment provider,   *)
(* the webhooks it sends (delayed, repeated, lost, out of order) and, for  *)
(* phoenixd, the reconciler that polls.  Each store operation is a         *)
(* transaction that locks the purchase row, so it is one step.  The        *)
(* recompute that ends it is a transaction of its own and may fail (ok):   *)
(* the caller then reports an error and authz_current stays as it was.     *)
(***************************************************************************)
EXTENDS Integers, FiniteSets

CONSTANTS Purchase,   \* purchases the account may start
          MaxOpen,    \* portal.maxOpenPurchases
          MaxLost     \* bound: webhooks that never arrive

ASSUME PurchaseAssumption == MaxOpen \in Nat \ {0} /\ MaxLost \in Nat

VARIABLES rail,      \* the configured provider
          buy,       \* where the buy request of a purchase is
          status,    \* purchases.status, "none" before the row exists
          invoiced,  \* purchases with btcpay_invoice_id set
          entitled,  \* purchases with a row in entitlements
          lapsed,    \* entitlements past expires_at or used up
          home,      \* is the buyer's address active on this account?
          authz,     \* is it in authz_current for this account?
          invoice,   \* the provider's invoice
          events,    \* webhooks not yet acknowledged
          checked,   \* Settled webhooks past the InvoiceStatus check
          aged,      \* purchases older than the reconciler's ttl
          open,      \* reconciler: what is left of ListOpenLightning
          unpaid,    \* reconciler: the invoice LookupIncoming found unpaid
          lost,      \* history: purchases one of whose webhooks was lost
          late,      \* history: paid when old, or while being looked up
          comped     \* history: granted by the operator or without a rail

buyVars == <<buy, invoiced>>
grantVars == <<entitled, home, authz>>
providerVars == <<invoice, events>>
sweepVars == <<open, unpaid>>
history == <<lost, late, comped>>
vars == <<rail, buyVars, status, grantVars, lapsed, providerVars, checked,
          aged, sweepVars, history>>

Rails == {"btcpay", "phoenixd", "autosettle", "none"}
Open == {"pending", "processing"}
Void == {"invalid", "expired"}
Event == [type : {"Processing", "Settled", "Invalid", "Expired"}, id : Purchase]
OpenPurchases == {p \in Purchase : status[p] \in Open}
NoOne == "none"

TypeOK ==
  /\ rail \in Rails
  /\ buy \in [Purchase -> {"idle", "checked", "created", "invoiced", "done"}]
  /\ status \in [Purchase -> {"none", "settled"} \cup Open \cup Void]
  /\ invoice \in [Purchase -> {"none", "new", "processing", "settled"} \cup Void]
  /\ events \subseteq Event
  /\ unpaid \in Purchase \cup {NoOne}
  /\ invoiced \subseteq Purchase /\ entitled \subseteq Purchase /\ lapsed \subseteq Purchase
  /\ checked \subseteq Purchase /\ aged \subseteq Purchase /\ open \subseteq Purchase
  /\ lost \subseteq Purchase /\ late \subseteq Purchase /\ comped \subseteq Purchase
  /\ home \in BOOLEAN /\ authz \in BOOLEAN

Init ==
  /\ rail \in Rails
  /\ buy = [p \in Purchase |-> "idle"]
  /\ status = [p \in Purchase |-> "none"]
  /\ invoice = [p \in Purchase |-> "none"]
  /\ invoiced = {} /\ entitled = {} /\ lapsed = {} /\ checked = {} /\ aged = {}
  /\ events = {} /\ open = {} /\ unpaid = NoOne
  /\ home = TRUE /\ authz = FALSE
  /\ lost = {} /\ late = {} /\ comped = {}

-----------------------------------------------------------------------------
(* The store                                                               *)

Desired(e, h) == h /\ e \ lapsed # {}

\* The recompute that ends every operation.
Recompute(ok) == authz' = IF ok THEN Desired(entitled', home') ELSE authz

\* grantEntitlementTx: the entitlement is inserted once, and only then is the
\* address brought home.
GrantEntitlementTx(p) ==
  /\ entitled' = entitled \cup {p}
  /\ home' = (home \/ p \notin entitled)
  /\ status' = [status EXCEPT ![p] = "settled"]

\* Mutant of Grant: a repeated settlement is granted and brings home again.
GrantAgain(p, ok) ==
  /\ entitled' = entitled \cup {p}
  /\ home' = TRUE
  /\ status' = [status EXCEPT ![p] = "settled"]
  /\ Recompute(ok)

\* Mutant of Grant: a voided purchase stays void.
GrantUnlessVoid(p, ok) ==
  /\ IF status[p] \in Open THEN GrantEntitlementTx(p)
                           ELSE UNCHANGED <<entitled, home, status>>
  /\ Recompute(ok)

\* SettlePurchase and GrantByInvoice once the purchase is found: settled is
\* terminal, everything else is granted, a voided purchase too.
Grant(p, ok) ==
  /\ IF status[p] = "settled" THEN UNCHANGED <<entitled, home, status>>
                              ELSE GrantEntitlementTx(p)
  /\ Recompute(ok)

\* VoidByInvoice once the purchase is found.
VoidTx(p, as, ok) ==
  /\ IF status[p] = "settled" THEN UNCHANGED <<entitled, status>>
     ELSE /\ entitled' = entitled \ {p}
          /\ status' = [status EXCEPT ![p] = as]
  /\ UNCHANGED home
  /\ Recompute(ok)

\* Mutant of MarkProcessing: it does not ask for a pending purchase.
MarkAnyProcessing(p) == status' = [status EXCEPT ![p] = "processing"]

MarkProcessing(p) ==
  status' = [status EXCEPT ![p] = IF @ = "pending" THEN "processing" ELSE @]

\* An operation by invoice id finds nothing before AttachInvoice.
Nothing == UNCHANGED <<status, grantVars>>

\* runExpirySweep recomputes on a timer.
ExpirySweep ==
  /\ authz # Desired(entitled, home)
  /\ authz' = Desired(entitled, home)
  /\ UNCHANGED <<rail, buyVars, status, entitled, home, lapsed, providerVars, checked, aged,
                 sweepVars, history>>

\* Time or use ends an entitlement.
Lapse(p) ==
  /\ p \in entitled \ lapsed
  /\ lapsed' = lapsed \cup {p}
  /\ UNCHANGED <<rail, buyVars, status, grantVars, providerVars, checked, aged, sweepVars,
                 history>>

\* The buyer accepts an invitation to another account (AcceptInvite).
LeaveHome ==
  /\ home
  /\ home' = FALSE
  /\ UNCHANGED <<rail, buyVars, status, entitled, lapsed, providerVars, checked, aged,
                 sweepVars, history>>
  /\ \E ok \in BOOLEAN : Recompute(ok)

-----------------------------------------------------------------------------
(* buy                                                                     *)

\* CreateAccount, which recomputes, then the cap, which is not applied when
\* OpenPurchases fails.
BuyCheck(p, listed) ==
  /\ buy[p] = "idle"
  /\ listed => Cardinality(OpenPurchases) < MaxOpen
  /\ buy' = [buy EXCEPT ![p] = "checked"]
  /\ authz' = Desired(entitled, home)
  /\ UNCHANGED <<rail, status, invoiced, entitled, home, lapsed, providerVars, checked, aged,
                 sweepVars, history>>

CreatePurchase(p) ==
  /\ buy[p] = "checked"
  /\ status' = [status EXCEPT ![p] = "pending"]
  /\ buy' = [buy EXCEPT ![p] = "created"]
  /\ UNCHANGED <<rail, invoiced, grantVars, lapsed, providerVars, checked, aged,
                 sweepVars, history>>

CreateInvoice(p) ==
  /\ buy[p] = "created" /\ rail \in {"btcpay", "phoenixd"}
  /\ invoice' = [invoice EXCEPT ![p] = "new"]
  /\ buy' = [buy EXCEPT ![p] = "invoiced"]
  /\ UNCHANGED <<rail, status, invoiced, grantVars, lapsed, events, checked, aged,
                 sweepVars, history>>

\* There is no rail, the provider cannot be asked, its answer is lost, or
\* AttachInvoice fails: the purchase stays pending without an invoice.
BuyFails(p) ==
  /\ buy[p] \in {"created", "invoiced"}
  /\ buy' = [buy EXCEPT ![p] = "done"]
  /\ UNCHANGED <<rail, status, invoiced, grantVars, lapsed, providerVars, checked, aged,
                 sweepVars, history>>

AttachInvoice(p) ==
  /\ buy[p] = "invoiced"
  /\ invoiced' = invoiced \cup {p}
  /\ buy' = [buy EXCEPT ![p] = "done"]
  /\ UNCHANGED <<rail, status, grantVars, lapsed, providerVars, checked, aged,
                 sweepVars, history>>

\* PORTAL_DEV_AUTOSETTLE, without a provider.
AutoSettle(p) ==
  /\ buy[p] = "created" /\ rail = "autosettle"
  /\ \E ok \in BOOLEAN : Grant(p, ok)
  /\ buy' = [buy EXCEPT ![p] = "done"]
  /\ comped' = comped \cup {p}
  /\ UNCHANGED <<rail, invoiced, lapsed, providerVars, checked, aged, sweepVars, lost, late>>

\* adminSettle: the operator settles a purchase by its id.
AdminSettle(p) ==
  /\ status[p] # "none"
  /\ \E ok \in BOOLEAN : Grant(p, ok)
  /\ comped' = IF status[p] = "settled" THEN comped ELSE comped \cup {p}
  /\ UNCHANGED <<rail, buyVars, lapsed, providerVars, checked, aged, sweepVars, lost, late>>

-----------------------------------------------------------------------------
(* The provider                                                            *)

\* The provider moves an invoice on and, but for a phoenixd expiry, says so.
Moves(p, to) ==
  /\ invoice' = [invoice EXCEPT ![p] = to]
  /\ events' = events \cup
       {[type |-> t, id |-> p] :
          t \in CASE to = "processing" -> {"Processing"}
                 [] to = "settled"    -> {"Settled"}
                 [] to = "invalid"    -> {"Invalid"}
                 [] to = "expired"    -> IF rail = "btcpay" THEN {"Expired"} ELSE {}}
  /\ UNCHANGED <<rail, buyVars, status, grantVars, lapsed, checked, aged, sweepVars,
                 lost, comped>>

\* The buyer pays what buy, the pay page or a Cashu melt shows them: at once
\* final (Lightning), or first seen (on-chain).
Pay(p) ==
  /\ p \in invoiced /\ invoice[p] = "new"
  /\ \/ Moves(p, "settled")
     \/ rail = "btcpay" /\ Moves(p, "processing")
  /\ late' = IF p \in aged \/ unpaid = p THEN late \cup {p} ELSE late

\* A seen payment is confirmed or fails, an unpaid invoice runs out; an
\* invoice outlives the request that asked for it.
Ends(p) ==
  /\ buy[p] # "invoiced"
  /\ \/ invoice[p] = "processing" /\ \E to \in {"settled", "invalid"} : Moves(p, to)
     \/ invoice[p] = "new" /\ Moves(p, "expired")
  /\ UNCHANGED late

\* BTCPay: a payment of a voided invoice clears after all.
ClearsLate(p) ==
  /\ rail = "btcpay" /\ p \in invoiced
  /\ invoice[p] \in Void
  /\ Moves(p, "settled")
  /\ UNCHANGED late

-----------------------------------------------------------------------------
(* Webhooks.  Without ack the answer does not reach the provider, which    *)
(* sends the event again; a failed recompute is never acknowledged.        *)

Acked(type, p, ack) ==
  /\ [type |-> type, id |-> p] \in events
  /\ events' = IF ack THEN events \ {[type |-> type, id |-> p]} ELSE events

\* Mutant of HookProcessing: access is granted on a payment that is only seen.
HookProcessingGrants(p, ack) ==
  /\ Acked("Processing", p, ack)
  /\ IF p \in invoiced THEN \E ok \in {ack, TRUE} : Grant(p, ok) ELSE Nothing
  /\ UNCHANGED <<rail, buyVars, lapsed, invoice, checked, aged, sweepVars, history>>

HookProcessing(p, ack) ==
  /\ Acked("Processing", p, ack)
  /\ IF p \in invoiced THEN MarkProcessing(p) ELSE UNCHANGED status
  /\ UNCHANGED <<rail, buyVars, grantVars, lapsed, invoice, checked, aged, sweepVars, history>>

HookVoid(p, ack) ==
  /\ \/ /\ Acked("Invalid", p, ack)
        /\ IF p \in invoiced THEN \E ok \in {ack, TRUE} : VoidTx(p, "invalid", ok) ELSE Nothing
     \/ /\ Acked("Expired", p, ack)
        /\ IF p \in invoiced THEN \E ok \in {ack, TRUE} : VoidTx(p, "expired", ok) ELSE Nothing
  /\ UNCHANGED <<rail, buyVars, lapsed, invoice, checked, aged, sweepVars, history>>

\* BTCPay, InvoiceSettled: the invoice is read again ...
HookCheck(p) ==
  /\ rail = "btcpay"
  /\ [type |-> "Settled", id |-> p] \in events
  /\ invoice[p] = "settled" /\ p \notin checked
  /\ checked' = checked \cup {p}
  /\ UNCHANGED <<rail, buyVars, status, grantVars, lapsed, providerVars, aged, sweepVars,
                 history>>

\* ... and granted; phoenixd grants on receipt.
HookSettled(p, ack) ==
  /\ rail = "btcpay" => p \in checked
  /\ Acked("Settled", p, ack)
  /\ IF p \in invoiced THEN \E ok \in {ack, TRUE} : Grant(p, ok) ELSE Nothing
  /\ checked' = checked \ {p}
  /\ UNCHANGED <<rail, buyVars, lapsed, invoice, aged, sweepVars, history>>

\* The request ends between the two; the provider sends the event again.
HookDies(p) ==
  /\ p \in checked
  /\ checked' = checked \ {p}
  /\ UNCHANGED <<rail, buyVars, status, grantVars, lapsed, providerVars, aged, sweepVars,
                 history>>

\* A phoenixd webhook that is missed or does not verify; it is not repeated.
LoseEvent(p) ==
  /\ rail = "phoenixd"
  /\ Cardinality(lost) < MaxLost
  /\ Acked("Settled", p, TRUE)
  /\ lost' = lost \cup {p}
  /\ UNCHANGED <<rail, buyVars, status, grantVars, lapsed, invoice, checked, aged,
                 sweepVars, late, comped>>

-----------------------------------------------------------------------------
(* The phoenixd reconciler                                                 *)

\* A purchase outlives the request that made it by the ttl.
Age(p) ==
  /\ buy[p] = "done" /\ p \notin aged
  /\ aged' = aged \cup {p}
  /\ UNCHANGED <<rail, buyVars, status, grantVars, lapsed, providerVars, checked,
                 sweepVars, history>>

ListOpenLightning ==
  /\ rail = "phoenixd"
  /\ open = {} /\ unpaid = NoOne
  /\ open' = invoiced \cap OpenPurchases
  /\ open' # {}
  /\ UNCHANGED <<rail, buyVars, status, grantVars, lapsed, providerVars, checked, aged,
                 unpaid, history>>

SweepPaid(p) ==
  /\ unpaid = NoOne /\ p \in open
  /\ invoice[p] = "settled"
  /\ \E ok \in BOOLEAN : Grant(p, ok)
  /\ open' = open \ {p}
  /\ UNCHANGED <<rail, buyVars, lapsed, providerVars, checked, aged, unpaid, history>>

SweepUnpaid(p) ==
  /\ unpaid = NoOne /\ p \in open
  /\ invoice[p] # "settled"
  /\ unpaid' = p
  /\ open' = open \ {p}
  /\ UNCHANGED <<rail, buyVars, status, grantVars, lapsed, providerVars, checked, aged,
                 history>>

\* LookupIncoming or the store fails; the next sweep tries again.
SweepFails ==
  /\ \/ unpaid = NoOne /\ \E p \in open : open' = open \ {p} /\ UNCHANGED unpaid
     \/ unpaid # NoOne /\ unpaid' = NoOne /\ UNCHANGED open
  /\ UNCHANGED <<rail, buyVars, status, grantVars, lapsed, providerVars, checked, aged,
                 history>>

\* Mutant of SweepOld: the age is never looked at.
SweepKeeps ==
  /\ unpaid # NoOne
  /\ Nothing
  /\ unpaid' = NoOne
  /\ UNCHANGED <<rail, buyVars, lapsed, providerVars, checked, aged, open, history>>

\* What was found unpaid is voided when it is old by now.
SweepOld ==
  /\ unpaid # NoOne
  /\ IF unpaid \in aged THEN \E ok \in BOOLEAN : VoidTx(unpaid, "expired", ok) ELSE Nothing
  /\ unpaid' = NoOne
  /\ UNCHANGED <<rail, buyVars, lapsed, providerVars, checked, aged, open, history>>

-----------------------------------------------------------------------------
BuyStep(p) ==
  \/ \E listed \in BOOLEAN : BuyCheck(p, listed)
  \/ CreatePurchase(p) \/ CreateInvoice(p) \/ BuyFails(p)
  \/ AttachInvoice(p) \/ AutoSettle(p)

ProviderStep(p) == Pay(p) \/ Ends(p) \/ ClearsLate(p)

HookStep(p) ==
  \/ \E ack \in BOOLEAN : HookProcessing(p, ack) \/ HookVoid(p, ack) \/ HookSettled(p, ack)
  \/ HookCheck(p) \/ HookDies(p) \/ LoseEvent(p)

SweepStep ==
  \/ ListOpenLightning \/ SweepFails \/ SweepOld
  \/ \E p \in Purchase : SweepPaid(p) \/ SweepUnpaid(p)

Next ==
  \/ \E p \in Purchase :
       BuyStep(p) \/ ProviderStep(p) \/ HookStep(p) \/ Age(p) \/ Lapse(p) \/ AdminSettle(p)
  \/ SweepStep \/ ExpirySweep \/ LeaveHome

Spec == Init /\ [][Next]_vars

\* The timers run for as long as the backend does; BTCPay repeats an event
\* until it is acknowledged; no failure lasts for ever; invoices end.
Fairness ==
  /\ WF_vars(ExpirySweep) /\ WF_vars(ListOpenLightning)
  /\ SF_vars(SweepOld)
  /\ \A p \in Purchase :
       /\ WF_vars(Age(p)) /\ WF_vars(Ends(p))
       /\ SF_vars(SweepPaid(p)) /\ SF_vars(SweepUnpaid(p))
       /\ WF_vars(HookProcessing(p, TRUE)) /\ WF_vars(HookVoid(p, TRUE))
       /\ WF_vars(HookCheck(p)) /\ SF_vars(HookSettled(p, TRUE))

FairSpec == Spec /\ Fairness

-----------------------------------------------------------------------------
\* A purchase has its entitlement exactly when it is settled, however the
\* webhooks, the reconciler and the operator overtake one another: grant and
\* void move both, MarkProcessing never leaves a settled purchase behind.
AccessMatchesStatus == \A p \in Purchase : p \in entitled <=> status[p] = "settled"

\* Nothing is granted on a payment the provider has not finalised: not on
\* InvoiceProcessing, not by a sweep that saw an older state.
GrantedOnlyPaid == \A p \in entitled : invoice[p] = "settled" \/ p \in comped

\* GrantByInvoice is final: no late Invalid, Expired or Processing event and no
\* sweep takes back a settled purchase.
SettledIsFinal ==
  [][\A p \in Purchase : status[p] = "settled" => status'[p] = "settled" /\ p \in entitled']_vars

\* The buyer's address moves home only with a new entitlement: a repeated
\* settlement does not undo a choice made in between (grantEntitlementTx).
ChoiceKept == [][~home /\ home' => \E p \in Purchase : p \in entitled' \ entitled]_vars

\* The one way a payment goes unnoticed: its webhook was lost, and it came
\* when the reconciler was about to give the purchase up, or had.
Missed(p) == p \in lost /\ p \in late

\* A final payment unlocks access, through the webhook or the reconciler,
\* unless it is Missed: the purchase is settled and authz_current agrees.
PaidUnlocks ==
  \A p \in Purchase :
    invoice[p] = "settled" ~> (status[p] = "settled" /\ authz = Desired(entitled, home)) \/ Missed(p)

\* A purchase with an invoice does not stay open for ever, where it would
\* count against maxOpenPurchases: it is paid, or expires.
OpenEnds == \A p \in Purchase : p \in invoiced /\ status[p] \in Open ~> status[p] \notin Open
=============================================================================
