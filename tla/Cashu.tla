------------------------------- MODULE Cashu --------------------------------
(***************************************************************************)
(* Paying a purchase with ecash (backend/payments/cashu.go,                *)
(* backend/portal.go payPage, payCashu and cashuReceive), with the         *)
(* purchases of Purchases.                                                 *)
(*                                                                         *)
(* The handler does not grant anything: it hands the buyer's proofs to     *)
(* their mint, which pays the purchase's Lightning invoice, and the grant  *)
(* follows from phoenixd's receipt as for any payment.  What can go wrong  *)
(* is between the buyer, the handler and the mint: an answer that is late, *)
(* lost or not final, two tokens for one invoice.                          *)
(***************************************************************************)
EXTENDS Purchases

CONSTANTS Token,     \* tokens buyers may present
          Value,     \* what each is worth, in sat
          Accepted,  \* those of an accepted mint
          Price,     \* the invoices' amount, in sat
          Reserves   \* fee reserves a mint may quote, in sat

ASSUME CashuAssumption ==
  /\ Value \in [Token -> Nat] /\ Accepted \subseteq Token
  /\ Price \in Nat /\ Reserves \subseteq Nat

VARIABLES melt,    \* the request that presents a token
          proofs,  \* the token at its mint: "held" by the buyer, "pending", "spent"
          cut      \* history: tokens whose melt was asked for and not answered

meltVars == <<melt, proofs, cut>>
cashuVars == <<vars, meltVars>>

\* FeeHeadroomPercent of an amount on top, rounded up.
MeltAmount(sat) == sat + (sat + 99) \div 100

NoRequest == [pc |-> "idle", told |-> "nothing", need |-> 0, for |-> NoOne]

MeltTypeOK ==
  /\ melt \in [Token -> [pc : {"idle", "quote", "melt", "wait", "done"},
                        told : {"nothing", "ok", "settled", "rejected"},
                        need : {0} \cup {Price + r : r \in Reserves}, for : Purchase \cup {NoOne}]]
  /\ proofs \in [Token -> {"held", "pending", "spent"}] /\ cut \subseteq Token
  /\ \A m \in Token : proofs[m] # "held" => melt[m].pc \in {"wait", "done"}

MeltInit ==
  /\ melt = [m \in Token |-> NoRequest]
  /\ proofs = [m \in Token |-> "held"]
  /\ cut = {}

-----------------------------------------------------------------------------
At(m, pc) == melt[m].pc = pc
Told(m, told) == melt' = [melt EXCEPT ![m].pc = "done", ![m].told = told]

\* payCashu, cashuReceive: nothing is left to pay, there is no Lightning
\* invoice, or the mint is not accepted.  (Only phoenixd makes such invoices:
\* with another rail every token is rejected here.)
Present(m, p) ==
  /\ At(m, "idle") /\ status[p] # "none" /\ rail = "phoenixd"
  /\ \/ status[p] = "settled" /\ Told(m, "settled")
     \/ status[p] # "settled" /\ ~(p \in invoiced /\ m \in Accepted) /\ Told(m, "rejected")
     \/ /\ status[p] # "settled" /\ p \in invoiced /\ m \in Accepted
        /\ melt' = [melt EXCEPT ![m] = [pc |-> "quote", told |-> "nothing", need |-> 0, for |-> p]]
  /\ UNCHANGED <<vars, proofs, cut>>

\* MeltProofs: the quote tells what the proofs must cover.
MeltQuote(m) ==
  /\ At(m, "quote")
  /\ \E r \in Reserves :
       melt' = [melt EXCEPT ![m].need = Price + r,
                            ![m].pc = IF Value[m] < Price + r THEN "done" ELSE "melt",
                            ![m].told = IF Value[m] < Price + r THEN "rejected" ELSE "nothing"]
  /\ UNCHANGED <<vars, proofs, cut>>

\* The mint takes the proofs ...
HandOver(m) ==
  /\ At(m, "melt")
  /\ melt' = [melt EXCEPT ![m].pc = "wait", ![m].need = 0]
  /\ proofs' = [proofs EXCEPT ![m] = "pending"]
  /\ UNCHANGED <<vars, cut>>

\* ... and pays the invoice with them, or gives them back.
MintPays(m) ==
  /\ proofs[m] = "pending"
  /\ Pay(melt[m].for)
  /\ proofs' = [proofs EXCEPT ![m] = "spent"]
  /\ UNCHANGED <<melt, cut>>

MintGivesBack(m) ==
  /\ proofs[m] = "pending"
  /\ proofs' = [proofs EXCEPT ![m] = "held"]
  /\ UNCHANGED <<vars, melt, cut>>

\* Mutant of MeltAnswer: only PAID counts.
MeltAnswerPaid(m) ==
  /\ At(m, "wait")
  /\ Told(m, IF proofs[m] = "spent" THEN "ok" ELSE "rejected")
  /\ UNCHANGED <<vars, proofs, cut>>

\* The mint's answer: all but UNPAID counts as on its way.
MeltAnswer(m) ==
  /\ At(m, "wait")
  /\ Told(m, IF proofs[m] = "held" THEN "rejected" ELSE "ok")
  /\ UNCHANGED <<vars, proofs, cut>>

\* A request to the mint fails or times out.
MeltLost(m) ==
  /\ melt[m].pc \in {"quote", "melt", "wait"}
  /\ Told(m, "rejected")
  /\ cut' = IF At(m, "wait") THEN cut \cup {m} ELSE cut
  /\ UNCHANGED <<vars, proofs>>

\* A wallet that was refused may present the token again while it has it.
Retry(m) ==
  /\ At(m, "done") /\ melt[m].told = "rejected" /\ proofs[m] = "held"
  /\ melt' = [melt EXCEPT ![m] = NoRequest]
  /\ UNCHANGED <<vars, proofs, cut>>

-----------------------------------------------------------------------------
MeltStep(m) ==
  \/ \E p \in Purchase : Present(m, p)
  \/ MeltQuote(m) \/ HandOver(m) \/ MintPays(m) \/ MintGivesBack(m)
  \/ MeltAnswer(m) \/ MeltLost(m) \/ Retry(m)

CashuNext == (Next /\ UNCHANGED meltVars) \/ \E m \in Token : MeltStep(m)

CashuInit == Init /\ MeltInit

CashuSpec == CashuInit /\ [][CashuNext]_cashuVars

\* That of Purchases: nothing is assumed of buyers and mints.
CashuFairSpec == CashuSpec /\ Fairness

-----------------------------------------------------------------------------
\* A buyer who is told that their token was rejected still has it, unless the
\* mint's answer did not arrive; also when another payment reached the
\* invoice first, or the mint had not finished (PENDING).
RejectedKept == \A m \in Token : melt[m].told = "rejected" => proofs[m] = "held" \/ m \in cut

\* A token of the size the pay page asks for is too small only for a mint that
\* reserves more than the headroom, 1% rounded up.
SizedTokenCovers ==
  \A m \in Token :
    Value[m] >= MeltAmount(Price) /\ melt[m].need > Value[m] => (melt[m].need - Price - 1) * 100 >= Price
=============================================================================
