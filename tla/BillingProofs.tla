---------------------------- MODULE BillingProofs ---------------------------
(***************************************************************************)
(* Billing for any accounts, entitlements, reports and number of requests  *)
(* in flight.                                                              *)
(*                                                                         *)
(* A report is booked once because a transaction holds an id that is not   *)
(* in the ledger, and alone, and it is charged exactly because each        *)
(* transaction keeps its own books (Charged): what it took from the        *)
(* entitlements of an account, and what is left to take for the sample at  *)
(* hand, is the weight of the rows it recorded.  Row locks keep two        *)
(* transactions from taking from one entitlement (Apart), so what one      *)
(* commits leaves the books of the others true.                            *)
(***************************************************************************)
EXTENDS Billing, SumsProofs

Row == [report : Report, n : Nat, account : Account \cup {None},
        service : Service \cup {None}, bytes : Nat]

Job == [pc : {"idle", "asked", "tx", "committed", "answer"}, report : Report \cup {None},
        services : SUBSET Service, had : SUBSET Ent, gone : SUBSET Ent, n : Nat, left : Nat,
        rows : SUBSET Row, take : [Ent -> Nat], short : SUBSET Account]

Typed ==
  /\ ents \in SUBSET Ent /\ expired \in SUBSET Ent /\ used \in [Ent -> Nat]
  /\ catalog \in SUBSET Service
  /\ authz \in SUBSET Account /\ recent \in SUBSET Account
  /\ ledger \in SUBSET Report /\ raw \in SUBSET Row /\ daily \in [Account -> Nat]
  /\ job \in [Ingest -> Job]
  /\ fold \in [cutoff : SUBSET Report, rows : SUBSET raw]
  /\ old \in SUBSET Report /\ acked \in SUBSET Report
  /\ booked \in [Report -> Nat] /\ late \in SUBSET Report
  /\ owed \in [Account -> Nat] /\ metered \in [Account -> Nat] /\ short \in SUBSET Account

EntsOf(a) == {e \in Ent : Owner[e] = a}

\* What a transaction has still to draw for the sample at hand.
Due(j, a) == IF j.left > 0 /\ Payer(j) = a THEN j.left ELSE 0

\* The books of one transaction: the rows it recorded are those of its
\* report's samples so far, and what it took pays for them.
Charged(j) ==
  /\ IsFiniteSet(j.rows) /\ \A s \in j.rows : s.report = j.report /\ s.n \in 1 .. j.n
  /\ j.left > 0 => Payer(j) \in Account
  /\ \A a \in Account \ j.short : SumOver(j.take, EntsOf(a)) + Due(j, a) = Charge(j.rows, a)
  /\ \A e \in Ent : j.take[e] > 0 => used[e] + j.take[e] <= Volume[e]

\* Volume is taken in the order of expiry.
Drained(j, e) == used[e] + j.take[e] >= Volume[e]

InOrder(j) ==
  /\ j.had \in SUBSET ents
  /\ \A m, n \in DOMAIN Expiry :
       /\ m < n /\ Owner[Expiry[m]] = Owner[Expiry[n]] /\ Expiry[m] \in j.had \ j.gone
       /\ j.take[Expiry[n]] > 0
       => Drained(j, Expiry[m])
  /\ \A e \in j.had \ j.gone : Owner[e] \in j.short => Drained(j, e)

\* Two transactions share neither a report nor an entitlement.
Apart(j, k) == j.report # k.report /\ \A e \in Ent : j.take[e] = 0 \/ k.take[e] = 0

\* What may be said of request p when its state is j.
Fits(p, j) ==
  /\ j \in Job /\ InOrder(j)
  /\ j.pc = "idle" <=> j.report = None
  /\ j.pc \in {"committed", "answer"} => booked[j.report] >= 1
  /\ IF j.pc = "tx"
     THEN /\ j.report \in Report \ ledger /\ Charged(j)
          /\ \A q \in Ingest \ {p} : InTx(q) => Apart(j, job[q])
     ELSE j.n = 0 /\ j.left = 0 /\ j.rows = {} /\ j.take = [e \in Ent |-> 0] /\ j.short = {}

\* What was booked is in the ledger until retention drops it.
Ledger ==
  /\ \A r \in ledger \cup acked : booked[r] >= 1
  /\ \A r \in Report : booked[r] <= 1 \/ r \in late
  /\ \A r \in Report : booked[r] >= 1 /\ r \notin ledger =>
       r \in late \/ (r \in acked /\ \A p \in Ingest : job[p].report # r)

Books ==
  /\ \A e \in Ent : used[e] <= Volume[e]
  /\ \A a \in Account : a \notin short => UsedBy(a) = owed[a]

Totals ==
  /\ IsFiniteSet(raw) /\ \A s \in raw : s.report \in ledger
  /\ TotalsKept

BillingInv == Typed /\ Ledger /\ Books /\ Totals /\ \A p \in Ingest : Fits(p, job[p])

-----------------------------------------------------------------------------
(* Sums over rows and entitlements                                         *)

\* There are finitely many entitlements, and so finitely many of one account.
LEMMA EntsFinite == IsFiniteSet(Ent) /\ \A a : IsFiniteSet(EntsOf(a)) /\ EntsOf(a) \in SUBSET Ent
<1>0. /\ Expiry \in [1 .. Len(Expiry) -> Ent] /\ Len(Expiry) \in Nat
      /\ DOMAIN Expiry = 1 .. Len(Expiry)
  BY BillingAssumption
<1>1. Expiry \in Surjection(1 .. Len(Expiry), Ent)
  <2>1. \A e \in Ent : \E n \in 1 .. Len(Expiry) : Expiry[n] = e
    BY <1>0, Zenon DEF Ent
  <2> QED
    BY <1>0, <2>1, Zenon DEF Surjection
<1>2. IsFiniteSet(Ent)
  BY <1>0, <1>1, FS_Interval, FS_Surjection
<1>3. \A a : EntsOf(a) \in SUBSET Ent
  BY Zenon DEF EntsOf
<1> QED
  BY <1>2, <1>3, FS_Subset, Zenon

\* The weighted volume of a sample, and its clamped form, are naturals.
LEMMA WeightedNat ==
  ASSUME NEW b \in Nat, NEW rate \in Nat
  PROVE  Weighted(b, rate) \in Nat /\ Clamp(b) \in Nat
<1>1. Million \in Nat \ {0} /\ MaxSample \in Nat
  BY BillingAssumption, Zenon
<1>2. b \div Million \in Nat /\ b % Million \in Nat
  BY <1>1
<1>3. (b \div Million) * rate \in Nat /\ (b % Million) * rate \in Nat
  BY <1>2
<1>4. ((b % Million) * rate) \div Million \in Nat
  BY <1>1, <1>3
<1> QED
  BY <1>1, <1>3, <1>4 DEF Weighted, Clamp

\* The bytes and the weight of a row.
BytesAt == [s \in Row |-> s.bytes]
WeightAt == [s \in Row |-> Weighted(s.bytes, Rate[s.service])]

\* The rows of one account are finitely many and their bytes add up to a natural.
LEMMA RowsOfFinite ==
  ASSUME NEW rows \in SUBSET Row, IsFiniteSet(rows), NEW a \in Account
  PROVE  /\ RowsOf(rows, a) \in SUBSET rows /\ IsFiniteSet(RowsOf(rows, a))
         /\ \A s \in RowsOf(rows, a) : s \in Row /\ BytesAt[s] \in Nat /\ WeightAt[s] \in Nat
         /\ Bytes(rows, a) = SumOver(BytesAt, RowsOf(rows, a)) /\ Bytes(rows, a) \in Nat
         /\ Charge(rows, a) = SumOver(WeightAt, RowsOf(rows, a)) /\ Charge(rows, a) \in Nat
<1>1. RowsOf(rows, a) \in SUBSET rows /\ IsFiniteSet(RowsOf(rows, a))
  BY FS_Subset, Zenon DEF RowsOf
<1>2. ASSUME NEW s \in RowsOf(rows, a)
      PROVE  s \in Row /\ BytesAt[s] = s.bytes /\ WeightAt[s] = Weighted(s.bytes, Rate[s.service])
             /\ BytesAt[s] \in Nat /\ WeightAt[s] \in Nat
  <2>1. s \in Row /\ s.service # None
    BY <1>1, Zenon DEF RowsOf
  <2>2. s.bytes \in Nat /\ s.service \in Service
    BY <2>1, Zenon DEF Row
  <2>3. Rate[s.service] \in Nat
    BY <2>2, BillingAssumption, Zenon
  <2>4. Weighted(s.bytes, Rate[s.service]) \in Nat
    BY <2>2, <2>3, WeightedNat, Zenon
  <2> QED
    BY <2>1, <2>2, <2>4, Zenon DEF BytesAt, WeightAt
<1> DEFINE R == RowsOf(rows, a)
           f == [s \in R |-> s.bytes]
           g == [s \in R |-> Weighted(s.bytes, Rate[s.service])]
<1>3. \A s \in R : f[s] = BytesAt[s] /\ g[s] = WeightAt[s]
  BY <1>2, Zenon
<1>4. Bytes(rows, a) = SumOver(f, R) /\ Charge(rows, a) = SumOver(g, R)
  BY Zenon DEF Bytes, Charge
<1> HIDE DEF f, g, R
<1>5. SumOver(f, R) = SumOver(BytesAt, R) /\ SumOver(g, R) = SumOver(WeightAt, R)
  BY <1>1, <1>3, SumSame, Zenon DEF R
<1>6. SumOver(BytesAt, R) \in Nat /\ SumOver(WeightAt, R) \in Nat
  BY <1>1, <1>2, SumNat, Zenon DEF R
<1> QED
  BY <1>1, <1>2, <1>4, <1>5, <1>6, Zenon DEF R

\* The bytes of disjoint sets of rows add up.
LEMMA BytesUnion ==
  ASSUME NEW S \in SUBSET Row, NEW T \in SUBSET Row, IsFiniteSet(S), IsFiniteSet(T), S \cap T = {},
         NEW a \in Account
  PROVE  Bytes(S \cup T, a) = Bytes(S, a) + Bytes(T, a)
<1>1. S \cup T \in SUBSET Row /\ IsFiniteSet(S \cup T)
  BY FS_Union, Zenon
<1>2. RowsOf(S \cup T, a) = RowsOf(S, a) \cup RowsOf(T, a) /\ RowsOf(S, a) \cap RowsOf(T, a) = {}
  BY Zenon DEF RowsOf
<1>3. /\ IsFiniteSet(RowsOf(S, a)) /\ IsFiniteSet(RowsOf(T, a))
      /\ \A s \in RowsOf(S, a) \cup RowsOf(T, a) : BytesAt[s] \in Nat
      /\ Bytes(S, a) = SumOver(BytesAt, RowsOf(S, a)) /\ Bytes(T, a) = SumOver(BytesAt, RowsOf(T, a))
      /\ Bytes(S \cup T, a) = SumOver(BytesAt, RowsOf(S \cup T, a))
  BY <1>1, RowsOfFinite, Zenon
<1> QED
  BY <1>2, <1>3, SumUnion

\* Bytes are additive: a part of the rows and the rest sum to the whole.
LEMMA BytesSplit ==
  ASSUME NEW S \in SUBSET Row, IsFiniteSet(S), NEW T \in SUBSET S, NEW a \in Account
  PROVE  Bytes(S, a) = Bytes(T, a) + Bytes(S \ T, a)
<1>1. IsFiniteSet(T) /\ IsFiniteSet(S \ T) /\ T \cup (S \ T) = S /\ T \cap (S \ T) = {}
  BY FS_Subset, Zenon
<1> QED
  BY <1>1, BytesUnion

\* A new row adds its weight to the charge of its account, if it can be
\* charged at all.
LEMMA ChargeInsert ==
  ASSUME NEW S \in SUBSET Row, IsFiniteSet(S), NEW s \in Row, s \notin S, NEW a \in Account
  PROVE  Charge(S \cup {s}, a) = Charge(S, a) + (IF s.account = a /\ s.service # None
                                                 THEN Weighted(s.bytes, Rate[s.service]) ELSE 0)
<1>1. S \cup {s} \in SUBSET Row /\ IsFiniteSet(S \cup {s})
  BY FS_AddElement, Zenon
<1>2. CASE s.account = a /\ s.service # None
  <2>1. RowsOf(S \cup {s}, a) = RowsOf(S, a) \cup {s} /\ s \notin RowsOf(S, a)
    BY <1>2, Zenon DEF RowsOf
  <2>2. WeightAt[s] = Weighted(s.bytes, Rate[s.service])
    BY Zenon DEF WeightAt
  <2>3. SumOver(WeightAt, RowsOf(S, a) \cup {s}) = WeightAt[s] + SumOver(WeightAt, RowsOf(S, a))
    <3>1. IsFiniteSet(RowsOf(S, a)) /\ \A x \in RowsOf(S, a) \cup {s} : WeightAt[x] \in Nat
      BY <1>1, <2>1, RowsOfFinite, Zenon
    <3> QED
      BY <2>1, <3>1, SumInsert, Zenon
  <2>4. WeightAt[s] \in Nat /\ SumOver(WeightAt, RowsOf(S, a)) \in Nat
    BY <1>1, <2>1, RowsOfFinite, Zenon
  <2> QED
    <3>1. /\ Charge(S, a) = SumOver(WeightAt, RowsOf(S, a))
          /\ Charge(S \cup {s}, a) = SumOver(WeightAt, RowsOf(S \cup {s}, a))
      BY <1>1, RowsOfFinite, Zenon
    <3>2. SumOver(WeightAt, RowsOf(S \cup {s}, a)) = WeightAt[s] + SumOver(WeightAt, RowsOf(S, a))
      BY <2>1, <2>3, Zenon
    <3>3. Charge(S \cup {s}, a) = Charge(S, a) + WeightAt[s]
      BY <2>4, <3>1, <3>2
    <3> QED
      BY <1>2, <2>2, <3>3, Zenon
<1>3. CASE ~(s.account = a /\ s.service # None)
  <2>1. RowsOf(S \cup {s}, a) = RowsOf(S, a)
    BY <1>3, Zenon DEF RowsOf
  <2> QED
    BY <1>1, <1>3, <2>1, RowsOfFinite
<1> QED
  BY <1>2, <1>3, Zenon

\* The first index of a set of them.
LEMMA EarliestIs ==
  ASSUME NEW I \in SUBSET DOMAIN Expiry, I # {}
  PROVE  Min(I) \in I /\ \A n \in I : Min(I) <= n
<1>1. Len(Expiry) \in Nat /\ I \in SUBSET (0 .. Len(Expiry))
  BY BillingAssumption
<1>2. \E m \in I : \A n \in I : m <= n
  BY <1>1, LeastNumber, Zenon
<1> QED
  BY <1>2, Zenon DEF Min

\* Min of two naturals, as a case distinction.
LEMMA LesserIs ==
  ASSUME NEW m \in Nat, NEW n \in Nat
  PROVE  Min({m, n}) = IF m <= n THEN m ELSE n
BY DEF Min

-----------------------------------------------------------------------------
(* Steps of one request that leave the store alone                         *)

\* The type of every field of a request under way.
LEMMA JobFields ==
  ASSUME NEW j \in Job
  PROVE  /\ j.pc \in {"idle", "asked", "tx", "committed", "answer"} /\ j.report \in Report \cup {None}
         /\ j.services \in SUBSET Service /\ j.had \in SUBSET Ent /\ j.gone \in SUBSET Ent
         /\ j.n \in Nat /\ j.left \in Nat /\ j.rows \in SUBSET Row /\ j.take \in [Ent -> Nat]
         /\ j.short \in SUBSET Account
BY Zenon DEF Job

\* Becomes(p, new) changes the record of p and of nobody else.
LEMMA BecomesAt ==
  ASSUME job \in [Ingest -> Job], NEW p \in Ingest, NEW new, Becomes(p, new)
  PROVE  /\ job'[p] = new /\ \A q \in Ingest \ {p} : job'[q] = job[q]
         /\ new \in Job => job' \in [Ingest -> Job]
BY Zenon DEF Becomes

\* A request may take any state that fits, if its report is the one it had,
\* none, or one whose exit waits for an answer.
LEMMA LocalStep ==
  ASSUME BillingInv, NEW p \in Ingest, NEW new, Becomes(p, new), Fits(p, new),
         new.report \in {None, job[p].report} \cup (Report \ acked),
         UNCHANGED <<ents, expired, used, catalog, ledger, raw, daily, fold, old,
                     booked, late, owed, metered, short>>,
         authz' \in SUBSET Account, recent' \in SUBSET Account,
         acked' \in SUBSET Report, acked \subseteq acked', \A r \in acked' : booked[r] >= 1
  PROVE  BillingInv'
<1>1. /\ job \in [Ingest -> Job] /\ new \in Job
  BY Zenon DEF BillingInv, Typed, Fits
<1>2. job'[p] = new /\ (\A q \in Ingest \ {p} : job'[q] = job[q]) /\ job' \in [Ingest -> Job]
  BY <1>1, BecomesAt, Zenon
<1>3. Typed'
  BY <1>2, Zenon DEF BillingInv, Typed
<1>4. Ledger'
  <2>1. (\A r \in ledger \cup acked : booked[r] >= 1)' /\ (\A r \in Report : booked[r] <= 1 \/ r \in late)'
    BY Zenon DEF BillingInv, Ledger
  <2>2. ASSUME NEW r \in Report, booked[r] >= 1, r \notin ledger, r \notin late
        PROVE  r \in acked' /\ \A q \in Ingest : job'[q].report # r
    <3>1. r \in acked /\ \A q \in Ingest : job[q].report # r
      BY <2>2, Zenon DEF BillingInv, Ledger
    <3>2. new.report # r
      BY <3>1, BillingAssumption, Zenon
    <3> QED
      BY <1>2, <3>1, <3>2, Zenon
  <2> QED
    BY <2>1, <2>2, Zenon DEF Ledger
<1>5. Books' /\ Totals'
  BY Zenon DEF BillingInv, Books, Totals, UsedBy, TotalsKept
<1>6. ASSUME NEW q \in Ingest PROVE Fits(q, job[q])'
  <2>1. ASSUME NEW j PROVE InOrder(j)' <=> InOrder(j)
    BY Zenon DEF InOrder, Drained
  <2>2. ASSUME NEW j PROVE Charged(j)' <=> Charged(j)
    BY Zenon DEF Charged
  <2>3. CASE q = p
    <3>1. \A k \in Ingest \ {p} : InTx(k)' => InTx(k) /\ job'[k] = job[k]
      BY <1>2, Zenon DEF InTx
    <3>2. InOrder(new)' /\ (Charged(new) => Charged(new)')
      BY <2>1, <2>2, Zenon DEF Fits
    <3>3. Fits(p, new)'
      BY <3>1, <3>2, Zenon DEF Fits
    <3> QED
      BY <1>2, <2>3, <3>3, Zenon
  <2>4. CASE q # p
    <3>1. Fits(q, job[q]) /\ job'[q] = job[q] /\ job[q] \in Job
      BY <1>1, <1>2, <2>4, Zenon DEF BillingInv
    <3>2. ASSUME NEW k \in Ingest \ {q}, InTx(k)', job[q].pc = "tx" PROVE Apart(job[q], job'[k])
      <4>1. CASE k = p
        <5>1. Apart(new, job[q])
          BY <1>2, <2>4, <3>2, <4>1, Zenon DEF Fits, InTx
        <5> QED
          BY <1>2, <4>1, <5>1, Zenon DEF Apart
      <4>2. CASE k # p
        BY <1>2, <3>1, <3>2, <4>2, Zenon DEF Fits, InTx
      <4> QED
        BY <4>1, <4>2, Zenon
    <3>3. PICK j : j = job[q]
      BY Zenon
    <3>4. InOrder(j)' /\ (Charged(j) => Charged(j)')
      BY <2>1, <2>2, <3>1, <3>3, Zenon DEF Fits
    <3>5. Fits(q, j)'
      BY <3>1, <3>2, <3>3, <3>4, Zenon DEF Fits
    <3> QED
      BY <3>1, <3>3, <3>5, Zenon
  <2> QED
    BY <2>3, <2>4, Zenon
<1> QED
  BY <1>3, <1>4, <1>5, <1>6, Zenon DEF BillingInv

\* A request without a transaction of its own.
LEMMA PlainFits ==
  ASSUME BillingInv, NEW p \in Ingest, NEW j \in Job, j.pc # "tx", j.pc = "idle" <=> j.report = None,
         j.pc \in {"answer", "committed"} => booked[j.report] >= 1, j.had \in SUBSET ents,
         j.n = 0, j.left = 0, j.rows = {}, j.take = [e \in Ent |-> 0], j.short = {}
  PROVE  Fits(p, j)
<1>1. \A n \in DOMAIN Expiry : j.take[Expiry[n]] = 0
  BY BillingAssumption, Zenon DEF Ent
<1>2. InOrder(j)
  BY <1>1 DEF InOrder
<1> QED
  BY <1>2, Zenon DEF Fits

\* The fields of an idle request.
LEMMA IdleIs ==
  /\ Idle \in Job
  /\ Idle.pc = "idle" /\ Idle.report = None /\ Idle.services = {} /\ Idle.had = {} /\ Idle.gone = {}
  /\ Idle.n = 0 /\ Idle.left = 0 /\ Idle.rows = {} /\ Idle.take = [e \in Ent |-> 0] /\ Idle.short = {}
<1>1. [e \in Ent |-> 0] \in [Ent -> Nat]
  BY Zenon
<1> QED
  BY <1>1, Zenon DEF Idle, Job

\* An idle request satisfies the invariant on requests trivially.
LEMMA IdleFits ==
  ASSUME BillingInv, NEW p \in Ingest
  PROVE  Fits(p, Idle)
BY IdleIs, PlainFits, Zenon

\* The request a step of the model is about, and what the invariant says of it.
LEMMA RequestIs ==
  ASSUME BillingInv, NEW p \in Ingest
  PROVE  /\ job \in [Ingest -> Job] /\ job[p] \in Job /\ Fits(p, job[p])
         /\ acked \in SUBSET Report /\ authz \in SUBSET Account /\ recent \in SUBSET Account
         /\ \A r \in acked : booked[r] >= 1
         /\ catalog \in SUBSET Service /\ ents \in SUBSET Ent /\ expired \in SUBSET Ent
         /\ used \in [Ent -> Nat]
BY Zenon DEF BillingInv, Typed, Ledger

\* The account being charged, recomputed from the live entitlements.
LEMMA RecomputeTyped ==
  ASSUME authz \in SUBSET Account, recent \in SUBSET Account, ents' \in SUBSET Ent, Recompute
  PROVE  authz' \in SUBSET Account /\ recent' \in SUBSET Account
<1>1. \A e \in Ent : Owner[e] \in Account
  BY BillingAssumption, Zenon
<1>2. authz' \in SUBSET Account
  BY <1>1, Zenon DEF Recompute
<1> QED
  BY <1>2, Zenon DEF Recompute

\* The arrival of a report keeps the invariant.
LEMMA PostKeeps ==
  ASSUME BillingInv, NEW p \in Ingest, NEW r \in Report, Post(p, r)
  PROVE  BillingInv'
<1>1. PICK j : j = [Idle EXCEPT !.pc = "asked", !.report = r, !.services = catalog, !.had = ents, !.gone = expired]
  BY Zenon
<1>2. /\ j \in Job /\ j.pc = "asked" /\ j.report = r /\ j.had = ents
      /\ j.n = 0 /\ j.left = 0 /\ j.rows = {} /\ j.take = [e \in Ent |-> 0] /\ j.short = {}
  BY <1>1, IdleIs, RequestIs, Zenon DEF Job
<1>3. Becomes(p, j) /\ r \notin acked
  BY <1>1, Zenon DEF Post
<1>4. UNCHANGED <<ents, expired, used, catalog, authz, recent, ledger, raw, daily, fold, old, acked,
                  booked, late, owed, metered, short>>
  BY Zenon DEF Post, storeVars, bookVars, history
<1>5. Fits(p, j)
  BY <1>2, PlainFits, BillingAssumption, Zenon
<1> QED
  BY <1>2, <1>3, <1>4, <1>5, RequestIs, LocalStep, Zenon

\* Inserting the report row, or finding it there, keeps the invariant.
LEMMA InsertReportKeeps ==
  ASSUME BillingInv, NEW p \in Ingest, InsertReport(p)
  PROVE  BillingInv'
<1>0. UNCHANGED <<ents, expired, used, catalog, authz, recent, ledger, raw, daily, fold, old, acked,
                  booked, late, owed, metered, short>>
  BY Zenon DEF InsertReport, storeVars, bookVars, history
<1>1. PICK j : j = job[p]
  BY Zenon
<1>2. /\ j \in Job /\ Fits(p, j) /\ j.pc = "asked" /\ j.report \in Report
  BY <1>1, RequestIs, JobFields, Zenon DEF InsertReport, Fits
<1>3. CASE j.report \in ledger
  <2>1. PICK k : k = [Idle EXCEPT !.pc = "answer", !.report = j.report]
    BY Zenon
  <2>2. /\ k \in Job /\ k.pc = "answer" /\ k.report = j.report /\ k.had = {}
        /\ k.n = 0 /\ k.left = 0 /\ k.rows = {} /\ k.take = [e \in Ent |-> 0] /\ k.short = {}
    BY <1>2, <2>1, IdleIs, Zenon DEF Job
  <2>3. booked[j.report] >= 1
    BY <1>3, Zenon DEF BillingInv, Ledger
  <2>4. Fits(p, k)
    BY <1>2, <2>2, <2>3, PlainFits, BillingAssumption, Zenon
  <2>5. Becomes(p, k)
    BY <1>1, <1>3, <2>1, Zenon DEF InsertReport
  <2> QED
    BY <1>0, <1>1, <2>2, <2>4, <2>5, RequestIs, LocalStep, Zenon
<1>4. CASE j.report \notin ledger
  <2>1. PICK k : k = [j EXCEPT !.pc = "tx"]
    BY Zenon
  <2>2. /\ k.pc = "tx" /\ k.report = j.report /\ k.services = j.services /\ k.had = j.had /\ k.gone = j.gone
        /\ k.n = j.n /\ k.left = j.left /\ k.rows = j.rows /\ k.take = j.take /\ k.short = j.short /\ k \in Job
    BY <1>2, <2>1, Zenon DEF Job
  <2>3. k.n = 0 /\ k.left = 0 /\ k.rows = {} /\ k.take = [e \in Ent |-> 0] /\ k.short = {}
    BY <1>2, <2>2, Zenon DEF Fits
  <2>4. Charged(k)
    <3>1. \A a \in Account : SumOver(k.take, EntsOf(a)) = 0
      <4>1. \A a \in Account : \A e \in EntsOf(a) : k.take[e] = 0
        BY <2>3, Zenon DEF EntsOf
      <4> QED
        BY <4>1, EntsFinite, SumZero, Zenon
    <3>2. \A a \in Account : Charge(k.rows, a) = 0
      <4>1. \A a \in Account : RowsOf({}, a) = {}
        BY Zenon DEF RowsOf
      <4> QED
        BY <2>3, <4>1, SumEmpty, Zenon DEF Charge
    <3> QED
      BY <2>3, <3>1, <3>2, FS_EmptySet DEF Charged, Due
  <2>5. InOrder(k)
    BY <1>2, <2>2, Zenon DEF Fits, InOrder, Drained
  <2>6. \A q \in Ingest \ {p} : InTx(q) => Apart(k, job[q])
    BY <1>1, <2>2, <2>3, Zenon DEF InsertReport, Apart
  <2>7. Fits(p, k)
    BY <1>2, <1>4, <2>2, <2>4, <2>5, <2>6, BillingAssumption, Zenon DEF Fits
  <2>8. Becomes(p, k)
    BY <1>1, <1>4, <2>1, Zenon DEF InsertReport
  <2> QED
    BY <1>0, <1>1, <2>2, <2>7, <2>8, RequestIs, LocalStep, Zenon
<1> QED
  BY <1>3, <1>4, Zenon

\* A request inside its transaction.
LEMMA InTxIs ==
  ASSUME BillingInv, NEW p \in Ingest, InTx(p), NEW j, j = job[p]
  PROVE  /\ j \in Job /\ j.pc = "tx" /\ j.report \in Report \ ledger /\ Charged(j) /\ InOrder(j)
         /\ \A q \in Ingest \ {p} : InTx(q) => Apart(j, job[q])
BY RequestIs, Zenon DEF InTx, Fits

\* A transaction may go on to any state that keeps its report and fits.
LEMMA TxStep ==
  ASSUME BillingInv, NEW p \in Ingest, InTx(p), NEW k \in Job, Becomes(p, k),
         k.pc = "tx", k.report = job[p].report, Charged(k), InOrder(k),
         \A q \in Ingest \ {p} : InTx(q) => Apart(k, job[q]),
         UNCHANGED <<storeVars, bookVars, old, acked, faults, history>>
  PROVE  BillingInv'
<1>1. UNCHANGED <<ents, expired, used, catalog, authz, recent, ledger, raw, daily, fold, old, acked,
                  booked, late, owed, metered, short>>
  BY Zenon DEF storeVars, bookVars, history
<1>2. k.report \in Report \ ledger
  BY InTxIs, Zenon
<1>3. Fits(p, k)
  BY <1>2, BillingAssumption, Zenon DEF Fits
<1> QED
  BY <1>1, <1>3, RequestIs, LocalStep, Zenon

\* A sample as the report has it.
LEMMA SampleIs ==
  ASSUME NEW r \in Report, NEW n \in 1 .. Len(Samples[r])
  PROVE  /\ Samples[r][n].account \in Account \cup {None} /\ Samples[r][n].service \in Service \cup {None}
         /\ Samples[r][n].bytes \in Nat
<1> DEFINE Smp == [account : Account \cup {None}, service : Service \cup {None}, bytes : Nat]
<1>1. Samples[r] \in Seq(Smp)
  BY BillingAssumption, Zenon
<1> HIDE DEF Smp
<1>2. Samples[r][n] \in Smp
  BY <1>1
<1> QED
  BY <1>2, Zenon DEF Smp

\* Resolving a sample and inserting its usage row keeps the invariant.
LEMMA NextSampleKeeps ==
  ASSUME BillingInv, NEW p \in Ingest, NextSample(p)
  PROVE  BillingInv'
<1>1. PICK j : j = job[p]
  BY Zenon
<1>2. /\ InTx(p) /\ j \in Job /\ j.pc = "tx" /\ j.report \in Report \ ledger /\ Charged(j) /\ InOrder(j)
      /\ \A q \in Ingest \ {p} : InTx(q) => Apart(j, job[q])
  BY <1>1, InTxIs, Zenon DEF NextSample
<1>3. /\ j.left = 0 /\ j.n \in Nat /\ j.n < Len(Samples[j.report]) /\ j.rows \in SUBSET Row
      /\ j.take \in [Ent -> Nat] /\ j.services \in SUBSET Service /\ j.short \in SUBSET Account
  BY <1>1, <1>2, JobFields, Zenon DEF NextSample
<1> DEFINE smp == Samples[j.report][j.n + 1]
           row == [report |-> j.report, n |-> j.n + 1, account |-> AccountOf(smp.account),
                   service |-> IF smp.service \in j.services THEN smp.service ELSE None,
                   bytes |-> Clamp(smp.bytes)]
           due == IF None \in {row.account, row.service} THEN 0
                  ELSE Weighted(row.bytes, Rate[row.service])
<1>4. PICK k : k = [j EXCEPT !.n = @ + 1, !.rows = @ \cup {row}, !.left = due]
  BY Zenon
<1>5. Becomes(p, k) /\ UNCHANGED <<storeVars, bookVars, old, acked, faults, history>>
  BY <1>1, <1>4, Zenon DEF NextSample
<1>6. j.n + 1 \in 1 .. Len(Samples[j.report]) /\ j.n + 1 \in Nat
  <2>1. Len(Samples[j.report]) \in Nat
    BY <1>2, BillingAssumption
  <2> QED
    BY <1>3, <2>1
<1>7. /\ smp.account \in Account \cup {None} /\ smp.service \in Service \cup {None} /\ smp.bytes \in Nat
  BY <1>2, <1>6, SampleIs, Zenon
<1> HIDE DEF smp
<1>8. /\ row.account \in {smp.account, None} /\ row.account \in Account \cup {None}
      /\ row.service \in Service \cup {None} /\ row.bytes \in Nat
      /\ row.report = j.report /\ row.n = j.n + 1 /\ row \in Row
  <2>1. AccountOf(smp.account) \in {smp.account, None}
    BY Zenon DEF AccountOf
  <2>2. Clamp(smp.bytes) \in Nat
    BY <1>7, WeightedNat, Zenon
  <2> QED
    BY <1>2, <1>3, <1>6, <1>7, <2>1, <2>2, Zenon DEF Row
<1> HIDE DEF row
<1>9. /\ due \in Nat /\ (due > 0 => row.account = smp.account /\ smp.account \in Account /\ row.service # None)
      /\ row.service # None => Weighted(row.bytes, Rate[row.service]) \in Nat
  <2>1. row.service # None => Weighted(row.bytes, Rate[row.service]) \in Nat
    <3>1. row.service # None => Rate[row.service] \in Nat
      BY <1>8, BillingAssumption, Zenon
    <3> QED
      BY <1>8, <3>1, WeightedNat, Zenon
  <2> QED
    BY <1>7, <1>8, <2>1
<1>10. /\ due = IF row.account = None \/ row.service = None THEN 0 ELSE Weighted(row.bytes, Rate[row.service])
  BY Zenon
<1> HIDE DEF due
<1>11. /\ k \in Job /\ k.pc = "tx" /\ k.report = j.report /\ k.had = j.had /\ k.gone = j.gone
       /\ k.take = j.take /\ k.short = j.short
       /\ k.n = j.n + 1 /\ k.rows = j.rows \cup {row} /\ k.left = due
  BY <1>2, <1>3, <1>4, <1>6, <1>8, <1>9, Zenon DEF Job
<1>12. InOrder(k) /\ \A q \in Ingest \ {p} : InTx(q) => Apart(k, job[q])
  BY <1>2, <1>11 DEF InOrder, Drained, Apart
<1>13. Charged(k)
  <2>1. /\ IsFiniteSet(j.rows) /\ \A s \in j.rows : s.report = j.report /\ s.n \in 1 .. j.n
        /\ \A e \in Ent : j.take[e] > 0 => used[e] + j.take[e] <= Volume[e]
        /\ \A a \in Account \ j.short : SumOver(j.take, EntsOf(a)) = Charge(j.rows, a)
    <3>1. \A a \in Account : Due(j, a) = 0 /\ SumOver(j.take, EntsOf(a)) \in Nat
      <4>1. \A a \in Account : \A e \in EntsOf(a) : j.take[e] \in Nat
        BY <1>3, EntsFinite, Zenon
      <4> QED
        BY <1>3, <4>1, EntsFinite, SumNat, Zenon DEF Due
    <3> QED
      <4>1. Charged(j)
        BY <1>2, Zenon
      <4>2. IsFiniteSet(j.rows) /\ \A s \in j.rows : s.report = j.report /\ s.n \in 1 .. j.n
        BY <4>1, Zenon DEF Charged
      <4>3. \A e \in Ent : j.take[e] > 0 => used[e] + j.take[e] <= Volume[e]
        BY <4>1, Zenon DEF Charged
      <4>4. ASSUME NEW a \in Account \ j.short PROVE SumOver(j.take, EntsOf(a)) = Charge(j.rows, a)
        <5>1. SumOver(j.take, EntsOf(a)) + Due(j, a) = Charge(j.rows, a)
          BY <4>1, Zenon DEF Charged
        <5> QED
          BY <3>1, <5>1
      <4> QED
        BY <4>2, <4>3, <4>4, Zenon
  <2>2. row \notin j.rows
    BY <1>3, <1>8, <2>1
  <2>3. IsFiniteSet(k.rows) /\ \A s \in k.rows : s.report = k.report /\ s.n \in 1 .. k.n
    <3>1. IsFiniteSet(k.rows)
      <4>1. k.rows = j.rows \cup {row}
        BY <1>11, Zenon
      <4>2. IsFiniteSet(j.rows)
        BY <2>1, Zenon
      <4> QED
        BY <4>1, <4>2, FS_AddElement
    <3>2. 1 .. j.n \subseteq 1 .. k.n /\ j.n + 1 \in 1 .. k.n
      BY <1>3, <1>11
    <3> QED
      BY <1>8, <1>11, <2>1, <3>1, <3>2, Zenon
  <2>4. Payer(k) = smp.account
    BY <1>11, Zenon DEF Payer, smp
  <2>5. ASSUME NEW a \in Account \ k.short
        PROVE  SumOver(k.take, EntsOf(a)) + Due(k, a) = Charge(k.rows, a)
    <3>1. Charge(k.rows, a) = Charge(j.rows, a) + (IF row.account = a /\ row.service # None
                                                   THEN Weighted(row.bytes, Rate[row.service]) ELSE 0)
      BY <1>3, <1>8, <1>11, <2>1, <2>2, ChargeInsert
    <3>2. SumOver(k.take, EntsOf(a)) = Charge(j.rows, a)
      BY <1>11, <2>1, <2>5, Zenon
    <3>3. a # None /\ Charge(j.rows, a) \in Nat
      BY <1>3, <2>1, BillingAssumption, RowsOfFinite, Zenon
    <3>4. Due(k, a) = IF row.account = a /\ row.service # None
                      THEN Weighted(row.bytes, Rate[row.service]) ELSE 0
      BY <1>8, <1>9, <1>10, <1>11, <2>4, <3>3 DEF Due
    <3> QED
      BY <3>1, <3>2, <3>4, Zenon
  <2> QED
    BY <1>9, <1>11, <2>1, <2>3, <2>4, <2>5, Zenon DEF Charged
<1> QED
  BY <1>1, <1>2, <1>5, <1>11, <1>12, <1>13, TxStep, Zenon

\* A transaction that draws more leaves an entitlement that was drained so.
LEMMA MoreTaken ==
  ASSUME used \in [Ent -> Nat], NEW j, NEW k, j.take \in [Ent -> Nat], k.take \in [Ent -> Nat],
         NEW e \in Ent, k.take[e] >= j.take[e], Drained(j, e)
  PROVE  Drained(k, e)
<1>1. used[e] \in Nat /\ j.take[e] \in Nat /\ k.take[e] \in Nat /\ Volume[e] \in Nat
  BY BillingAssumption, Zenon
<1> QED
  BY <1>1 DEF Drained

\* An index that is passed over is not to be drawn on.
LEMMA PassedOver ==
  ASSUME BillingInv, NEW j \in Job, j.had \in SUBSET ents, NEW m \in DOMAIN Expiry, m \notin HasVolume(j),
         Expiry[m] \in j.had \ j.gone, Owner[Expiry[m]] = Payer(j)
  PROVE  Drained(j, Expiry[m])
<1>1. Expiry[m] \in Ent
  BY Zenon DEF Ent
<1>2. used[Expiry[m]] \in Nat /\ j.take[Expiry[m]] \in Nat /\ Volume[Expiry[m]] \in Nat
  <2>1. used \in [Ent -> Nat]
    BY Zenon DEF BillingInv, Typed
  <2>2. j.take \in [Ent -> Nat]
    BY JobFields, Zenon
  <2>3. Volume \in [Ent -> Nat]
    BY BillingAssumption, Zenon
  <2> QED
    BY <1>1, <2>1, <2>2, <2>3, Zenon
<1>3. ~(used[Expiry[m]] + j.take[Expiry[m]] < Volume[Expiry[m]])
  BY Zenon DEF HasVolume
<1> QED
  BY <1>2, <1>3 DEF Drained

\* One draw on a volume entitlement keeps the invariant.
LEMMA ConsumeVolumeKeeps ==
  ASSUME BillingInv, NEW p \in Ingest, ConsumeVolume(p)
  PROVE  BillingInv'
<1>1. PICK j : j = job[p]
  BY Zenon
<1>2. /\ InTx(p) /\ j \in Job /\ j.pc = "tx" /\ j.report \in Report \ ledger /\ Charged(j) /\ InOrder(j)
      /\ \A q \in Ingest \ {p} : InTx(q) => Apart(j, job[q])
  BY <1>1, InTxIs, Zenon DEF ConsumeVolume
<1>3. /\ j.left \in Nat /\ j.left > 0 /\ j.take \in [Ent -> Nat] /\ used \in [Ent -> Nat]
      /\ HasVolume(j) # {} /\ Holders(p) = {} /\ Volume \in [Ent -> Nat]
  BY <1>1, <1>2, JobFields, RequestIs, BillingAssumption, Zenon DEF ConsumeVolume
<1>4. PICK m : m = Min(HasVolume(j))
  BY Zenon
<1>5. m \in HasVolume(j) /\ \A n \in HasVolume(j) : m <= n
  <2>1. HasVolume(j) \in SUBSET DOMAIN Expiry
    BY Zenon DEF HasVolume
  <2> QED
    BY <1>3, <1>4, <2>1, EarliestIs, Zenon
<1>6. PICK e : e = Expiry[m]
  BY Zenon
<1>7. /\ m \in DOMAIN Expiry /\ e \in Ent /\ e = Earliest(j) /\ Owner[e] = Payer(j)
      /\ used[e] + j.take[e] < Volume[e]
      /\ used[e] \in Nat /\ j.take[e] \in Nat /\ Volume[e] \in Nat
  BY <1>3, <1>4, <1>5, <1>6, Zenon DEF HasVolume, Earliest, Ent
<1>8. PICK c : c = Min({j.left, Volume[e] - used[e] - j.take[e]})
  BY Zenon
<1>9. c \in Nat /\ c > 0 /\ c <= j.left /\ used[e] + j.take[e] + c <= Volume[e]
  <2>1. Volume[e] - used[e] - j.take[e] \in Nat
    BY <1>7
  <2> QED
    BY <1>3, <1>7, <1>8, <2>1, LesserIs
<1>10. PICK k : k = [j EXCEPT !.left = @ - c, !.take[e] = @ + c]
  BY Zenon
<1>11. Becomes(p, k) /\ UNCHANGED <<storeVars, bookVars, old, acked, faults, history>>
  BY <1>1, <1>7, <1>8, <1>10, Zenon DEF ConsumeVolume
<1>12. /\ k.pc = "tx" /\ k.report = j.report /\ k.had = j.had /\ k.gone = j.gone
       /\ k.n = j.n /\ k.rows = j.rows /\ k.short = j.short /\ k.left = j.left - c
       /\ k.take = [j.take EXCEPT ![e] = @ + c] /\ k.services = j.services /\ DOMAIN k = DOMAIN j
  BY <1>2, <1>10, Zenon DEF Job
<1>13. k.left \in Nat /\ k.take \in [Ent -> Nat]
  BY <1>3, <1>7, <1>9, <1>12
<1>14. k.take[e] = j.take[e] + c /\ \A d \in Ent \ {e} : k.take[d] = j.take[d]
  BY <1>3, <1>7, <1>12, Zenon
<1>15. k \in Job
  <2>1. k = [pc |-> j.pc, report |-> j.report, services |-> j.services, had |-> j.had, gone |-> j.gone,
             n |-> j.n, left |-> k.left, rows |-> j.rows, take |-> k.take, short |-> j.short]
    BY <1>2, <1>10, Zenon DEF Job
  <2> QED
    BY <1>2, <1>13, <2>1, JobFields, Zenon DEF Job
<1>16. Charged(k)
  <2>1. \A d \in Ent : k.take[d] > 0 => used[d] + k.take[d] <= Volume[d]
    <3>1. \A d \in Ent : j.take[d] > 0 => used[d] + j.take[d] <= Volume[d]
      BY <1>2, Zenon DEF Charged
    <3> QED
      BY <1>7, <1>9, <1>14, <3>1
  <2>2. Payer(k) = Payer(j)
    BY <1>12, Zenon DEF Payer
  <2>3. ASSUME NEW a \in Account \ j.short
        PROVE  SumOver(k.take, EntsOf(a)) + Due(k, a) = Charge(k.rows, a)
    <3>1. SumOver(j.take, EntsOf(a)) + Due(j, a) = Charge(k.rows, a)
      BY <1>2, <1>12, <2>3, Zenon DEF Charged
    <3>2. IsFiniteSet(EntsOf(a)) /\ \A d \in EntsOf(a) : d \in Ent /\ j.take[d] \in Nat
      BY <1>3, EntsFinite, Zenon
    <3>3. SumOver(j.take, EntsOf(a)) \in Nat
      BY <3>2, SumNat, Zenon
    <3>4. CASE a = Payer(j)
      <4>1. e \in EntsOf(a)
        BY <1>7, <3>4, Zenon DEF EntsOf
      <4>2. SumOver(k.take, EntsOf(a)) = SumOver(j.take, EntsOf(a)) + c
        <5>1. \A d \in EntsOf(a) \ {e} : k.take[d] = j.take[d]
          BY <1>14, <3>2, Zenon
        <5> QED
          BY <1>9, <1>14, <3>2, <4>1, <5>1, SumBump
      <4>3. Due(j, a) = j.left /\ Due(k, a) = j.left - c
        BY <1>3, <1>9, <1>12, <2>2, <3>4 DEF Due
      <4> QED
        BY <1>3, <1>9, <3>1, <3>3, <4>2, <4>3
    <3>5. CASE a # Payer(j)
      <4>1. e \notin EntsOf(a)
        BY <1>7, <3>5, Zenon DEF EntsOf
      <4>2. SumOver(k.take, EntsOf(a)) = SumOver(j.take, EntsOf(a))
        BY <1>14, <3>2, <4>1, SumSame
      <4>3. Due(j, a) = 0 /\ Due(k, a) = 0
        BY <2>2, <3>5, Zenon DEF Due
      <4> QED
        BY <3>1, <4>2, <4>3, Zenon
    <3> QED
      BY <3>4, <3>5, Zenon
  <2>4. Payer(k) \in Account
    BY <1>2, <1>3, <2>2, Zenon DEF Charged
  <2> QED
    BY <1>2, <1>12, <2>1, <2>3, <2>4, Zenon DEF Charged
<1>17. \A q \in Ingest \ {p} : InTx(q) => Apart(k, job[q])
  <2> SUFFICES ASSUME NEW q \in Ingest \ {p}, InTx(q) PROVE Apart(k, job[q])
    BY Zenon
  <2>1. ~(job[q].take[e] > 0)
    BY <1>1, <1>2, <1>3, <1>7, Zenon DEF Holders
  <2>2. job[q].take[e] \in Nat
    BY <1>7, RequestIs, JobFields, Zenon
  <2> QED
    BY <1>2, <1>12, <1>14, <2>1, <2>2 DEF Apart
<1>18. InOrder(k)
  <2>0. \A d \in Ent : k.take[d] >= j.take[d]
    BY <1>3, <1>7, <1>9, <1>14
  <2>1. ASSUME NEW l \in DOMAIN Expiry, NEW n \in DOMAIN Expiry, l < n,
               Owner[Expiry[l]] = Owner[Expiry[n]], Expiry[l] \in k.had \ k.gone, k.take[Expiry[n]] > 0
        PROVE  Drained(k, Expiry[l])
    <3>1. Expiry[l] \in Ent /\ Expiry[n] \in Ent
      BY Zenon DEF Ent
    <3>2. Drained(j, Expiry[l])
      <4>1. CASE n = m
        <5>1. l \notin HasVolume(j)
          <6>1. l \in Nat /\ m \in Nat
            BY <1>7, BillingAssumption
          <6>2. l \in HasVolume(j) => m <= l
            BY <1>5, Zenon
          <6>3. l < m
            BY <2>1, <4>1, Zenon
          <6> QED
            BY <6>1, <6>2, <6>3
        <5> QED
          BY <1>2, <1>6, <1>7, <1>12, <2>1, <4>1, <5>1, PassedOver, Zenon DEF InOrder
      <4>2. CASE n # m
        <5>1. Expiry[n] # e
          BY <1>6, <1>7, <4>2, BillingAssumption, Zenon
        <5>2. j.take[Expiry[n]] > 0
          BY <1>14, <2>1, <3>1, <5>1, Zenon
        <5> QED
          BY <1>2, <1>12, <2>1, <5>2, Zenon DEF InOrder
      <4> QED
        BY <4>1, <4>2, Zenon
    <3> QED
      BY <1>3, <1>13, <2>0, <3>1, <3>2, MoreTaken, Zenon
  <2>2. ASSUME NEW d \in k.had \ k.gone, Owner[d] \in k.short PROVE Drained(k, d)
    <3>1. d \in Ent /\ Drained(j, d)
      BY <1>2, <1>12, <2>2, JobFields, Zenon DEF InOrder
    <3> QED
      BY <1>3, <1>13, <2>0, <3>1, MoreTaken, Zenon
  <2> QED
    BY <1>2, <1>12, <2>1, <2>2, Zenon DEF InOrder
<1> QED
  BY <1>1, <1>2, <1>11, <1>12, <1>15, <1>16, <1>17, <1>18, TxStep, Zenon

\* Giving up the volume nobody has paid for keeps the invariant.
LEMMA DropExcessKeeps ==
  ASSUME BillingInv, NEW p \in Ingest, DropExcess(p)
  PROVE  BillingInv'
<1>1. PICK j : j = job[p]
  BY Zenon
<1>2. /\ InTx(p) /\ j \in Job /\ j.pc = "tx" /\ j.report \in Report \ ledger /\ Charged(j) /\ InOrder(j)
      /\ \A q \in Ingest \ {p} : InTx(q) => Apart(j, job[q])
      /\ j.left > 0 /\ HasVolume(j) = {}
  BY <1>1, InTxIs, Zenon DEF DropExcess
<1>3. /\ j.left \in Nat /\ j.take \in [Ent -> Nat] /\ j.short \in SUBSET Account
      /\ Payer(j) \in Account
  BY <1>2, JobFields, Zenon DEF Charged
<1>4. PICK k : k = [j EXCEPT !.left = 0, !.short = @ \cup {Payer(j)}]
  BY Zenon
<1>5. Becomes(p, k) /\ UNCHANGED <<storeVars, bookVars, old, acked, faults, history>>
  BY <1>1, <1>4, Zenon DEF DropExcess
<1>6. /\ k \in Job /\ k.pc = "tx" /\ k.report = j.report /\ k.had = j.had /\ k.gone = j.gone
      /\ k.n = j.n /\ k.rows = j.rows /\ k.short = j.short \cup {Payer(j)} /\ k.left = 0
      /\ k.take = j.take
  BY <1>2, <1>3, <1>4, Zenon DEF Job
<1>7. Charged(k)
  <2>1. ASSUME NEW a \in Account \ k.short
        PROVE  SumOver(k.take, EntsOf(a)) + Due(k, a) = Charge(k.rows, a)
    <3>1. SumOver(j.take, EntsOf(a)) + Due(j, a) = Charge(j.rows, a)
      BY <1>2, <1>6, <2>1, Zenon DEF Charged
    <3>2. Due(j, a) = 0 /\ Due(k, a) = 0
      BY <1>6, <2>1, Zenon DEF Due
    <3> QED
      BY <1>6, <3>1, <3>2, Zenon
  <2>2. /\ IsFiniteSet(k.rows) /\ \A s \in k.rows : s.report = k.report /\ s.n \in 1 .. k.n
        /\ \A e \in Ent : k.take[e] > 0 => used[e] + k.take[e] <= Volume[e]
    BY <1>2, <1>6, Zenon DEF Charged
  <2> QED
    BY <1>6, <2>1, <2>2 DEF Charged
<1>8. InOrder(k)
  <2>1. ASSUME NEW d \in k.had \ k.gone, Owner[d] \in k.short PROVE Drained(j, d)
    <3>1. CASE Owner[d] \in j.short
      BY <1>2, <1>6, <2>1, <3>1, Zenon DEF InOrder
    <3>2. CASE Owner[d] = Payer(j)
      <4>1. PICK n \in DOMAIN Expiry : d = Expiry[n]
        BY <1>6, <2>1, JobFields, Zenon DEF Ent
      <4> QED
        BY <1>2, <1>6, <2>1, <3>2, <4>1, PassedOver, Zenon DEF InOrder
    <3> QED
      BY <1>6, <2>1, <3>1, <3>2, Zenon
  <2>2. \A d : Drained(k, d) <=> Drained(j, d)
    BY <1>6, Zenon DEF Drained
  <2> QED
    BY <1>2, <1>6, <2>1, <2>2, Zenon DEF InOrder
<1>9. \A q \in Ingest \ {p} : InTx(q) => Apart(k, job[q])
  BY <1>2, <1>6 DEF Apart
<1> QED
  BY <1>1, <1>2, <1>5, <1>6, <1>7, <1>8, <1>9, TxStep, Zenon

\* The recomputation after the commit keeps the invariant.
LEMMA RecomputeAfterKeeps ==
  ASSUME BillingInv, NEW p \in Ingest, RecomputeAfter(p)
  PROVE  BillingInv'
<1>1. PICK j : j = job[p]
  BY Zenon
<1>2. /\ j \in Job /\ Fits(p, j) /\ j.pc = "committed"
  BY <1>1, RequestIs, Zenon DEF RecomputeAfter
<1>3. PICK k : k = [j EXCEPT !.pc = "answer"]
  BY Zenon
<1>4. /\ k \in Job /\ k.pc = "answer" /\ k.report = j.report /\ k.had = j.had
      /\ k.n = j.n /\ k.left = j.left /\ k.rows = j.rows /\ k.take = j.take /\ k.short = j.short
  BY <1>2, <1>3, Zenon DEF Job
<1>5. Fits(p, k)
  BY <1>2, <1>4, PlainFits, Zenon DEF Fits, InOrder
<1>6. /\ Becomes(p, k)
      /\ UNCHANGED <<ents, expired, used, catalog, ledger, raw, daily, fold, old, acked,
                     booked, late, owed, metered, short>>
  BY <1>1, <1>3, Zenon DEF RecomputeAfter, bookVars, history
<1>7. authz' \in SUBSET Account /\ recent' \in SUBSET Account
  BY <1>6, RequestIs, RecomputeTyped, Zenon DEF RecomputeAfter
<1> QED
  BY <1>1, <1>4, <1>5, <1>6, <1>7, RequestIs, LocalStep, Zenon

\* The request ends: with its answer, a failure, or as the victim of a
\* deadlock.
LEMMA EndKeeps ==
  ASSUME BillingInv, NEW p \in Ingest, Answer(p) \/ Fails(p) \/ DeadlockAbort(p)
  PROVE  BillingInv'
<1>1. /\ Becomes(p, Idle)
      /\ UNCHANGED <<ents, expired, used, catalog, authz, recent, ledger, raw, daily, fold, old,
                     booked, late, owed, metered, short>>
  BY Zenon DEF Answer, Fails, DeadlockAbort, storeVars, bookVars, history
<1>2. acked' = acked \/ (acked' = acked \cup {job[p].report} /\ job[p].pc = "answer")
  BY Zenon DEF Answer, Fails, DeadlockAbort
<1>3. job[p].pc = "answer" => job[p].report \in Report /\ booked[job[p].report] >= 1
  BY RequestIs, JobFields, Zenon DEF Fits
<1>4. acked' \in SUBSET Report /\ acked \subseteq acked' /\ \A r \in acked' : booked[r] >= 1
  BY <1>2, <1>3, RequestIs, Zenon
<1> QED
  BY <1>1, <1>4, IdleIs, IdleFits, RequestIs, LocalStep, Zenon

-----------------------------------------------------------------------------
(* The commit                                                              *)

\* The commit, where the rows, the draws and the totals of a report become
\* visible together, keeps the invariant.
LEMMA CommitKeeps ==
  ASSUME BillingInv, NEW p \in Ingest, Commit(p)
  PROVE  BillingInv'
<1>1. PICK j : j = job[p]
  BY Zenon
<1>2. /\ InTx(p) /\ j \in Job /\ j.pc = "tx" /\ j.report \in Report \ ledger /\ Charged(j) /\ InOrder(j)
      /\ \A q \in Ingest \ {p} : InTx(q) => Apart(j, job[q])
      /\ j.left = 0
  BY <1>1, InTxIs, Zenon DEF Commit
<1>3. /\ j.take \in [Ent -> Nat] /\ j.rows \in SUBSET Row /\ IsFiniteSet(j.rows)
      /\ j.short \in SUBSET Account /\ \A s \in j.rows : s.report = j.report
  BY <1>2, JobFields, Zenon DEF Charged
<1>4. PICK k : k = [Idle EXCEPT !.pc = "committed", !.report = j.report]
  BY Zenon
<1>used. used' = [e \in Ent |-> used[e] + j.take[e]]
  BY <1>1, Zenon DEF Commit
<1>sets. ledger' = ledger \cup {j.report} /\ raw' = raw \cup j.rows /\ short' = short \cup j.short
  BY <1>1, Zenon DEF Commit
<1>job. Becomes(p, k)
  BY <1>1, <1>4, Zenon DEF Commit
<1>booked. booked' = [booked EXCEPT ![j.report] = @ + 1]
  BY <1>1, Zenon DEF Commit
<1>owed. owed' = [a \in Account |-> owed[a] + Charge(j.rows, a)]
  BY <1>1, Zenon DEF Commit
<1>metered. metered' = [a \in Account |-> metered[a] + Bytes(j.rows, a)]
  BY <1>1, Zenon DEF Commit
<1>same. UNCHANGED <<ents, expired, catalog, authz, recent, daily, fold, old, acked, late>>
  BY Zenon DEF Commit
<1>6. /\ k \in Job /\ k.pc = "committed" /\ k.report = j.report /\ k.had = {}
      /\ k.n = 0 /\ k.left = 0 /\ k.rows = {} /\ k.take = [e \in Ent |-> 0] /\ k.short = {}
  BY <1>2, <1>4, IdleIs, Zenon DEF Job
<1>7. /\ job'[p] = k /\ (\A q \in Ingest \ {p} : job'[q] = job[q]) /\ job' \in [Ingest -> Job]
  BY <1>job, <1>6, RequestIs, BecomesAt, Zenon
<1>8. /\ \A e \in Ent : used[e] \in Nat
      /\ \A a \in Account : owed[a] \in Nat /\ metered[a] \in Nat /\ daily[a] \in Nat
  BY Zenon DEF BillingInv, Typed
<1>rep. booked \in [Report -> Nat] /\ j.report \in Report /\ booked[j.report] \in Nat
  BY <1>2, Zenon DEF BillingInv, Typed
<1>raw. raw \in SUBSET Row /\ IsFiniteSet(raw) /\ \A s \in raw : s.report \in ledger
  BY Zenon DEF BillingInv, Typed, Totals
<1>up. \A e \in Ent : used'[e] = used[e] + j.take[e] /\ used[e] \in Nat /\ j.take[e] \in Nat
  BY <1>3, <1>8, <1>used, Zenon
<1>9. /\ booked'[j.report] = booked[j.report] + 1 /\ \A r \in Report \ {j.report} : booked'[r] = booked[r]
      /\ booked' \in [Report -> Nat]
  BY <1>booked, <1>rep
<1>10. \A a \in Account : Charge(j.rows, a) \in Nat /\ Bytes(j.rows, a) \in Nat
  BY <1>3, RowsOfFinite, Zenon
<1>11. Typed'
  <2>1. used' \in [Ent -> Nat]
    BY <1>used, <1>up
  <2>2. owed' \in [Account -> Nat]
    BY <1>owed, <1>8, <1>10
  <2>3. metered' \in [Account -> Nat]
    BY <1>metered, <1>8, <1>10
  <2>4. raw' \in SUBSET Row /\ fold' \in [cutoff : SUBSET Report, rows : SUBSET raw']
    <3>1. fold \in [cutoff : SUBSET Report, rows : SUBSET raw]
      BY Zenon DEF BillingInv, Typed
    <3> QED
      BY <1>3, <1>raw, <1>sets, <1>same, <3>1, Zenon
  <2>5. ledger' \in SUBSET Report /\ short' \in SUBSET Account
    BY <1>3, <1>rep, <1>sets, Zenon DEF BillingInv, Typed
  <2> QED
    BY <1>7, <1>9, <1>same, <2>1, <2>2, <2>3, <2>4, <2>5, Zenon DEF BillingInv, Typed
<1>12. Ledger'
  <2>1. booked[j.report] >= 1 => j.report \in late
    BY <1>1, <1>2, Zenon DEF BillingInv, Ledger
  <2>2. \A r \in ledger' \cup acked' : booked'[r] >= 1
    <3>1. \A r \in ledger \cup acked : booked[r] >= 1 /\ r \in Report /\ booked[r] \in Nat
      BY Zenon DEF BillingInv, Ledger, Typed
    <3> QED
      BY <1>9, <1>rep, <1>same, <1>sets, <3>1
  <2>3. \A r \in Report : booked'[r] <= 1 \/ r \in late'
    <3>1. \A r \in Report : booked[r] <= 1 \/ r \in late
      BY Zenon DEF BillingInv, Ledger
    <3> QED
      BY <1>9, <1>rep, <1>same, <2>1, <3>1
  <2>4. ASSUME NEW r \in Report, booked'[r] >= 1, r \notin ledger', r \notin late'
        PROVE  r \in acked' /\ \A q \in Ingest : job'[q].report # r
    <3>1. r # j.report /\ booked[r] >= 1 /\ r \notin ledger /\ r \notin late
      BY <1>9, <1>same, <1>sets, <2>4, Zenon
    <3>2. r \in acked /\ \A q \in Ingest : job[q].report # r
      BY <3>1, Zenon DEF BillingInv, Ledger
    <3> QED
      BY <1>6, <1>7, <1>same, <3>1, <3>2, Zenon
  <2> QED
    BY <2>2, <2>3, <2>4, Zenon DEF Ledger
<1>13. Books'
  <2>1. ASSUME NEW e \in Ent PROVE used'[e] <= Volume[e]
    <3>1. used'[e] = used[e] + j.take[e] /\ used[e] \in Nat /\ j.take[e] \in Nat /\ used[e] <= Volume[e]
      BY <1>up, Zenon DEF BillingInv, Books
    <3>2. j.take[e] > 0 => used[e] + j.take[e] <= Volume[e]
      BY <1>2, Zenon DEF Charged
    <3> QED
      BY <3>1, <3>2
  <2>2. ASSUME NEW a \in Account, a \notin short' PROVE UsedBy(a)' = owed'[a]
    <3>1. a \notin short /\ a \notin j.short
      BY <1>sets, <2>2, Zenon
    <3>2. UsedBy(a) = owed[a] /\ owed'[a] = owed[a] + Charge(j.rows, a)
      BY <1>owed, <3>1, Zenon DEF BillingInv, Books
    <3>3. /\ IsFiniteSet(EntsOf(a))
          /\ \A e \in EntsOf(a) : /\ e \in Ent /\ used[e] \in Nat /\ j.take[e] \in Nat
                                  /\ used'[e] = used[e] + j.take[e]
      BY <1>up, EntsFinite, Zenon
    <3>4. SumOver(used', EntsOf(a)) = SumOver(used, EntsOf(a)) + SumOver(j.take, EntsOf(a))
      BY <3>3, SumAdd
    <3>5. SumOver(j.take, EntsOf(a)) = Charge(j.rows, a)
      <4>1. SumOver(j.take, EntsOf(a)) + Due(j, a) = Charge(j.rows, a)
        BY <1>2, <3>1, Zenon DEF Charged
      <4>2. SumOver(j.take, EntsOf(a)) \in Nat
        BY <3>3, SumNat, Zenon
      <4>3. Due(j, a) = 0
        BY <1>2, Zenon DEF Due
      <4> QED
        BY <4>1, <4>2, <4>3
    <3>6. UsedBy(a) = SumOver(used, EntsOf(a)) /\ UsedBy(a)' = SumOver(used', EntsOf(a))
      BY Zenon DEF UsedBy, EntsOf
    <3> QED
      BY <3>2, <3>4, <3>5, <3>6, Zenon
  <2> QED
    BY <2>1, <2>2, Zenon DEF Books
<1>14. Totals'
  <2>1. IsFiniteSet(raw') /\ \A s \in raw' : s.report \in ledger'
    BY <1>3, <1>raw, <1>sets, FS_Union, Zenon
  <2>2. raw \cap j.rows = {}
    BY <1>2, <1>3, <1>raw, Zenon
  <2>3. ASSUME NEW a \in Account PROVE daily'[a] + Bytes(raw, a)' = metered'[a]
    <3>1. Bytes(raw \cup j.rows, a) = Bytes(raw, a) + Bytes(j.rows, a)
      BY <1>3, <1>raw, <2>2, BytesUnion, Zenon
    <3>2. daily[a] + Bytes(raw, a) = metered[a] /\ metered'[a] = metered[a] + Bytes(j.rows, a)
      BY <1>metered, Zenon DEF BillingInv, Totals, TotalsKept
    <3>3. Bytes(raw, a) \in Nat /\ Bytes(j.rows, a) \in Nat /\ daily[a] \in Nat
      BY <1>3, <1>8, <1>raw, RowsOfFinite, Zenon
    <3>4. Bytes(raw, a)' = Bytes(raw \cup j.rows, a)
      BY <1>sets, Zenon DEF Bytes, RowsOf
    <3> QED
      BY <1>same, <3>1, <3>2, <3>3, <3>4
  <2> QED
    BY <2>1, <2>3, Zenon DEF Totals, TotalsKept
<1>15. ASSUME NEW q \in Ingest PROVE Fits(q, job[q])'
  <2>0. \A e \in Ent : used'[e] >= used[e] /\ used[e] \in Nat /\ used'[e] \in Nat
    BY <1>up
  <2>1. CASE q = p
    <3>1. InOrder(k)'
      <4>1. \A n \in DOMAIN Expiry : k.take[Expiry[n]] = 0
        BY <1>6, BillingAssumption, Zenon DEF Ent
      <4> QED
        BY <1>6, <1>same, <4>1, Zenon DEF InOrder
    <3>2. booked'[k.report] >= 1
      BY <1>6, <1>9, <1>rep
    <3>3. Fits(p, k)'
      BY <1>2, <1>6, <3>1, <3>2, BillingAssumption, Zenon DEF Fits
    <3> QED
      BY <1>7, <2>1, <3>3, Zenon
  <2>2. CASE q # p
    <3>1. PICK i : i = job[q]
      BY Zenon
    <3>2. i \in Job /\ Fits(q, i) /\ job'[q] = i /\ i.take \in [Ent -> Nat] /\ i.had \in SUBSET Ent
      BY <1>7, <2>2, <3>1, RequestIs, JobFields, Zenon
    <3>3. InOrder(i)'
      <4>1. ASSUME NEW e \in Ent, Drained(i, e) PROVE Drained(i, e)'
        <5>1. i.take[e] \in Nat /\ Volume[e] \in Nat
          BY <3>2, BillingAssumption, Zenon
        <5> QED
          BY <2>0, <4>1, <5>1 DEF Drained
      <4>2. \A n \in DOMAIN Expiry : Expiry[n] \in Ent
        BY Zenon DEF Ent
      <4> QED
        BY <1>same, <3>2, <4>1, <4>2, Zenon DEF Fits, InOrder
    <3>4. i.pc \in {"committed", "answer"} => booked'[i.report] >= 1
      <4>1. i.pc \in {"committed", "answer"} => i.report \in Report /\ booked[i.report] >= 1
        BY <3>2, JobFields, Zenon DEF Fits
      <4> QED
        BY <1>9, <1>rep, <4>1
    <3>5. i.pc = "tx" => /\ i.report \in Report \ ledger' /\ Charged(i)'
                         /\ \A o \in Ingest \ {q} : InTx(o)' => Apart(i, job'[o])
      <4> SUFFICES ASSUME i.pc = "tx" PROVE /\ i.report \in Report \ ledger' /\ Charged(i)'
                                            /\ \A o \in Ingest \ {q} : InTx(o)' => Apart(i, job'[o])
        BY Zenon
      <4>1. Apart(j, i) /\ InTx(q)
        BY <1>2, <2>2, <3>1, Zenon DEF InTx
      <4>2. i.report \in Report \ ledger /\ Charged(i) /\ \A o \in Ingest \ {q} : InTx(o) => Apart(i, job[o])
        BY <3>2, Zenon DEF Fits
      <4>3. \A e \in Ent : i.take[e] > 0 => used'[e] = used[e]
        <5>1. \A e \in Ent : i.take[e] > 0 => j.take[e] = 0
          BY <3>2, <4>1 DEF Apart
        <5> QED
          BY <1>up, <5>1
      <4>4. Charged(i)'
        BY <4>2, <4>3, Zenon DEF Charged
      <4>5. \A o \in Ingest \ {q} : InTx(o)' => o # p /\ InTx(o) /\ job'[o] = job[o]
        BY <1>6, <1>7, Zenon DEF InTx
      <4> QED
        BY <1>sets, <4>1, <4>2, <4>4, <4>5, ZenonT(40) DEF Apart
    <3>6. Fits(q, i)'
      BY <3>2, <3>3, <3>4, <3>5, Zenon DEF Fits
    <3> QED
      BY <3>2, <3>6, Zenon
  <2> QED
    BY <2>1, <2>2, Zenon
<1> QED
  BY <1>11, <1>12, <1>13, <1>14, <1>15, Zenon DEF BillingInv

-----------------------------------------------------------------------------
(* Everything else                                                         *)

\* Steps that change neither the requests nor the books.
LEMMA AsideKeeps ==
  ASSUME BillingInv,
         UNCHANGED <<used, ledger, raw, daily, fold, job, acked, booked, late, owed, metered, short>>,
         ents \subseteq ents', ents' \in SUBSET Ent, expired' \in SUBSET Ent, catalog' \in SUBSET Service,
         authz' \in SUBSET Account, recent' \in SUBSET Account, old' \in SUBSET Report
  PROVE  BillingInv'
<1>1. Typed' /\ Ledger' /\ Books' /\ Totals'
  BY Zenon DEF BillingInv, Typed, Ledger, Books, Totals, TotalsKept, UsedBy
<1>2. ASSUME NEW p \in Ingest PROVE Fits(p, job[p])'
  <2>1. PICK j : j = job[p]
    BY Zenon
  <2>2. Fits(p, j) /\ job'[p] = j
    BY <2>1, Zenon DEF BillingInv
  <2>3. InOrder(j)'
    BY <2>2, Zenon DEF Fits, InOrder, Drained
  <2>4. Charged(j)' <=> Charged(j)
    BY Zenon DEF Charged
  <2>5. Fits(p, j)'
    BY <2>2, <2>3, <2>4, Zenon DEF Fits, InTx
  <2> QED
    BY <2>2, <2>5, Zenon
<1> QED
  BY <1>1, <1>2, Zenon DEF BillingInv

\* Folding old usage rows into the daily totals keeps the invariant.
LEMMA FoldUsageKeeps ==
  ASSUME BillingInv, FoldUsage
  PROVE  BillingInv'
<1>1. /\ fold' = [cutoff |-> old, rows |-> {s \in raw : s.report \in old}]
      /\ UNCHANGED <<ents, expired, used, catalog, authz, recent, ledger, raw, daily, job, old, acked,
                     booked, late, owed, metered, short>>
  BY Zenon DEF FoldUsage, storeVars, history
<1>2. fold' \in [cutoff : SUBSET Report, rows : SUBSET raw']
  BY <1>1, Zenon DEF BillingInv, Typed
<1>3. Typed' /\ Ledger' /\ Books' /\ Totals'
  BY <1>1, <1>2, Zenon DEF BillingInv, Typed, Ledger, Books, Totals, TotalsKept, UsedBy
<1>4. ASSUME NEW p \in Ingest PROVE Fits(p, job[p])'
  BY <1>1, Zenon DEF BillingInv, Fits, InTx, InOrder, Drained, Charged
<1> QED
  BY <1>3, <1>4, Zenon DEF BillingInv

\* Deleting old report rows keeps the invariant.
LEMMA DropReportsKeeps ==
  ASSUME BillingInv, DropReports
  PROVE  BillingInv'
<1>0. daily' = [a \in Account |-> daily[a] + Bytes(fold.rows, a)]
  BY Zenon DEF DropReports
<1>1. /\ raw' = raw \ fold.rows /\ ledger' = ledger \ Emptied /\ fold' = NoFold
      /\ late' = late \cup {r \in Emptied : r \notin acked \/ \E p \in Ingest : job[p].report = r}
      /\ UNCHANGED <<ents, expired, used, catalog, authz, recent, job, old, acked,
                     booked, owed, metered, short>>
  BY Zenon DEF DropReports, storeVars
<1>2. /\ raw \in SUBSET Row /\ fold.rows \in SUBSET raw /\ IsFiniteSet(raw) /\ ledger \in SUBSET Report
      /\ daily \in [Account -> Nat] /\ late \in SUBSET Report /\ Emptied \in SUBSET ledger
      /\ \A s \in raw : s.report \in ledger
  BY Zenon DEF BillingInv, Typed, Totals, Emptied
<1>3. IsFiniteSet(fold.rows) /\ IsFiniteSet(raw \ fold.rows) /\ fold.rows \in SUBSET Row
  BY <1>2, FS_Subset, Zenon
<1>4. \A a \in Account : Bytes(fold.rows, a) \in Nat /\ Bytes(raw \ fold.rows, a) \in Nat
  BY <1>2, <1>3, RowsOfFinite, Zenon
<1>5. Typed'
  <2>1. daily' \in [Account -> Nat]
    <3>1. \A a \in Account : daily[a] \in Nat
      BY Zenon DEF BillingInv, Typed
    <3> QED
      BY <1>0, <1>4, <3>1
  <2>2. fold' \in [cutoff : SUBSET Report, rows : SUBSET raw']
    BY <1>1, Zenon DEF NoFold
  <2>3. raw' \in SUBSET Row /\ ledger' \in SUBSET Report /\ late' \in SUBSET Report
    BY <1>1, <1>2, Zenon
  <2> QED
    BY <1>1, <2>1, <2>2, <2>3, Zenon DEF BillingInv, Typed
<1>6. Ledger'
  <2>1. \A r \in Report : booked[r] >= 1 /\ r \notin ledger' =>
          r \in late' \/ (r \in acked /\ \A p \in Ingest : job[p].report # r)
    BY <1>1, <1>2, Zenon DEF BillingInv, Ledger
  <2> QED
    BY <1>1, <2>1, Zenon DEF BillingInv, Ledger
<1>7. Books'
  BY <1>1, Zenon DEF BillingInv, Books, UsedBy
<1>8. Totals'
  <2>1. \A s \in raw' : s.report \in ledger'
    BY <1>1, <1>2, Zenon DEF Emptied
  <2>2. ASSUME NEW a \in Account PROVE daily'[a] + Bytes(raw, a)' = metered'[a]
    <3>1. Bytes(raw, a) = Bytes(fold.rows, a) + Bytes(raw \ fold.rows, a)
      BY <1>2, BytesSplit, Zenon
    <3>2. daily[a] + Bytes(raw, a) = metered[a] /\ daily[a] \in Nat
      BY <1>2, Zenon DEF BillingInv, Totals, TotalsKept
    <3>3. Bytes(raw, a)' = Bytes(raw \ fold.rows, a)
      BY <1>1, Zenon DEF Bytes, RowsOf
    <3>4. daily'[a] = daily[a] + Bytes(fold.rows, a)
      BY <1>0, Zenon
    <3>5. metered'[a] = metered[a]
      BY <1>1, Zenon
    <3>6. Bytes(fold.rows, a) \in Nat /\ Bytes(raw \ fold.rows, a) \in Nat
      BY <1>4, Zenon
    <3> QED
      BY <3>1, <3>2, <3>3, <3>4, <3>5, <3>6
  <2> QED
    BY <1>1, <1>3, <2>1, <2>2, Zenon DEF Totals, TotalsKept
<1>9. ASSUME NEW p \in Ingest PROVE Fits(p, job[p])'
  BY <1>1, Zenon DEF BillingInv, Fits, InTx, InOrder, Drained, Charged
<1> QED
  BY <1>5, <1>6, <1>7, <1>8, <1>9, Zenon DEF BillingInv

\* The invariant holds initially.
LEMMA BillingInitially == Init => BillingInv
<1> SUFFICES ASSUME Init PROVE BillingInv
  BY Zenon
<1>1. \A p \in Ingest : job[p] = Idle
  BY Zenon DEF Init
<1>2. /\ Granted \in SUBSET Ent /\ Stale \in SUBSET Report
      /\ \A e \in Ent : Owner[e] \in Account /\ Volume[e] \in Nat
  BY BillingAssumption, Zenon
<1>3. Typed
  <2>1. authz \in SUBSET Account
    BY <1>2, Zenon DEF Init, Desired, Live
  <2>2. job \in [Ingest -> Job]
    BY IdleIs, Zenon DEF Init
  <2>3. fold \in [cutoff : SUBSET Report, rows : SUBSET raw]
    BY Zenon DEF Init, NoFold
  <2> QED
    BY <1>2, <2>1, <2>2, <2>3, Zenon DEF Init, Typed, Zero
<1>4. Ledger
  BY DEF Init, Ledger
<1>5. Books
  <2>1. \A a \in Account : \A e \in EntsOf(a) : used[e] = 0
    BY Zenon DEF Init, EntsOf
  <2>2. \A a \in Account : SumOver(used, EntsOf(a)) = 0
    BY <2>1, EntsFinite, SumZero, Zenon
  <2> QED
    BY <1>2, <2>2 DEF Init, Books, UsedBy, EntsOf, Zero
<1>6. Totals
  <2>1. \A a \in Account : Bytes({}, a) = 0
    <3>1. \A a \in Account : RowsOf({}, a) = {}
      BY Zenon DEF RowsOf
    <3> QED
      BY <3>1, SumEmpty, Zenon DEF Bytes
  <2> QED
    BY <2>1, FS_EmptySet DEF Init, Totals, TotalsKept, Zero
<1>7. ASSUME NEW p \in Ingest PROVE Fits(p, job[p])
  <2>1. InOrder(Idle)
    <3>1. \A n \in DOMAIN Expiry : Idle.take[Expiry[n]] = 0
      BY IdleIs, BillingAssumption, Zenon DEF Ent
    <3> QED
      BY <3>1, IdleIs, Zenon DEF InOrder
  <2> QED
    BY <1>1, <2>1, IdleIs, Zenon DEF Fits
<1> QED
  BY <1>3, <1>4, <1>5, <1>6, <1>7, Zenon DEF BillingInv

\* Every step keeps the invariant.
LEMMA BillingKeeps ==
  ASSUME BillingInv, [Next]_vars
  PROVE  BillingInv'
<1>0. /\ ents \in SUBSET Ent /\ expired \in SUBSET Ent /\ catalog \in SUBSET Service
      /\ authz \in SUBSET Account /\ recent \in SUBSET Account /\ old \in SUBSET Report
  BY Zenon DEF BillingInv, Typed
<1>1. ASSUME NEW p \in Ingest, IngestStep(p) \/ Fails(p) \/ \E r \in Report : Post(p, r)
      PROVE  BillingInv'
  BY <1>1, PostKeeps, InsertReportKeeps, NextSampleKeeps, ConsumeVolumeKeeps, DropExcessKeeps,
     CommitKeeps, RecomputeAfterKeeps, EndKeeps, Zenon DEF IngestStep
<1>2. ASSUME NEW r \in Report, Age(r) PROVE BillingInv'
  BY <1>0, <1>2, AsideKeeps, Zenon DEF Age, storeVars, bookVars, history
<1>3. ASSUME NEW e \in Ent, Credit(e) PROVE BillingInv'
  <2>1. ents' \in SUBSET Ent /\ ents \subseteq ents'
    BY <1>0, <1>3, Zenon DEF Credit
  <2>2. authz' \in SUBSET Account /\ recent' \in SUBSET Account
    BY <1>0, <1>3, <2>1, RecomputeTyped, Zenon DEF Credit
  <2> QED
    BY <1>0, <1>3, <2>1, <2>2, AsideKeeps, Zenon DEF Credit, bookVars, history
<1>4. ASSUME NEW e \in Ent, Expire(e) PROVE BillingInv'
  BY <1>0, <1>4, AsideKeeps, Zenon DEF Expire, bookVars, history
<1>5. ASSUME NEW a \in Account, Forget(a) PROVE BillingInv'
  BY <1>0, <1>5, AsideKeeps, Zenon DEF Forget, bookVars, history
<1>6. ASSUME NEW s \in Service, CreateService(s) PROVE BillingInv'
  BY <1>0, <1>6, AsideKeeps, Zenon DEF CreateService, bookVars, history
<1>7. CASE ExpirySweep
  <2>1. authz' \in SUBSET Account /\ recent' \in SUBSET Account
    BY <1>0, <1>7, RecomputeTyped, Zenon DEF ExpirySweep
  <2> QED
    BY <1>0, <1>7, <2>1, AsideKeeps, Zenon DEF ExpirySweep, bookVars, history
<1>8. CASE UNCHANGED vars
  BY <1>0, <1>8, AsideKeeps, Zenon DEF vars, storeVars, bookVars, history
<1> QED
  BY <1>1, <1>2, <1>3, <1>4, <1>5, <1>6, <1>7, <1>8, FoldUsageKeeps, DropReportsKeeps, Zenon DEF Next

-----------------------------------------------------------------------------
(* Theorems                                                                *)

\* What the argument carries from step to step.
THEOREM BillingInvariant == Spec => []BillingInv
<1>1. BillingInv /\ [Next]_vars => BillingInv'
  BY BillingKeeps, Zenon
<1> QED
  BY <1>1, BillingInitially, PTL DEF Spec

\* A report is booked at most once and no answer is given for one that was
\* not, for any number of requests, exits and failures, except where
\* retention dropped the row of a report whose exit still waited.
THEOREM ReportBookedOnce == Spec => []BookedOnce
<1>1. BillingInv => BookedOnce
  BY Zenon DEF BillingInv, Typed, Ledger, BookedOnce
<1> QED
  BY <1>1, BillingInvariant, PTL

\* Accounts pay the weight of what was booked for them, to the byte, and no
\* entitlement is overdrawn, however transactions interleave.
THEOREM AccountsChargedExactly == Spec => []ChargedExactly
<1>1. BillingInv => ChargedExactly
  BY Zenon DEF BillingInv, Books, ChargedExactly
<1> QED
  BY <1>1, BillingInvariant, PTL

\* Folding samples into daily totals neither loses nor repeats a byte.
THEOREM FoldingKeepsTotals == Spec => []TotalsKept
<1>1. BillingInv => TotalsKept
  BY Zenon DEF BillingInv, Totals
<1> QED
  BY <1>1, BillingInvariant, PTL

\* Only a commit ends a transaction as committed.
LEMMA CommitsIs ==
  ASSUME BillingInv, Next, NEW p \in Ingest, InTx(p), job'[p].pc = "committed"
  PROVE  Commit(p)
<1>0. job \in [Ingest -> Job]
  BY Zenon DEF BillingInv, Typed
<1>1. PICK j : j = job[p]
  BY Zenon
<1>2. j \in Job /\ j.pc = "tx"
  BY <1>0, <1>1, Zenon DEF InTx
<1>3. job'[p] # j
  BY <1>2, Zenon
<1>4. PICK q \in Ingest : IngestStep(q) \/ Fails(q) \/ \E r \in Report : Post(q, r)
  <2>1. \/ \E q \in Ingest : IngestStep(q) \/ Fails(q) \/ \E r \in Report : Post(q, r)
        \/ job' = job
    BY Zenon DEF Next, Age, Credit, Expire, Forget, CreateService, FoldUsage, DropReports, ExpirySweep
  <2> QED
    BY <1>1, <1>3, <2>1, Zenon
<1>5. \E new : Becomes(q, new)
  BY <1>4, Zenon DEF IngestStep, InsertReport, NextSample, ConsumeVolume, DropExcess, Commit, RecomputeAfter,
              Answer, DeadlockAbort, Fails, Post
<1>6. q = p
  BY <1>0, <1>1, <1>3, <1>5, Zenon DEF Becomes
<1>7. CASE Commit(p)
  BY <1>7, Zenon
<1>8. CASE InsertReport(p) \/ RecomputeAfter(p) \/ Answer(p) \/ \E r \in Report : Post(p, r)
  BY <1>1, <1>2, <1>8, IdleIs, Zenon DEF InsertReport, RecomputeAfter, Answer, Post
<1>9. CASE NextSample(p) \/ ConsumeVolume(p) \/ DropExcess(p)
  <2>1. \/ \E n, rows, left : job'[p] = [j EXCEPT !.n = n, !.rows = rows, !.left = left]
        \/ \E left, take : job'[p] = [j EXCEPT !.left = left, !.take = take]
        \/ \E less : job'[p] = [j EXCEPT !.left = 0, !.short = less]
    <3>1. CASE NextSample(p)
      BY <1>0, <1>1, <3>1, ZenonT(40) DEF NextSample, Becomes
    <3>2. CASE ConsumeVolume(p)
      BY <1>0, <1>1, <3>2, ZenonT(40) DEF ConsumeVolume, Becomes
    <3>3. CASE DropExcess(p)
      BY <1>0, <1>1, <3>3, Zenon DEF DropExcess, Becomes
    <3> QED
      BY <1>9, <3>1, <3>2, <3>3, Zenon
  <2> QED
    BY <1>2, <2>1, Zenon DEF Job
<1>10. CASE Fails(p) \/ DeadlockAbort(p)
  <2>1. job'[p] = Idle
    BY <1>0, <1>10, Zenon DEF Fails, DeadlockAbort, Becomes
  <2> QED
    BY <2>1, IdleIs, Zenon
<1> QED
  BY <1>4, <1>6, <1>7, <1>8, <1>9, <1>10, Zenon DEF IngestStep

\* Volume is drawn in the order of expiry by every transaction, whatever
\* others commit while it runs.
THEOREM ConsumedInOrder == Spec => DrawnInOrder
<1>1. ASSUME BillingInv, [Next]_vars
      PROVE  [\A p \in Ingest : InTx(p) /\ job'[p].pc = "committed" => CommitsInOrder(p)]_vars
  <2> SUFFICES ASSUME Next, NEW p \in Ingest, InTx(p), job'[p].pc = "committed"
               PROVE  CommitsInOrder(p)
    BY <1>1, Zenon
  <2>1. Commit(p)
    BY <1>1, CommitsIs, Zenon
  <2>2. PICK j : j = job[p]
    BY Zenon
  <2>3. j \in Job /\ InOrder(j) /\ used \in [Ent -> Nat]
    BY <1>1, <2>2, Zenon DEF BillingInv, Fits, Typed
  <2>4. \A e \in Ent : used'[e] = used[e] + j.take[e] /\ j.take[e] \in Nat /\ used[e] \in Nat
    BY <2>1, <2>2, <2>3, Zenon DEF Commit, Job
  <2>5. \A n \in DOMAIN Expiry : Expiry[n] \in Ent
    BY BillingAssumption
  <2>6. j.had \in SUBSET Ent
    BY <2>3, Zenon DEF Job
  <2>7. \A e \in Ent : Drained(j, e) => Full(e)
    BY <2>4, Zenon DEF Drained, Full
  <2>8. \A n \in DOMAIN Expiry : used'[Expiry[n]] # used[Expiry[n]] => j.take[Expiry[n]] > 0
    BY <2>4, <2>5
  <2> HIDE DEF Drained, Full
  <2> QED
    BY <2>2, <2>3, <2>5, <2>6, <2>7, <2>8, Zenon DEF InOrder, CommitsInOrder
<1> QED
  BY <1>1, BillingInvariant, PTL DEF Spec, DrawnInOrder
=============================================================================
