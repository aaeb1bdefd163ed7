------------------------------ MODULE Billing -------------------------------
(***************************************************************************)
(* How usage reports are charged (backend/store/usage.go IngestUsage and   *)
(* consumeVolume, backend/store/retention.go AggregateUsage,               *)
(* backend/store/admin.go CreditVolume and CreditTime).                    *)
(*                                                                         *)
(* A report is booked in one transaction that locks the entitlements it    *)
(* draws on, sample by sample, until it commits.  Several reports are in   *)
(* flight at once, from several exits or because an exit repeats one it    *)
(* has no answer to.  Postgres ends a cycle of waits by failing one of     *)
(* them.  now() is the time the transaction began: what expires meanwhile   *)
(* still pays, and what is credited meanwhile already does.                *)
(***************************************************************************)
EXTENDS Integers, Sequences, FiniteSetsExt, Sums

CONSTANTS Account, Service, Report,
          Ingest,      \* requests the backend may run at once
          Samples,     \* the samples of each report
          Rate,        \* services.rate_ppm
          Expiry,      \* the entitlements that will ever be, by expires_at
          Owner,       \* the account of each
          Volume,      \* volume_bytes of each; 0: a time pass
          Granted,     \* those credited at the start
          Stale,       \* reports that already waited RETENTION_DAYS at an exit
          Million,     \* the scale of rate_ppm
          MaxSample,   \* maxSampleBytes
          MaxFaults,   \* bound: failures, timeouts and catalog changes
          MaxElapsed   \* bound: entitlements and reports that time overtakes

Ent == {Expiry[n] : n \in DOMAIN Expiry}

None == "none"

ASSUME BillingAssumption ==
  /\ Million \in Nat \ {0} /\ MaxSample \in Nat /\ MaxFaults \in Nat /\ MaxElapsed \in Nat
  /\ Granted \subseteq Ent /\ Stale \subseteq Report
  /\ Owner \in [Ent -> Account] /\ Volume \in [Ent -> Nat] /\ Rate \in [Service -> Nat]
  /\ Expiry \in Seq(Ent) /\ \A m, n \in DOMAIN Expiry : Expiry[m] = Expiry[n] => m = n
  /\ Samples \in [Report -> Seq([account : Account \cup {None}, service : Service \cup {None}, bytes : Nat])]
  /\ None \notin Account \cup Service \cup Report

VARIABLES ents,     \* entitlements credited
          expired,  \* those past expires_at
          used,     \* volume_used
          catalog,  \* services that are enabled
          authz,    \* accounts whose address is in authz_current
          recent,   \* those with a revision of the last 7 days
          ledger,   \* usage_reports
          raw,      \* usage_samples
          daily,    \* usage_daily, summed per account
          job,      \* the requests that ingest
          fold,     \* AggregateUsage: its cutoff, and the samples its first statement took
          old,      \* reports whose window ended before the cutoff
          acked,    \* reports whose exit has the answer
          faults,   \* faults so far
          booked,   \* history: how often each report was booked
          late,     \* history: reports asked for when their row was dropped
          owed,     \* history: weighted bytes booked per account
          metered,  \* history: bytes booked per account under a known service
          short     \* history: accounts that had an excess written off

storeVars == <<ents, expired, used, catalog, authz, recent>>
bookVars == <<ledger, raw, daily, fold>>
history == <<booked, late, owed, metered, short>>
vars == <<storeVars, bookVars, job, old, acked, faults, history>>

\* A request that does nothing; the other states fill in what they need.
Idle == [pc |-> "idle", report |-> None, services |-> {}, had |-> {}, gone |-> {}, n |-> 0,
         left |-> 0, rows |-> {}, take |-> [e \in Ent |-> 0], short |-> {}]
NoFold == [cutoff |-> {}, rows |-> {}]
Zero == [a \in Account |-> 0]

\* A positive rate weighs the bytes: divided first, so that the product of a
\* clamped sample fits an int64.
Clamp(b) == IF b > MaxSample THEN MaxSample ELSE b
Weighted(b, rate) == (b \div Million) * rate + ((b % Million) * rate) \div Million

\* Entitlements that count now, and the addresses that should be authorized.
Live == {e \in ents \ expired : Volume[e] = 0 \/ used[e] < Volume[e]}
Desired == {Owner[e] : e \in Live}

Init ==
  /\ ents = Granted /\ expired = {} /\ used = [e \in Ent |-> 0]
  /\ catalog = Service /\ authz = Desired /\ recent = {}
  /\ ledger = {} /\ raw = {} /\ daily = Zero /\ fold = NoFold
  /\ job = [p \in Ingest |-> Idle]
  /\ old = Stale /\ acked = {} /\ faults = 0
  /\ booked = [r \in Report |-> 0] /\ late = {} /\ owed = Zero /\ metered = Zero /\ short = {}

Fault == faults < MaxFaults /\ faults' = faults + 1

\* RecomputeAuthz
Recompute ==
  /\ authz' = {Owner[e] : e \in {d \in ents' \ expired : Volume[d] = 0 \/ used'[d] < Volume[d]}}
  /\ recent' = recent \cup (authz \ authz') \cup (authz' \ authz)

-----------------------------------------------------------------------------
(* IngestUsage                                                             *)

Becomes(p, new) == job' = [job EXCEPT ![p] = new]
InTx(p) == job[p].pc = "tx"

\* An exit posts a report it has no answer to; again, when it gave up waiting
\* for the request that has it.  The services are read before the transaction
\* begins.
Post(p, r) ==
  /\ job[p] = Idle /\ r \notin acked
  /\ IF \E q \in Ingest : job[q].report = r THEN Fault ELSE UNCHANGED faults
  /\ Becomes(p, [Idle EXCEPT !.pc = "asked", !.report = r, !.services = catalog, !.had = ents, !.gone = expired])
  /\ UNCHANGED <<storeVars, bookVars, old, acked, history>>

\* Mutant of InsertReport: the row is committed before the samples are booked.
InsertReportAhead(p) ==
  LET j == job[p] IN
  /\ j.pc = "asked"
  /\ Becomes(p, IF j.report \in ledger THEN [Idle EXCEPT !.pc = "answer", !.report = j.report]
                ELSE [j EXCEPT !.pc = "tx"])
  /\ ledger' = ledger \cup {j.report}
  /\ UNCHANGED <<storeVars, raw, daily, fold, old, acked, faults, history>>

\* INSERT INTO usage_reports ... ON CONFLICT (id) DO NOTHING waits for a
\* transaction that inserted the id; a repeated report changes nothing.
InsertReport(p) ==
  LET j == job[p] IN
  /\ j.pc = "asked"
  /\ \A q \in Ingest \ {p} : InTx(q) => job[q].report # j.report
  /\ Becomes(p, IF j.report \in ledger THEN [Idle EXCEPT !.pc = "answer", !.report = j.report]
                ELSE [j EXCEPT !.pc = "tx"])
  /\ UNCHANGED <<storeVars, bookVars, old, acked, faults, history>>

\* The account that holds the address, or held it in the last 7 days.
AccountOf(a) == IF a \in authz \cup recent THEN a ELSE None

\* The next sample is recorded; when it can be charged, its weight is due.
NextSample(p) ==
  LET j   == job[p]
      smp == Samples[j.report][j.n + 1]
      row == [report |-> j.report, n |-> j.n + 1, account |-> AccountOf(smp.account),
              service |-> IF smp.service \in j.services THEN smp.service ELSE None,
              bytes |-> Clamp(smp.bytes)] IN
  /\ InTx(p) /\ j.left = 0 /\ j.n < Len(Samples[j.report])
  /\ Becomes(p, [j EXCEPT !.n = @ + 1, !.rows = @ \cup {row},
       !.left = IF None \in {row.account, row.service} THEN 0
                ELSE Weighted(row.bytes, Rate[row.service])])
  /\ UNCHANGED <<storeVars, bookVars, old, acked, faults, history>>

\* The account being charged, and its entitlements with volume left, as this
\* transaction sees them.
Payer(j) == Samples[j.report][j.n].account
HasVolume(j) ==
  {n \in DOMAIN Expiry : /\ Expiry[n] \in ents \ j.gone /\ Owner[Expiry[n]] = Payer(j)
                         /\ used[Expiry[n]] + j.take[Expiry[n]] < Volume[Expiry[n]]}
\* Mutant of Earliest: the one that expires last.
Latest(j) == Expiry[Max(HasVolume(j))]
Earliest(j) == Expiry[Min(HasVolume(j))]

\* Whose row lock the transaction waits for.
Holders(p) ==
  IF InTx(p) /\ job[p].left > 0 /\ HasVolume(job[p]) # {}
  THEN {q \in Ingest \ {p} : InTx(q) /\ job[q].take[Earliest(job[p])] > 0}
  ELSE {}

\* Mutant of ConsumeVolume: the row is read without a lock.
ConsumeUnlocked(p) ==
  LET j == job[p]
      e == Earliest(j)
      c == Min({j.left, Volume[e] - used[e] - j.take[e]}) IN
  /\ InTx(p) /\ j.left > 0 /\ HasVolume(j) # {}
  /\ Becomes(p, [j EXCEPT !.left = @ - c, !.take[e] = @ + c])
  /\ UNCHANGED <<storeVars, bookVars, old, acked, faults, history>>

\* One turn of consumeVolume: SELECT ... FOR UPDATE, then the UPDATE.
ConsumeVolume(p) ==
  LET j == job[p]
      e == Earliest(j)
      c == Min({j.left, Volume[e] - used[e] - j.take[e]}) IN
  /\ InTx(p) /\ j.left > 0 /\ HasVolume(j) # {} /\ Holders(p) = {}
  /\ Becomes(p, [j EXCEPT !.left = @ - c, !.take[e] = @ + c])
  /\ UNCHANGED <<storeVars, bookVars, old, acked, faults, history>>

\* Nothing is left to draw on: the excess is dropped.
DropExcess(p) ==
  /\ InTx(p) /\ job[p].left > 0 /\ HasVolume(job[p]) = {}
  /\ Becomes(p, [job[p] EXCEPT !.left = 0, !.short = @ \cup {Payer(job[p])}])
  /\ UNCHANGED <<storeVars, bookVars, old, acked, faults, history>>

\* What rows add to the bytes of an account, and what it is charged for them.
RowsOf(rows, a) == {s \in rows : s.account = a /\ s.service # None}
Bytes(rows, a) == SumOver([s \in RowsOf(rows, a) |-> s.bytes], RowsOf(rows, a))
Charge(rows, a) ==
  SumOver([s \in RowsOf(rows, a) |-> Weighted(s.bytes, Rate[s.service])], RowsOf(rows, a))

Commit(p) ==
  LET j == job[p] IN
  /\ InTx(p) /\ j.left = 0 /\ j.n = Len(Samples[j.report])
  /\ used' = [e \in Ent |-> used[e] + j.take[e]]
  /\ ledger' = ledger \cup {j.report}
  /\ raw' = raw \cup j.rows
  /\ Becomes(p, [Idle EXCEPT !.pc = "committed", !.report = j.report])
  /\ booked' = [booked EXCEPT ![j.report] = @ + 1]
  /\ owed' = [a \in Account |-> owed[a] + Charge(j.rows, a)]
  /\ metered' = [a \in Account |-> metered[a] + Bytes(j.rows, a)]
  /\ short' = short \cup j.short
  /\ UNCHANGED <<ents, expired, catalog, authz, recent, daily, fold, old, acked, faults, late>>

\* The recompute after the commit, whose removals go with the answer.
RecomputeAfter(p) ==
  /\ job[p].pc = "committed"
  /\ UNCHANGED <<ents, used>> /\ Recompute
  /\ Becomes(p, [job[p] EXCEPT !.pc = "answer"])
  /\ UNCHANGED <<expired, catalog, bookVars, old, acked, faults, history>>

Answer(p) ==
  /\ job[p].pc = "answer"
  /\ acked' = acked \cup {job[p].report}
  /\ Becomes(p, Idle)
  /\ UNCHANGED <<storeVars, bookVars, old, faults, history>>

\* The transaction or the recompute fails, or the answer is lost: the exit
\* keeps the report.
Fails(p) ==
  /\ job[p].pc \in {"tx", "committed", "answer"} /\ Fault
  /\ Becomes(p, Idle)
  /\ UNCHANGED <<storeVars, bookVars, old, acked, history>>

\* Postgres finds a cycle of waits and fails a transaction of it.
DeadlockAbort(p) ==
  /\ \E q \in Holders(p) : p \in Holders(q)
  /\ Becomes(p, Idle)
  /\ UNCHANGED <<storeVars, bookVars, old, acked, faults, history>>

-----------------------------------------------------------------------------
(* AggregateUsage: two statements of one transaction, each with a snapshot  *)
(* of its own                                                              *)

\* A report's window passes RETENTION_DAYS.
Elapsed == Cardinality(expired) + Cardinality(old \ Stale)
Age(r) ==
  /\ r \notin old /\ Elapsed < MaxElapsed
  /\ old' = old \cup {r}
  /\ UNCHANGED <<storeVars, bookVars, job, acked, faults, history>>

\* WITH old AS ..., folded AS ..., removed AS ...  (A sweep that finds no old
\* sample changes nothing.)
FoldUsage ==
  /\ fold = NoFold
  /\ fold' = [cutoff |-> old, rows |-> {s \in raw : s.report \in old}]
  /\ fold'.rows # {}
  /\ UNCHANGED <<storeVars, ledger, raw, daily, job, old, acked, faults, history>>

\* Reports whose row may go: old, and without a sample that was not folded.
Emptied == {r \in ledger \cap fold.cutoff : \A s \in raw \ fold.rows : s.report # r}

\* Mutant of DropReports: the samples are deleted by age, not those folded.
DropByAge ==
  /\ fold # NoFold
  /\ raw' = {s \in raw : s.report \notin fold.cutoff}
  /\ daily' = [a \in Account |-> daily[a] + Bytes(fold.rows, a)]
  /\ ledger' = ledger \ fold.cutoff
  /\ fold' = NoFold
  /\ late' = late \cup (ledger \cap fold.cutoff)
  /\ UNCHANGED <<storeVars, job, old, acked, faults, booked, owed, metered, short>>

\* DELETE FROM usage_reports ..., and the commit.
DropReports ==
  /\ fold # NoFold
  /\ raw' = raw \ fold.rows
  /\ daily' = [a \in Account |-> daily[a] + Bytes(fold.rows, a)]
  /\ ledger' = ledger \ Emptied
  /\ fold' = NoFold
  /\ late' = late \cup {r \in Emptied : r \notin acked \/ \E p \in Ingest : job[p].report = r}
  /\ UNCHANGED <<storeVars, job, old, acked, faults, booked, owed, metered, short>>

-----------------------------------------------------------------------------
(* Entitlements and the catalog                                            *)

\* CreditVolume, CreditTime
Credit(e) ==
  /\ e \in Ent \ (ents \cup expired)
  /\ ents' = ents \cup {e} /\ UNCHANGED used /\ Recompute
  /\ UNCHANGED <<expired, catalog, bookVars, job, old, acked, faults, history>>

\* Time passes: expires_at of the next entitlement, the 7 days of a revision.
Expire(e) ==
  /\ e \notin expired /\ Elapsed < MaxElapsed
  /\ e = Expiry[Cardinality(expired) + 1]
  /\ expired' = expired \cup {e}
  /\ UNCHANGED <<ents, used, catalog, authz, recent, bookVars, job, old, acked, faults, history>>

Forget(a) ==
  /\ a \in recent
  /\ recent' = recent \ {a}
  /\ UNCHANGED <<ents, expired, used, catalog, authz, bookVars, job, old, acked, faults, history>>

\* adminCreateService enables or disables a service.
CreateService(s) ==
  /\ Fault
  /\ catalog' = IF s \in catalog THEN catalog \ {s} ELSE catalog \cup {s}
  /\ UNCHANGED <<ents, expired, used, authz, recent, bookVars, job, old, acked, history>>

\* Mutant of ExpirySweep: what is authorized stays so until the next report.
SweepAddsOnly ==
  /\ authz # Desired
  /\ authz' = authz \cup Desired
  /\ recent' = recent \cup (authz' \ authz)
  /\ UNCHANGED <<ents, expired, used, catalog, bookVars, job, old, acked, faults, history>>

\* runExpirySweep
ExpirySweep ==
  /\ authz # Desired
  /\ UNCHANGED <<ents, used>> /\ Recompute
  /\ UNCHANGED <<expired, catalog, bookVars, job, old, acked, faults, history>>

-----------------------------------------------------------------------------
IngestStep(p) ==
  \/ InsertReport(p) \/ NextSample(p) \/ ConsumeVolume(p) \/ DropExcess(p)
  \/ Commit(p) \/ RecomputeAfter(p) \/ Answer(p) \/ DeadlockAbort(p)

Next ==
  \/ \E p \in Ingest : IngestStep(p) \/ Fails(p) \/ \E r \in Report : Post(p, r)
  \/ \E r \in Report : Age(r)
  \/ \E e \in Ent : Credit(e) \/ Expire(e)
  \/ \E a \in Account : Forget(a)
  \/ \E s \in Service : CreateService(s)
  \/ FoldUsage \/ DropReports \/ ExpirySweep

Spec == Init /\ [][Next]_vars

\* runExpirySweep goes on whatever else fails.  (A sweep always changes authz.)
FairSpec == Spec /\ WF_authz(ExpirySweep)

-----------------------------------------------------------------------------
\* A report the exit has an answer to was booked, and once, however often and
\* however concurrently it was sent, deadlocks and failures in between
\* included.  The exception is a report whose row retention dropped before its
\* exit had the answer: one already RETENTION_DAYS old when it got through.
BookedOnce ==
  \A r \in Report : (r \in acked => booked[r] >= 1) /\ (booked[r] <= 1 \/ r \in late)

\* What was drawn from the entitlements of an account.
UsedBy(a) == SumOver(used, {e \in Ent : Owner[e] = a})

\* An account is charged the weight of what was booked for it, to the byte,
\* across entitlements, unless an excess had to be dropped, and reports booked
\* at the same time never draw more from an entitlement than it has: the
\* second waits for the row and reads it again (consumeVolume).
ChargedExactly ==
  /\ \A a \in Account : a \notin short => UsedBy(a) = owed[a]
  /\ \A e \in Ent : Volume[e] > 0 => used[e] <= Volume[e]

\* A sample of a known account and service is raw or in a daily total, never
\* both and never neither: what the dashboard adds up does not move when
\* samples are folded while reports arrive (AggregateUsage).
TotalsKept == \A a \in Account : daily[a] + Bytes(raw, a) = metered[a]

\* What a commit leaves of the entitlements its transaction may use.
Full(e) == used'[e] >= Volume[e]
CommitsInOrder(p) ==
  LET seen == job[p].had \ job[p].gone IN
  /\ \A m, n \in DOMAIN Expiry :
       /\ m < n /\ Owner[Expiry[m]] = Owner[Expiry[n]] /\ Expiry[m] \in seen
       /\ used'[Expiry[n]] # used[Expiry[n]]
       => Full(Expiry[m])
  /\ \A a \in job[p].short, e \in seen : Owner[e] = a => Full(e)

\* Volume is drawn in the order of expiry: a transaction charges an
\* entitlement only when each earlier one it may use is used up, and drops an
\* excess only when all are.
DrawnInOrder ==
  [][\A p \in Ingest : InTx(p) /\ job'[p].pc = "committed" => CommitsInOrder(p)]_vars

\* authz_current catches up with the entitlements again and again: an account
\* without a live one loses access and one that was credited has it, also when
\* the recompute after a report failed and the repeated report found nothing to
\* do: the sweep takes over.
AuthzCatchesUp == []<>(authz = Desired)
=============================================================================
