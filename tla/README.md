# A TLA+ model of fips-exit-gate

fips-exit-gate sells internet access at exit nodes of the fips mesh. A backend
(Go and Postgres) decides which fips addresses are authorized and charges
accounts for what they use; an agent on every exit mirrors the authorized set
into nftables, meters traffic and reports it back; a dispatcher on the exit
carries the connections. This directory models those parts and what happens
between them, checks the models with TLC and proves the central properties with
TLAPS.

## The system

| part | state | operations | modelled by |
|---|---|---|---|
| revision log, `backend/store/authz.go` | `authz_current`, `authz_revisions`, memo of the fingerprint | RecomputeAuthz, FullSet, DeltaSince, AuthzStatus | AuthzLog, RecomputeTx |
| retention, `backend/store/retention.go` | the same log, `usage_reports`, `usage_samples`, `usage_daily` | CompactAuthzRevisions, AggregateUsage | AuthzLog and RecomputeTx, Billing |
| long poll, `backend/api.go`, `notify.go` | parked handlers, one wake-up channel, the LISTEN connection | authz handler, wait, broadcast, listenOnce | LongPoll |
| agent sync, `agent/agent.go` | kernel set, cursor, resync flag | runSync, applyAuthz, graceCheck, runHeartbeat, applyRevocations | AuthzSync, AuthzSyncRestore |
| agent usage, `agent/agent.go`, `usage.go` | counters, baselines, report buffer | collectAndBuffer, flushBuffer, gcAcct | UsageMetering |
| agent state, `agent/state.go` | `runtime.json`, `identity.json` | load, withRuntime, writeJSONAtomic, saveIdentity | AuthzSync, UsageMetering, ExitNode |
| usage ingestion, `backend/store/usage.go` | reports, samples, entitlements | IngestUsage, consumeVolume, credits | Billing |
| purchases, `store/packages.go`, `store/payments.go`, `portal.go` buy | purchases, entitlements | CreatePurchase, AttachInvoice, SettlePurchase, GrantByInvoice, VoidByInvoice, MarkProcessing | Purchases |
| ecash, `payments/cashu.go`, `portal.go` payCashu, cashuReceive | proofs, requests | MeltProofs, the mint | Cashu |
| webhooks, reconciler, expiry sweep, `payments_handler.go`, `reconciler.go`, `sweep.go` | events, invoices | webhook, sweep, runExpirySweep | Purchases, Billing (the last) |
| whitelist, `store/whitelist.go`, `store/admin.go` | whitelist entries | InviteGuest, AcceptInvite, ActivateOwner, AddWhitelist, SetWhitelistEnabled, CreateAccount | Whitelist |
| WireGuard peers, `store/wg.go`, `agent/wg.go` | `wg_peers`, its sequence and indexes, interface peers, etag | CreateWgPeer, DeleteWgPeer, runWgSync, applyWgPeers | WgPeers |
| enrolment and outage clock, `store/nodes.go`, `agent/agent.go` | tokens, nodes, identity, `LastAuthzOK` | EnrollNode, ensureEnrolled, initLastAuthzOK, markAuthzOK, graceCheck | ExitNode |
| gate, dispatcher, captive daemon, `deploy/render-nftables.sh`, `dispatch/`, `captive/` | connections, semaphores | gate, handle, relay, captive handlers | Dispatch, composed in ExitNode |

`PROJECT.json` lists every part, the ones left out with the reason, and the
hazards each is exposed to. How the parts interact:

* A purchase, an expiry, an invitation or exhausted volume changes the desired
  set. RecomputeAuthz, under one advisory lock, brings `authz_current` to it and
  appends one add or del row per changed address; the commit carries a NOTIFY.
* The NOTIFY wakes the long polls. The agent gets a delta from its cursor, or a
  full set, applies it to the kernel set in one nft batch and then saves the
  cursor.
* The usage loop of the same agent posts reports; the backend draws them from
  the entitlements, and the answer may name addresses to revoke at once, which
  changes the kernel set behind the sync loop's back.
* The heartbeat compares the kernel set with the database at the same revision
  and asks for a resync when they differ.
* The kernel set decides where a new connection goes and resets flows whose
  source has left it. When the backend is silent for too long the agent empties
  the set.
* Memory, disk and kernel can each survive without the others: crashes,
  unreadable or unsaved state, flushes, and a database restored from a dump.

## Modules

**AuthzLog** is the log as one atomic object: RecomputeAuthz for an arbitrary
desired set, with serial gaps and every order of the rows that Go's map
iteration allows; compaction of a prefix; DeltaSince with its compaction check
and replay; writeAuthz, which falls back to a full set. `setAt` and `touched`
are history variables: the set committed with a revision, and the newest row
that names an address.

**RecomputeTx** opens RecomputeAuthz up into begin, lock, scan, insert, commit
or rollback, for several transactions at once, and compaction by `created_at`
(the start of the transaction) at any cutoff. It is shown to implement AuthzLog:
`Log == INSTANCE AuthzLog WITH authz_revisions <- authz_revisions \cup holes`,
and `ImplementsLog` is that log's specification. `holes` is a history variable:
rows deleted above a row that was kept. AuthzLog compacts prefixes, so the
mapping puts them back, and HolesWaited says which rows they can be.

**AuthzSync** runs the three loops of an agent against AuthzLog. The kernel set
is read and written in separate steps (ApplyList then ApplyBatch, RevokeList
then RevokeApply, GraceList then GraceApply), because each nft call is a process
of its own and nothing locks the set between them. A batch that deletes an
absent element fails whole, as nft does. `Restart` is the process start with
what is on disk. `cut` is a history variable: addresses taken out by something
other than runSync.

**AuthzSyncRestore** adds a dump of the database and its restoration under a
running agent, and with it the regression branch of runSync (ApplyRegressed),
which nothing else can reach (`RegressionNeedsRestore`). The history variables
follow the restored timeline.

**LongPoll** has one step for each thing a handler does between a request and
its answer (take the channel, read the revision, answer or park), the listener
with a dropped and re-established connection, and broadcasts. The channel
generation is a counter: closing a Go channel and making a new one.

**UsageMetering** follows bytes from the kernel counters through baselines,
buffer and reports to what the backend has booked. `traffic`, `lossy`,
`ahead` and `exposed` are history variables: what passed; whether the code wrote
bytes off on purpose (reset counters, counters deleted on revocation, a lost
state file, a full buffer); whether memory holds baselines that no write has
saved; and whether a crash happened while it did.

**Billing** takes over where a report reaches the backend. IngestUsage is a
transaction that goes through its samples: clamp, rate, the sample's row, then
consumeVolume, which locks one entitlement after the other in the order of
expiry and keeps the locks to the end. Requests wait for each other's rows and
read them again afterwards, as READ COMMITTED does; a cycle of waits fails one of
them, and the exit repeats the report. The recompute that follows the commit is
a transaction of its own and may fail. AggregateUsage is its two statements, with
a snapshot each. Credits, expiry and the catalogue change in between. `booked`,
`owed`, `metered`, `short` and `late` are history variables.

**Purchases** is one account's purchases on each payment rail (BTCPay, phoenixd,
none, the development shortcut). The buy request is split where the code calls
out: cap, row, invoice, attach. Every store operation locks the purchase row and
is one step; the recompute that ends it is a transaction of its own and may
fail. The provider, its webhooks (repeated until acknowledged, in any order; a
phoenixd one may be lost) and the reconciler, which asks first and voids later,
interleave with it. Only an attached invoice is paid, because the buyer is shown
no other. `lost`, `late` and `comped` are history variables.

**Cashu** extends Purchases with tokens, their mint and the two handlers that
present them. MeltProofs is split at its two requests, the quote and the melt;
the mint takes the proofs, pays or gives them back, and its answer may be lost or
say PENDING. The handlers change no purchase: a token that is spent is the
step Pay of Purchases. A purchase that is settled already answers 200 to a token,
which is then not redeemed.

**Whitelist** is the rows of one address in `whitelist_entries`, and requests
that change them as READ COMMITTED transactions: what a statement saw, which
rows it waits for, and the partial unique index `whitelist_active_addr`. The
database rules (`Seen`, `Free`, `MayCheck`) are external, modelled from how the
store relies on them. `consent` and `missed` are history variables.

**WgPeers** is CreateWgPeer statement by statement, for several requests: the
advisory lock of the address, the count against the cap, up to `Attempts` draws
from the sequence, and an insert that waits for another request's on the same
key or slot. The agent's half polls with the etag of what it applied last, lists
the interface and changes it, where single commands may fail; the interface may
be changed from outside, and a restart forgets the etag.

**Dispatch** is a client's connections: the gate's decision, the accept loops
with their semaphores, the handler's phases with each early return, the deadline
that runs from the accept to the relay, the two copies of the relay with half
closes and resets, the idle watchdog and the lifetime. **ExitNode** composes it
with the agent: enrolment against the backend's tokens, crashes and restarts, and
the outage clock that decides when the set is emptied. Its clocks tick in the
resolution at which `LastAuthzOK` is saved. A failing nft command is AuthzSync's
subject and is left out here.

**Sums** is the sum of a function over a finite set, which the properties about
bytes and charges are stated with.

**The `*Proofs` modules** hold the proofs: AuthzProofs those of AuthzLog,
AuthzSync and AuthzSyncRestore, RevisionProofs those of RecomputeTx and LongPoll,
PurchasesProofs those of Purchases and Cashu, AddressProofs those of Whitelist and
WgPeers, ExitNodeProofs those of ExitNode with Dispatch; UsageMetering, Billing and
Sums have one each.
`MC*.tla` give the constants values. The definitions named *Mutant of* next to
an operation are deliberately wrong variants: with one in place of the
operation, the property that is supposed to notice is violated.

## Runs

| run | checks | instance |
|---|---|---|
| authz_sync | StrayCovered, MissingExplained, MemoFresh, Converges | 2 addresses, 3 revisions, any 1 of 9 kinds of fault; no periodic reconcile, so deltas, drift and resync must do it alone |
| authz_restore | MirrorsRestored, CursorBackOnlyByFull | 2 addresses, 2 revisions on each timeline, 1 restore, 1 crash, unreadable state or failed write |
| authz_restore_live | RestoreConverges | 1 restore, no periodic reconcile |
| recompute_tx | HolesWaited, ImplementsLog | 2 transactions at a time, 3 in all, rollbacks, compaction at any cutoff |
| long_poll | NoMissedWake, AnsweredPromptly | 2 polls, 2 revisions, 1 dropped connection |
| usage_metering | TypeOK, CountedOnce, NothingLost, EventuallyBilled | 2 counters, 2 bytes each, buffer of 2, any 3 faults of 8 kinds |
| usage_double_count | NeverDoubleCounts, **violated** | 1 counter, a write that fails or an unreadable file, then a crash |
| purchases | AccessMatchesStatus, GrantedOnlyPaid, RejectedKept, ChoiceKept, PaidUnlocks, OpenEnds | Cashu with Purchases: 1 purchase, every rail, 1 lost webhook, 1 token |
| whitelist | AttachedByConsent, NeverStranded | 2 hosts, the address's own account, 3 requests at once |
| wg_peers | CapHolds, OwnInnerAddress, FullIsCrowded, NoDeadlock, EtagTruthful, InterfaceFollows | 2 addresses, 2 keys, 2 requests, 2 slots, any table and sequence position at the start, 1 fault |
| billing | BookedOnce, ChargedExactly, TotalsKept, DrawnInOrder, AuthzCatchesUp | 2 reports that charge 2 accounts in opposite orders, 4 entitlements, 1 fault, 1 lapse |
| exit_node | SlotsMatch, OutcomeTold, EnrolledOnce, FlushedOnlyAfterGrace, OutageFailsClosed, LapsedEndsTunnels | a new exit, or one whose agent was down for any time with the backend reachable or not; 2 connections for 1 slot, 2 tokens, 1 fault |

Type invariants are theorems and are not repeated in a run, except that of
UsageMetering, which states the cap of the buffer; the same holds for SettledIsFinal, SizedTokenCovers and
OneAccount, which are below with the others.

What the properties say:

* *StrayCovered* and *MissingExplained* are the two halves of "the kernel set is
  the authorized set at the agent's revision". An extra address is named by a
  row past the cursor; a missing one too, or it was cut by a revocation, a flush
  or the fail-closed clear.
* *MemoFresh*: the fingerprint memo is the set of the revision it is filed under.
* *Converges*: when changes and faults stop, the kernel set becomes the
  authorized set. The exception is `Held`: a full set refused by the mass-revoke
  guard when there is no cursor to go on from, which the operator has to release.
* *MirrorsRestored*, *CursorBackOnlyByFull*, *RestoreConverges*: the same after
  the log was replaced by an older one, where the cursor may be ahead of it.
* *HolesWaited*: compaction goes by `created_at`, and a recompute that waited
  for the lock has a later revision with an earlier `created_at`. A row in the
  middle can therefore go (`backend/store/retention.go:56`), and DeltaSince, which
  looks at the smallest revision only (`backend/store/authz.go:261-262`), does not
  notice. HolesWaited is the exact exception; it takes a cutoff inside the wait
  and an agent further behind than the retention period. *ImplementsLog* is
  everything else.
* *NoMissedWake*, *AnsweredPromptly*: a commit between reading the revision and
  parking, or while the listener is away, still wakes the handler; the fallback
  timers are not needed for that and have no fairness.
* *CountedOnce*: a byte is billed twice only after a crash that met a collection,
  or the recovery of `runtime.json`, that no write had saved. The finding below
  shows that such a crash does bill twice (*NeverDoubleCounts* has no exception).
  *NothingLost* and *EventuallyBilled* are the other direction.
* *BookedOnce*, *ChargedExactly*, *DrawnInOrder*: reports that
  are repeated, concurrent or failed by a deadlock are booked once; their weighted
  bytes are drawn in full unless the account ran short; nothing is drawn beyond an
  entitlement, and the one that expires first is drawn first. BookedOnce excepts a
  report that was older than `RETENTION_DAYS` before its answer got through: its
  idempotency key may be gone.
* *TotalsKept*: what the dashboard adds up does not move when samples are folded.
  It is about samples of a known account and an enabled service. A sample whose
  service was not known when it was booked is dropped by the fold, while
  `docs/configuration.md:52` says that totals are unchanged; it was not part of
  the totals by service before either.
* *AuthzCatchesUp*: the authorized accounts are those with a live entitlement again
  and again, so one without loses access even if the recompute after its report
  failed and the repetition was a duplicate.
* *AccessMatchesStatus*, *GrantedOnlyPaid*, *SettledIsFinal*: however events,
  sweeps and the operator overtake one another, a purchase has its entitlement
  exactly when it is settled, only after a final payment (or the operator's
  word), and for good.
* *ChoiceKept*: a settlement brings the buyer's address home once, with the new
  entitlement; a repetition does not undo an invitation accepted since.
* *PaidUnlocks*: a final payment ends in a settled purchase and an
  `authz_current` that agrees, even where the recompute failed. The exception is
  `Missed`: the reconciler is told "not paid", the payment arrives, the purchase
  is voided as expired on the old answer (`backend/reconciler.go:65`), and the
  webhook that would repair it is lost. ListOpenLightning lists only open
  purchases, so nothing else does, although `backend/reconciler.go:13-15` says
  that payments settle even if a webhook is missed. *OpenEnds*: a purchase with
  an invoice does not count against the cap on open purchases for ever. One whose
  invoice could not be created or attached does; only adminSettle ends it.
* *RejectedKept*, *SizedTokenCovers*: a buyer told "rejected" still has the token
  unless the mint's answer was lost (a spent token is a payment, so PaidUnlocks
  applies to it all the same); a token of the size the page asks for covers every
  mint that reserves at most one percent, rounded up.
* *OneAccount*, *AttachedByConsent*, *NeverStranded*: an address is active on at
  most one account, on a host only by consent, and not on none while it has an
  account. NeverStranded has one exception, found by TLC: CreateAccount inserts
  the owner row parked because a guest row is active, while SetWhitelistEnabled
  disables that row and sees no owner row to fall back to. The address then has
  no active row, which the comment at `backend/store/admin.go:113-116` rules
  out, until its owner buys or chooses their own account.
* *CapHolds*, *OwnInnerAddress*, *NoDeadlock*, *FullIsCrowded*: concurrent requests
  keep the cap and give every device a slot of its own, never wait in a circle,
  and a request nothing crossed gives up only in a crowded pool.
* *EtagTruthful*, *InterfaceFollows*: a 204 means there is nothing to do, and the
  periodic full poll repairs what failed, was changed from outside or forgotten.
* *SlotsMatch*: every way out of a handler gives its slot back, once.
  *OutcomeTold*: a client whose request was read is told what became of it. The
  exception is in the code: the handshake deadline (15 s) also covers the dial and
  the upstream's answer, so a reply later than that cannot be written.
* *LapsedEndsTunnels*: when access lapses, the client's tunnels end and their slots
  are free even if both ends stay silent. It needs the idle watchdog
  (`IdleTimeout = TRUE`): the reset ends only the copy from the client, and the
  other waits for the upstream or the watchdog, 2 h by default and never if
  it is switched off. `docs/hardening.md:104-107` says that the dispatcher
  "closes both sides within about 30 s".
* *EnrolledOnce*: a token makes at most one node. It is lost if the agent crashes
  between the backend's answer and the file, and the agent then needs a new one.
* *FlushedOnlyAfterGrace*, *OutageFailsClosed*: restarts in an outage neither flush
  early nor put the flush off for ever. The configured window is not saved, so a
  restarted agent goes by the default until its next heartbeat; the property
  is about the window in force. An answer that could not be applied, or whose
  time could not be saved, leaves the clock running (`skewed`).

Bounds. Two addresses let one be added while the other is removed and make the
mass-revoke guard distinguish a part from the whole; three revisions let a response,
the cursor and the log be at three different places. One fault at a time, at any
point, is what the sync properties are checked for with TLC; in the proofs this
bound, like the others, is any number. With a restore the fault is a crash, an
unreadable file or a failed write, which are what the cursor depends on; the others
are left to authz_sync. The two restore runs are separate because together with
liveness they take too long. Two transactions are enough for overlap, a third for
one that starts after a commit. Reports and counters are small because only equality
and order of byte counts matter.

In billing a million is 4 and the clamp 8, with one sample above it, a rate that
does not divide, a time pass, an entitlement credited on the way, one sample that
spans two entitlements and a report that is already past retention. The two
reports lock accounts in opposite orders, so the deadlock happens. In wg_peers
five addresses leave two slots, so that the sequence wraps and both the pool
and two attempts can run out. One purchase is enough for what happens to a
purchase, since purchases share only the address and the cap; two, or two tokens,
are too many for TLC with liveness, and the proofs of the safety properties cover any number. A price of 50
and reserves of 1 and 2 are on either side of the rounding. Two hosts and three
requests let an address move between hosts while a third request disables,
re-enables or creates a row; rows of other addresses never meet. In exit_node two
connections compete for one slot, one of them to an onion name the exit does not
serve. The run starts with a new exit or with one that comes back at any age of
its saved clock, in an outage or not, so that one fault more (another crash,
an outage, a lapse) is enough for an outage that spans restarts; the default and
the configured window differ. Symmetry (of addresses, or of hosts and requests) is
used only in safety runs.

Deadlock is checked in every run but billing: there the reports come to an end,
every one is answered, and the lapses are bounded.

Fairness. Every loop of the agent is a goroutine that ends only with the
process, and the process is restarted, so its steps are weakly fair, and so are
the handler's and the listener's. Where an answer may arrive or fail, the
failure is a fault and bounded. Recomputes, compaction, traffic and faults have
no fairness. In Purchases the two timers run for as long as the backend does,
BTCPay repeats an event until it is acknowledged, every invoice is paid or ends,
and a failing lookup, grant or acknowledgement does not fail every time (strong
fairness of the successful step). Buying, paying, losing a webhook and the
operator have no fairness, and neither have the wallets and mints of Cashu. In
Billing only the expiry sweep is fair, in WgPeers the agent's
loop and its full-poll timer. In ExitNode the agent is restarted and its loops and
clock go on, handlers run, idle timers pass, and a keepalive provokes the reset
of a silent flow; nothing is assumed of the client, the upstream or the
backend. Whitelist has none and no liveness property.

## Findings

**usage_double_count** (`agent/agent.go:527`): a collection whose write failed is
delivered from memory; a crash before the next write brings the old baselines
back and the bytes are billed again under a new report id. The comment at
`agent/agent.go:481-483` promises the opposite. With `Faults` restricted to
`{"crash", "corrupt", "recovery"}` the same property shows the second way
(`agent/state.go:91`): the unreadable file is renamed before the clean state with
its prime flag is written, and a crash in between bills every live counter
again, which `agent/state.go:62-64` says the write prevents.

The other disagreements between a text and the code are exceptions written into
a property, and are named with it above: HolesWaited, PaidUnlocks, NeverStranded,
LapsedEndsTunnels and TotalsKept.

## Proofs

Every invariant, action property and refinement that a run checks is also
proved, for every value of the constants that the named assumptions allow
(finite sets of addresses, keys, connections; any number of requests,
transactions, faults and revisions). Each safety property has the same shape:
an inductive invariant that implies it, one lemma for each action that can
disturb the invariant, and a theorem `Spec => []Property`.

### The authorized set (AuthzProofs)

Of AuthzSync: `TypeCorrect`, `NoStrandedAccess` (StrayCovered), `NoLostGrant`
(MissingExplained), `FingerprintFresh` (MemoFresh) and `RegressionNeedsRestore`
(NeverBehind: no answer is behind the cursor).

None of them is inductive alone. The invariant is
`IInv == TypeOK /\ LogInv /\ MirrorInv /\ AnswerInv /\ MemoInv`:

* *LogInv*: `touched` is at or above every row of its address, and unless the
  log is compacted past a revision the rows above it tell what changed;
* *MirrorInv*: the kernel set is right for the cursor **and** for the cursor on
  disk, since a crash goes back to that one;
* *AnswerInv*: a response in flight is right for the revision it carries, and a
  computed batch leads from the listed set to it, though the kernel set may have
  changed since it was listed;
* *MemoInv*: the memo is never ahead of the log.

The log lemmas (what a recompute, a compaction and a delta do) are proved once;
`DeltaComplete` is what a delta promises.

Of AuthzSyncRestore: `RestoredIsMirrored` (MirrorsRestored) and
`RegressionOnlyByFull` (CursorBackOnlyByFull), for any number of dumps and
restores. *RestoreInv* keeps LogInv for the dump as well (*DumpInv*), since a
restore makes it the log, and says of the kernel set (*OnMirror*) and of an answer
under way (*OnAnswer*) what MirrorInv and AnswerInv say, but only while they belong
to the present timeline: an answer of the old one may be anything, and the proof
shows that only a full set of the new one brings the agent back.

### Recomputes and long polls (RevisionProofs)

Of RecomputeTx: `TxInvariant`, `HolesWereWaited` (HolesWaited) and
`RecomputesImplementLog` (ImplementsLog). *TxInv* says that only the holder of the
advisory lock has read or written anything, that its rows have consecutive numbers
past every committed row and name each address once (*Numbered*), and that what it
has written and has still to write is the difference between the committed set and
the one it read (*Writes*). The refinement then maps a commit to RecomputeAuthz of
AuthzLog, a compaction to the compaction of a prefix or a stutter, and every other
step to a stutter. RecomputeAuthz of AuthzLog skips at most `MaxGap` serial numbers,
a bound for TLC, so the theorem assumes `MaxGap >= MaxRev - 1`: room for every
number that rolled-back recomputes can use up. The run has that relation too.

Of LongPoll: `PollsTyped` and `NoSleepThroughRevision` (NoMissedWake) for any set of polls.
NoMissedWake needs two bounds to be inductive (*WakeInv*): a notification never exceeds the
revision, and a handler's channel is never newer than the current one.

### Sums (SumsProofs)

UsageMetering and Billing add up bytes over sets of reports, rows and
entitlements. SumsProofs derives from the definition of `SumOver` what such a sum
does when an element is added, removed or changed, when a set is split or two
functions are added (`SumInsert`, `SumRemove`, `SumBump`, `SumSplit`, `SumAdd`, ...).
The fold is defined by recursion on sets, and the provers cannot use the library's
induction theorems; the lemmas `LeastNumber` and `Smallest` stand in for them: if
a statement about finite sets fails, it fails for a smallest one, and from there
each lemma is a contradiction in one step.

### Usage metering (UsageMeteringProofs)

`MeteringTypes` (TypeOK, with the cap of the buffer), `BilledOnce` (CountedOnce)
and `NoByteLost` (NothingLost), for any counters, traffic, buffer and faults. The
inductive invariant has four parts:

* *AgentInv*: types, and report ids in a buffer increase and are below the next
  one, so that no two reports share an idempotency key;
* *InStep*: while no collection is unsaved, memory and file have the same
  baselines and differ only in reports the backend has seen;
* *OnceInv*: unless `exposed`, what is billed, in reports the backend has not seen
  and above the baselines is at most what passed. It is kept for the memory and,
  while the agent is down, for the file it will start from; between the read of
  the counters and the collection also for the values read;
* *LossInv*: the same as an equality, unless something was written off.

InStep is what carries both sums over a crash: the agent comes back with the
file, and what it had in memory beyond that the backend had already seen.

`NeverTwiceIfWritesSucceed` marks the boundary of the finding: with neither
`"persist"` nor `"recovery"` among the faults, NeverDoubleCounts holds without
exception, whatever else crashes, is lost or reset.

### Billing (BillingProofs)

`ReportBookedOnce` (BookedOnce), `AccountsChargedExactly` (ChargedExactly),
`FoldingKeepsTotals` (TotalsKept), and the action property `ConsumedInOrder`
(DrawnInOrder), for any reports, samples, accounts, entitlements, rates and
number of concurrent requests. *BillingInv* (`BillingInvariant`) consists of

* *Fits*, for every request: in a transaction, the rows it inserted are of its own
  report, what it took from the entitlements and what it still has to draw is the
  charge for those rows (*Charged*), an entitlement is drawn on only when the earlier
  ones are used up (*InOrder*), and no other transaction has its report or an
  entitlement it took from (*Apart*, the row locks); outside one, it holds nothing;
* *Ledger*: a report that was booked is in the ledger, or was dropped after its
  answer arrived, with nobody sending it any more, or is `late`;
* *Books* and *Totals*: the committed sums, and that every raw row is of a report
  in the ledger, so that a commit adds rows that are not there yet.

### Purchases and ecash (PurchasesProofs)

For any set of purchases, `PurchasesTyped`, `EntitledIffSettled`
(AccessMatchesStatus), `NoGrantBeforeFinal` (GrantedOnlyPaid), and the action
properties `SettlementIsFinal` and `ChoiceSurvives`. The inductive invariant adds to
them *BuyInv* (no row and no invoice before the step of the request that makes
it, and nothing found by invoice id, by a webhook or the reconciler, before the
request is done) and *EventInv* (a Settled event is only ever about an invoice
that is settled). Without EventInv, a Settled webhook in flight could be for an
invoice that is not final. Grant and void are two lemmas used by every action that
calls them.

`CashuImplementsPurchases` (CashuSpec => Spec), for any tokens, prices and mints:
every step of the ecash handlers and the mint is a step of Purchases or a stutter,
so that all of the above holds with ecash (`PurchasesSafe`, the action properties
included). Of the tokens, `MeltTyped`, `RejectedTokensKept` and `HeadroomCovers`;
*MeltInv* adds that a buyer is told something only when the request is over, and that
proofs are pending only for a purchase.

### Addresses: whitelist and WireGuard (AddressProofs)

`WhitelistTyped`, `AddressHasOneAccount`, `HostsNeedConsent` and
`AddressNeverStranded` for any hosts and requests. They need one another (*RowsInv*):
a host that was left can be enabled again only while nothing else is active, and the
address has an account of its own by then (*LeftForOwn*), so consent rests on
NeverStranded, which in turn rests on *Clean*: only a request that is parking or
disabling has uncommitted writes.

`WgPeersTyped`, `CapIsKept`, `InnerAddressesDistinct`, `RequestsNeverDeadlock`,
`FullMeansCrowded` and `EtagIsTruthful` for any pool, cap, keys and requests. The
invariant says what a transaction holds before it commits: the lock of its address
(*Exclusive*), room under the cap (*Room*), a slot and a key that nobody else has
(*Reserved*). FullMeansCrowded needs, beyond that, which slots a request has tried
(*AloneInv*): as long as nothing crosses it they are the last ones the sequence
passed, the wrap included, all different and all taken, and a count of an interval
gives the bound. The agent's part needs that no answer routes one address to two
keys.

### The exit (ExitNodeProofs)

`ExitNodeTyped`, `SlotsAreCounted`, `ClientsAreTold`, `TokensEnrolOnce` and
`GraceIsKept` for any connections, slots, tokens and windows. *Sound* relates, for
each connection, where its handler is to what the upstream answered and the client
was told; the slots are a count over all connections, so each entering and leaving
step has a cardinality lemma. *Slow* is what the outage clock needs: unless
`skewed`, neither the clock nor its copy on disk is ahead of the true outage.

### Only model-checked

The liveness properties: Converges, RestoreConverges, AnsweredPromptly,
EventuallyBilled, PaidUnlocks, OpenEnds, InterfaceFollows, AuthzCatchesUp,
OutageFailsClosed and LapsedEndsTunnels. They rest on fairness, and the prover
reasons neither about it nor about ENABLED. NeverDoubleCounts is the finding and
holds only under the assumption above.

## Not modelled

* Portal pages, login and session: a login is one request that verifies a
  signature and a MAC over a timestamp and sets a signed cookie; no state on the
  server is shared by two requests. The token in the captive redirect is of the
  same kind.
* The rate limiter: sequential arithmetic on floating-point time under a mutex.
* Signatures, hashing and address derivation: fingerprints are taken as
  injective, addresses as opaque values.
* Encodings: HTTP clients of payment providers and of the agent, SOCKS messages,
  nft and wg output. Whether they succeed is modelled, not how.
* The cap on guests, which spans addresses while Whitelist has one. The catalogue
  of packages and a node's announcement of its own WireGuard key are updates of
  a single row.
* The nftables rules for UDP and for tunnels, the limit of connections per
  source, the deployment scripts; the sets the agent uses are state, and a reload
  is an external step.
* Migrations, wiring and configuration, metrics and logging, the test doubles and
  tools under `cmd/`.
