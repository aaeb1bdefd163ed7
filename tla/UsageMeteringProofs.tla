------------------------ MODULE UsageMeteringProofs -------------------------
(***************************************************************************)
(* Metering for any set of counters, any buffer and any faults: no byte is *)
(* billed twice and none is lost, but for what the model names.            *)
(*                                                                         *)
(* Both follow one sum through the agent: what is billed, what the buffer  *)
(* holds that the backend has not seen, and what the counters show above   *)
(* the baselines.  It never exceeds what passed (Sound), and is equal to   *)
(* it while nothing was written off (Balanced).  As a restart continues    *)
(* from runtime.json, the file must satisfy the same as the memory does,   *)
(* unless memory is ahead of it: the two may differ only in reports the    *)
(* backend has seen (InStep).  That a report is not counted again when it  *)
(* is sent again needs that its id is its own (Numbered).                  *)
(***************************************************************************)
EXTENDS UsageMetering, SumsProofs

Up == pc \notin {"down", "recover"}

\* Ids are drawn once.
Numbered(buf, n) ==
  /\ \A i \in 1 .. Len(buf) : buf[i].id < n
  /\ \A i, j \in 1 .. Len(buf) : buf[i].id = buf[j].id => i = j

AgentInv ==
  /\ TypeOK
  /\ Len(disk.buf) <= BufferCap
  /\ Numbered(rt.buf, nextId) /\ Numbered(disk.buf, nextId)
  /\ \A n \in ingested : n < nextId
  /\ pc \in {"posted", "acked", "remove"} => rt.buf # <<>> /\ report = Head(rt.buf)
  /\ pc \in {"acked", "remove"} => report.id \in ingested
  /\ pc = "recover" => ahead /\ rt = Recovered
  /\ pc = "down" => ~ahead

\* The memory and the file differ only in reports the backend has seen.
InStep ==
  Up /\ ~ahead =>
    /\ file # "corrupt"
    /\ rt.base = disk.base /\ rt.prime = disk.prime
    /\ Unseen(rt.buf) = Unseen(disk.buf)

\* What the counters show above the baselines of r, as the next collection
\* will find it.
Above(r, k) == IF r.prime THEN 0 ELSE Delta(r.base[k], acct[k])

Sound(r) == \A k \in Key : billed[k] + Undelivered(r.buf, k) + Above(r, k) <= traffic[k]

\* What was read but not collected, and what passed since.
SoundRead ==
  \A k \in Key : billed[k] + Undelivered(rt.buf, k)
                 + (IF rt.prime THEN 0 ELSE Delta(rt.base[k], cur[k]))
                 + Delta(cur[k], acct[k]) <= traffic[k]

OncePart ==
  /\ \A k \in Key : billed[k] <= traffic[k]
  /\ pc # "down" => Sound(rt)
  /\ pc = "down" /\ file # "corrupt" => Sound(disk)
  /\ pc = "read" => SoundRead

OnceInv == exposed \/ OncePart

Balanced(r) ==
  \A k \in Key : /\ r.base[k] <= acct[k]
                 /\ billed[k] + Undelivered(r.buf, k) + (acct[k] - r.base[k]) = traffic[k]

LossPart ==
  /\ pc # "recover" /\ file # "corrupt"
  /\ ~rt.prime /\ ~disk.prime
  /\ Up => Balanced(rt)
  /\ pc = "down" => Balanced(disk)
  /\ pc = "read" => \A k \in Key : rt.base[k] <= cur[k] /\ cur[k] <= acct[k]

LossInv == lossy \/ exposed \/ LossPart

IInv == AgentInv /\ InStep /\ OnceInv /\ LossInv

-----------------------------------------------------------------------------
(* Bytes in sets of reports                                                *)

\* The bytes of a finite set of reports are a natural.
LEMMA BytesInNat ==
  ASSUME NEW U \in SUBSET Report, IsFiniteSet(U), NEW k \in Key
  PROVE  BytesIn(U, k) \in Nat
<1> DEFINE f == [r \in U |-> r.samples[k]]
<1>1. \A r \in U : f[r] \in Nat
  BY Zenon DEF Report, Bytes
<1> HIDE DEF f
<1>2. SumOver(f, U) \in Nat
  BY <1>1, SumNat, Zenon
<1> QED
  BY <1>2, Zenon DEF f, BytesIn

\* A part of the reports, counted with the samples of all.
LEMMA BytesInPart ==
  ASSUME NEW U \in SUBSET Report, IsFiniteSet(U), NEW T \in SUBSET U, NEW k \in Key
  PROVE  BytesIn(T, k) = SumOver([r \in U |-> r.samples[k]], T)
<1> DEFINE f == [r \in U |-> r.samples[k]]
           g == [r \in T |-> r.samples[k]]
<1>1. IsFiniteSet(T) /\ \A r \in T : g[r] = f[r]
  BY FS_Subset, Zenon
<1> HIDE DEF f, g
<1>2. SumOver(g, T) = SumOver(f, T)
  BY <1>1, SumSame, Zenon
<1> QED
  BY <1>2, Zenon DEF f, g, BytesIn

\* Taking a report out of a set takes its bytes out of the sum.
LEMMA BytesInRemove ==
  ASSUME NEW U \in SUBSET Report, IsFiniteSet(U), NEW a \in U, NEW k \in Key
  PROVE  BytesIn(U, k) = a.samples[k] + BytesIn(U \ {a}, k)
<1> DEFINE f == [r \in U |-> r.samples[k]]
<1>1. (\A r \in U : f[r] \in Nat) /\ f[a] = a.samples[k]
  BY Zenon DEF Report, Bytes
<1>2. BytesIn(U \ {a}, k) = SumOver(f, U \ {a}) /\ BytesIn(U, k) = SumOver(f, U)
  BY BytesInPart, Zenon
<1> HIDE DEF f
<1> QED
  BY <1>1, <1>2, SumRemove

\* Putting a new report into a set adds its bytes to the sum.
LEMMA BytesInInsert ==
  ASSUME NEW U \in SUBSET Report, IsFiniteSet(U), NEW a \in Report, a \notin U, NEW k \in Key
  PROVE  BytesIn(U \cup {a}, k) = a.samples[k] + BytesIn(U, k)
<1>1. IsFiniteSet(U \cup {a}) /\ (U \cup {a}) \ {a} = U /\ U \cup {a} \in SUBSET Report
  BY FS_AddElement
<1> QED
  BY <1>1, BytesInRemove

\* A part of a set of reports holds no more bytes than the set.
LEMMA BytesInSubset ==
  ASSUME NEW U \in SUBSET Report, IsFiniteSet(U), NEW T \in SUBSET U, NEW k \in Key
  PROVE  BytesIn(T, k) <= BytesIn(U, k)
<1> DEFINE f == [r \in U |-> r.samples[k]]
<1>1. \A r \in U : f[r] \in Nat
  BY Zenon DEF Report, Bytes
<1>2. BytesIn(T, k) = SumOver(f, T) /\ BytesIn(U, k) = SumOver(f, U)
  BY BytesInPart, Zenon
<1> HIDE DEF f
<1> QED
  BY <1>1, <1>2, SumSubset, Zenon

-----------------------------------------------------------------------------
(* Buffers                                                                 *)

\* A buffer holds finitely many reports.
LEMMA RangeFinite ==
  ASSUME NEW buf \in Seq(Report)
  PROVE  Range(buf) \in SUBSET Report /\ IsFiniteSet(Range(buf))
<1>1. IsFiniteSet(1 .. Len(buf))
  BY FS_Interval
<1>2. buf \in Surjection(1 .. Len(buf), Range(buf))
  BY DEF Range, Surjection
<1>3. Range(buf) \in SUBSET Report
  BY DEF Range
<1> QED
  BY <1>1, <1>2, <1>3, FS_Surjection, Zenon

\* Finitely many reports of a buffer are still unknown to the backend.
LEMMA UnseenFinite ==
  ASSUME NEW buf \in Seq(Report)
  PROVE  Unseen(buf) \in SUBSET Report /\ IsFiniteSet(Unseen(buf))
<1>1. Unseen(buf) \in SUBSET Range(buf)
  BY Zenon DEF Unseen
<1> QED
  BY <1>1, RangeFinite, FS_Subset, Zenon

\* The bytes a buffer still has to deliver are a natural.
LEMMA UndeliveredNat ==
  ASSUME NEW buf \in Seq(Report), NEW k \in Key
  PROVE  Undelivered(buf, k) \in Nat
BY UnseenFinite, BytesInNat, Zenon DEF Undelivered

\* Appending a report adds it to the buffer's set of reports.
LEMMA RangeAppend ==
  ASSUME NEW buf \in Seq(Report), NEW r \in Report
  PROVE  Range(Append(buf, r)) = Range(buf) \cup {r}
<1> DEFINE b == Append(buf, r)
<1>1. /\ b \in Seq(Report) /\ Len(b) = Len(buf) + 1 /\ Len(buf) \in Nat
      /\ \A i \in 1 .. Len(buf) : b[i] = buf[i]
      /\ b[Len(buf) + 1] = r
  OBVIOUS
<1>2. DOMAIN b = 1 .. Len(buf) + 1 /\ DOMAIN buf = 1 .. Len(buf)
  BY <1>1
<1> HIDE DEF b
<1>3. Range(b) \subseteq Range(buf) \cup {r}
  BY <1>1, <1>2 DEF Range
<1>4. r \in Range(b)
  BY <1>1, <1>2 DEF Range
<1>5. Range(buf) \subseteq Range(b)
  <2> SUFFICES ASSUME NEW y \in Range(buf) PROVE y \in Range(b)
    BY Zenon
  <2>1. PICK i \in 1 .. Len(buf) : buf[i] = y
    BY <1>2, Zenon DEF Range
  <2>2. b[i] = y /\ i \in DOMAIN b
    BY <1>1, <1>2, <2>1
  <2> QED
    BY <2>2, Zenon DEF Range
<1> QED
  BY <1>3, <1>4, <1>5, Zenon DEF b

\* Removing the head removes exactly that report: the ids are distinct.
LEMMA RangeTail ==
  ASSUME NEW buf \in Seq(Report), buf # <<>>, NEW n \in Nat, Numbered(buf, n)
  PROVE  Range(Tail(buf)) = Range(buf) \ {Head(buf)} /\ Numbered(Tail(buf), n)
<1>1. /\ Tail(buf) \in Seq(Report) /\ Len(Tail(buf)) = Len(buf) - 1 /\ Len(buf) \in Nat \ {0}
      /\ \A i \in 1 .. Len(buf) - 1 : Tail(buf)[i] = buf[i + 1]
  OBVIOUS
<1>2. Numbered(Tail(buf), n)
  BY <1>1 DEF Numbered
<1>3. \A i \in 2 .. Len(buf) : buf[i] # Head(buf) /\ i - 1 \in 1 .. Len(Tail(buf)) /\ Tail(buf)[i - 1] = buf[i]
  BY <1>1 DEF Numbered
<1>4. Range(Tail(buf)) \subseteq Range(buf) \ {Head(buf)}
  BY <1>1, <1>3 DEF Range
<1>5. Range(buf) \ {Head(buf)} \subseteq Range(Tail(buf))
  <2> SUFFICES ASSUME NEW y \in Range(buf) \ {Head(buf)} PROVE y \in Range(Tail(buf))
    BY Zenon
  <2>1. PICK i \in 1 .. Len(buf) : buf[i] = y
    BY DEF Range
  <2>2. i \in 2 .. Len(buf)
    BY <1>1, <2>1
  <2>3. i - 1 \in DOMAIN Tail(buf) /\ Tail(buf)[i - 1] = y
    BY <1>1, <1>3, <2>1, <2>2
  <2> QED
    BY <2>3, Zenon DEF Range
<1> QED
  BY <1>2, <1>4, <1>5, Zenon

\* The capped buffer is a suffix of the buffer: it keeps the numbering and
\* the newest report, and drops nothing from a buffer within the cap.
LEMMA CappedPart ==
  ASSUME NEW buf \in Seq(Report), NEW n \in Nat, Numbered(buf, n)
  PROVE  /\ Capped(buf) \in Seq(Report) /\ Len(Capped(buf)) <= BufferCap
         /\ Range(Capped(buf)) \subseteq Range(buf) /\ Numbered(Capped(buf), n)
         /\ Len(buf) <= BufferCap => Capped(buf) = buf
         /\ buf # <<>> => Capped(buf) # <<>> /\ Capped(buf)[Len(Capped(buf))] = buf[Len(buf)]
<1>1. CASE Len(buf) <= BufferCap
  BY <1>1, MeteringAssumption DEF Capped
<1>2. CASE Len(buf) > BufferCap
  <2> DEFINE d == Len(buf) - BufferCap
             c == SubSeq(buf, d + 1, Len(buf))
  <2>1. d \in Nat /\ BufferCap \in Nat /\ d + BufferCap = Len(buf)
    BY <1>2, MeteringAssumption
  <2>2. c \in Seq(Report) /\ Len(c) = BufferCap /\ \A i \in 1 .. BufferCap : c[i] = buf[i + d]
    BY <2>1
  <2>3. Capped(buf) = c
    BY <1>2, Zenon DEF Capped
  <2> HIDE DEF d, c
  <2>4. \A i \in 1 .. BufferCap : i + d \in 1 .. Len(buf)
    BY <2>1
  <2>5. Range(c) \subseteq Range(buf)
    BY <2>2, <2>4 DEF Range
  <2>6. \A i \in 1 .. Len(c) : c[i].id < n
    BY <2>1, <2>2, <2>4, Zenon DEF Numbered
  <2>7. ASSUME NEW i \in 1 .. Len(c), NEW j \in 1 .. Len(c), c[i].id = c[j].id
        PROVE  i = j
    <3>1. buf[i + d].id = buf[j + d].id /\ i + d \in 1 .. Len(buf) /\ j + d \in 1 .. Len(buf)
      BY <2>2, <2>4, <2>7, Zenon
    <3>2. i + d = j + d
      BY <3>1, Zenon DEF Numbered
    <3> QED
      BY <2>1, <2>2, <3>2
  <2>8. Numbered(c, n)
    BY <2>6, <2>7, Zenon DEF Numbered
  <2>9. c # <<>> /\ c[Len(c)] = buf[Len(buf)]
    <3>1. BufferCap \in 1 .. BufferCap /\ Len(buf) = BufferCap + d
      BY <2>1, MeteringAssumption
    <3> QED
      BY <2>2, <3>1
  <2> QED
    BY <1>2, <2>1, <2>2, <2>3, <2>5, <2>8, <2>9
<1> QED
  BY <1>1, <1>2, MeteringAssumption

\* Appending the report with the next id keeps the buffer numbered.
LEMMA AppendNumbered ==
  ASSUME NEW buf \in Seq(Report), NEW n \in Nat, Numbered(buf, n), NEW r \in Report, r.id = n
  PROVE  /\ Append(buf, r) \in Seq(Report) /\ Numbered(Append(buf, r), n + 1)
         /\ Append(buf, r) # <<>> /\ Append(buf, r)[Len(Append(buf, r))] = r
         /\ Len(Append(buf, r)) = Len(buf) + 1
<1> DEFINE b == Append(buf, r)
<1>1. /\ b \in Seq(Report) /\ Len(b) = Len(buf) + 1 /\ Len(buf) \in Nat
      /\ \A i \in 1 .. Len(buf) : b[i] = buf[i] /\ buf[i].id \in Nat
      /\ b[Len(buf) + 1] = r
  <2>1. \A i \in 1 .. Len(buf) : buf[i] \in Report
    OBVIOUS
  <2>2. \A x \in Report : x.id \in Nat
    BY Zenon DEF Report
  <2> QED
    BY <2>1, <2>2
<1> HIDE DEF b
<1>a. \A i \in 1 .. Len(buf) : b[i].id < n
  BY <1>1, Zenon DEF Numbered
<1>b. \A i \in 1 .. Len(b) : i \in 1 .. Len(buf) \/ i = Len(buf) + 1
  BY <1>1
<1>c. b[Len(buf) + 1].id = n
  BY <1>1, Zenon
<1>d. n < n + 1 /\ ~(n < n) /\ \A m \in Nat : m < n => m < n + 1
  OBVIOUS
<1>2. \A i \in 1 .. Len(b) : b[i].id < n + 1
  <2> SUFFICES ASSUME NEW i \in 1 .. Len(b) PROVE b[i].id < n + 1
    OBVIOUS
  <2>1. CASE i \in 1 .. Len(buf)
    <3>1. b[i].id \in Nat /\ b[i].id < n
      BY <1>1, <1>a, <2>1, Zenon
    <3> QED
      BY <3>1, <1>d, Zenon
  <2>2. CASE i = Len(buf) + 1
    BY <2>2, <1>c, <1>d, Zenon
  <2> QED
    BY <1>b, <2>1, <2>2, Zenon
<1>3. ASSUME NEW i \in 1 .. Len(b), NEW j \in 1 .. Len(b), b[i].id = b[j].id
      PROVE  i = j
  <2>1. CASE i \in 1 .. Len(buf) /\ j \in 1 .. Len(buf)
    BY <1>1, <1>3, <2>1, Zenon DEF Numbered
  <2>2. CASE i = Len(buf) + 1
    <3>1. ~(b[j].id < n)
      BY <1>3, <1>c, <1>d, <2>2, Zenon
    <3> QED
      BY <1>a, <1>b, <2>2, <3>1, Zenon
  <2>3. CASE j = Len(buf) + 1
    <3>1. ~(b[i].id < n)
      BY <1>3, <1>c, <1>d, <2>3, Zenon
    <3> QED
      BY <1>a, <1>b, <2>3, <3>1, Zenon
  <2> QED
    BY <1>b, <2>1, <2>2, <2>3, Zenon
<1>4. b # <<>>
  BY <1>1
<1> QED
  BY <1>1, <1>2, <1>3, <1>4, Zenon DEF Numbered, b

\* The type of every field of the runtime state.
LEMMA RuntimeTyped ==
  ASSUME NEW r \in Runtime
  PROVE  /\ r.base \in Bytes /\ r.buf \in Seq(Report) /\ r.prime \in BOOLEAN
         /\ \A i \in 1 .. Len(r.buf) : r.buf[i] \in Report /\ r.buf[i].id \in Nat
         /\ \A k \in Key : r.base[k] \in Nat
<1>1. r.base \in Bytes /\ r.buf \in Seq(Report) /\ r.prime \in BOOLEAN
  BY Zenon DEF Runtime
<1>2. \A i \in 1 .. Len(r.buf) : r.buf[i] \in Report
  BY <1>1
<1>3. \A x \in Report : x.id \in Nat
  BY Zenon DEF Report
<1> QED
  BY <1>1, <1>2, <1>3, Zenon DEF Bytes

\* The empty runtime states, of a first start and of a recovery, are typed.
LEMMA FreshTyped ==
  /\ Zero \in Bytes /\ NoReport \in Report
  /\ Fresh \in Runtime /\ Recovered \in Runtime
  /\ Fresh.buf = <<>> /\ Recovered.buf = <<>> /\ ~Fresh.prime /\ Recovered.prime
  /\ \A n : Numbered(<<>>, n)
  /\ Len(<<>>) = 0 /\ BufferCap \in Nat /\ MaxFaults \in Nat
<1>1. Zero \in Bytes
  BY Zenon DEF Zero, Bytes
<1>2. NoReport \in Report
  BY <1>1, Zenon DEF NoReport, Report
<1>3. Fresh \in Runtime /\ Recovered \in Runtime
  BY <1>1 DEF Fresh, Recovered, Runtime
<1> QED
  BY <1>1, <1>2, <1>3, MeteringAssumption DEF Fresh, Recovered, Numbered

\* What a collection leaves in memory.
LEMMA CollectedIs ==
  ASSUME AgentInv, pc = "read"
  PROVE  /\ Collected \in Runtime
         /\ Collected.base = cur /\ Collected.prime = FALSE
         /\ \/ /\ rt.prime \/ Deltas = Zero
               /\ Collected.buf = rt.buf
            \/ LET new == [id |-> nextId, samples |-> Deltas] IN
               /\ ~rt.prime /\ Deltas # Zero /\ new \in Report
               /\ Collected.buf = Capped(Append(rt.buf, new))
               /\ Len(Collected.buf) <= BufferCap /\ Numbered(Collected.buf, nextId + 1)
               /\ Collected.buf # rt.buf
               /\ Len(rt.buf) < BufferCap => Collected.buf = Append(rt.buf, new)
<1> USE DEF AgentInv, TypeOK
<1>1. CASE rt.prime \/ Deltas = Zero
  BY <1>1, Zenon DEF Collected, Runtime
<1>2. CASE ~(rt.prime \/ Deltas = Zero)
  <2> DEFINE new == [id |-> nextId, samples |-> Deltas]
             b == Append(rt.buf, new)
  <2>1. \A k \in Key : rt.base[k] \in Nat /\ cur[k] \in Nat
    BY Zenon DEF Bytes, Runtime
  <2>2. Deltas \in Bytes
    BY <2>1 DEF Deltas, Delta, Bytes
  <2>3. new \in Report /\ new.id = nextId
    BY <2>2, Zenon DEF Report
  <2>4. Collected = [base |-> cur, buf |-> Capped(b), prime |-> rt.prime] /\ rt.prime = FALSE
    BY <1>2, Zenon DEF Collected, Runtime
  <2>5. /\ b \in Seq(Report) /\ Numbered(b, nextId + 1) /\ b # <<>> /\ b[Len(b)] = new
        /\ Len(b) = Len(rt.buf) + 1
    <3> HIDE DEF new
    <3>1. rt.buf \in Seq(Report) /\ Numbered(rt.buf, nextId) /\ nextId \in Nat
      BY RuntimeTyped, Zenon
    <3> QED
      BY <2>3, <3>1, AppendNumbered, ZenonT(30)
  <2> HIDE DEF b, new
  <2>n. nextId + 1 \in Nat
    OBVIOUS
  <2>6. /\ Capped(b) \in Seq(Report) /\ Len(Capped(b)) <= BufferCap /\ Numbered(Capped(b), nextId + 1)
        /\ Len(b) <= BufferCap => Capped(b) = b
        /\ Capped(b) # <<>> /\ Capped(b)[Len(Capped(b))] = new
    BY <2>5, <2>n, CappedPart, ZenonT(30)
  <2>7. Capped(b) # rt.buf
    <3> SUFFICES ASSUME Capped(b) = rt.buf PROVE FALSE
      BY Zenon
    <3>1. Len(rt.buf) \in 1 .. Len(rt.buf) /\ rt.buf[Len(rt.buf)].id = nextId
      BY <2>3, <2>6
    <3> QED
      BY <3>1 DEF Numbered
  <2>8. Len(rt.buf) < BufferCap => Capped(b) = b
    BY <2>5, <2>6, MeteringAssumption
  <2> QED
    BY <1>2, <2>3, <2>4, <2>6, <2>7, <2>8, Zenon DEF b, new, Runtime
<1> QED
  BY <1>1, <1>2, Zenon

-----------------------------------------------------------------------------
(* The agent's own state                                                   *)

\* The invariants of the agent hold initially.
LEMMA AgentInitially == Init => AgentInv /\ InStep
<1> SUFFICES ASSUME Init PROVE AgentInv /\ InStep
  BY Zenon
<1>1. TypeOK
  <2>1. rt \in Runtime /\ disk \in Runtime /\ Len(rt.buf) <= BufferCap
    BY FreshTyped DEF Init
  <2>2. 0 \in 0 .. MaxFaults
    BY FreshTyped
  <2> QED
    BY <2>1, <2>2, FreshTyped, Zenon DEF Init, TypeOK
<1> QED
  BY <1>1, FreshTyped DEF Init, AgentInv, InStep, Up

\* A counter that advances is still a counter for every key.
LEMMA BytesBumped ==
  ASSUME NEW k \in Key
  PROVE  \A f \in Bytes : [f EXCEPT ![k] = @ + 1] \in Bytes
BY DEF Bytes

\* Steps that leave the memory, the file and the ids alone.
LEMMA QuietKeeps ==
  ASSUME AgentInv,
         \/ \E k \in Key : Traffic(k)
         \/ CounterReset \/ ReadAcct \/ ReadFails \/ FlushDone \/ PostUsage \/ PostFails
         \/ ApplyRevocations \/ RevocationsFail
  PROVE  AgentInv'
<1> USE DEF AgentInv, TypeOK, agentVars, backendVars, history
<1>0. Zero \in Bytes /\ NoReport \in Report
  BY FreshTyped, Zenon
<1>1. ASSUME NEW k \in Key, Traffic(k) PROVE AgentInv'
  <2>1. traffic' \in Bytes /\ acct' \in Bytes
    BY <1>1, BytesBumped, Zenon DEF Traffic
  <2>2. UNCHANGED <<rt, disk, file, pc, cur, report, revoke, nextId, ingested, billed, faults, lossy, ahead, exposed>>
    BY <1>1, Zenon DEF Traffic
  <2> QED
    BY <2>1, <2>2, Zenon
<1>2. CASE CounterReset
  BY <1>0, <1>2, MeteringAssumption DEF CounterReset, Fault
<1>3. CASE ReadAcct
  BY <1>3, Zenon DEF ReadAcct
<1>4. CASE ReadFails
  BY <1>4, MeteringAssumption DEF ReadFails, Fault
<1>5. CASE FlushDone
  BY <1>5, Zenon DEF FlushDone
<1>6. CASE PostUsage
  <2>1. Head(rt.buf) \in Report
    BY <1>6, RuntimeTyped DEF PostUsage
  <2> QED
    BY <1>6, <2>1, Zenon DEF PostUsage
<1>7. CASE PostFails
  BY <1>0, <1>7, MeteringAssumption DEF PostFails, Fault
<1>8. CASE ApplyRevocations
  <2>1. acct' \in Bytes
    BY <1>8, Zenon DEF ApplyRevocations, Bytes
  <2>2. lossy' \in BOOLEAN
    BY <1>8, Zenon DEF ApplyRevocations
  <2> QED
    BY <1>8, <2>1, <2>2, Zenon DEF ApplyRevocations
<1>9. CASE RevocationsFail
  BY <1>9, MeteringAssumption DEF RevocationsFail, Fault
<1> QED
  BY <1>1, <1>2, <1>3, <1>4, <1>5, <1>6, <1>7, <1>8, <1>9, Zenon

\* Collecting a sample, saved or not, keeps the agent's invariant.
LEMMA CollectKeeps ==
  ASSUME AgentInv, NEW saved \in BOOLEAN, Collect(saved), faults' \in 0 .. MaxFaults
  PROVE  AgentInv'
<1>0. pc = "read" =>
        /\ Collected \in Runtime
        /\ \/ Collected.buf = rt.buf
           \/ /\ Len(Collected.buf) <= BufferCap /\ Numbered(Collected.buf, nextId + 1)
              /\ Collected.buf # rt.buf
  BY CollectedIs, Zenon
<1> USE DEF AgentInv, TypeOK, agentVars, backendVars, history
<1>1. pc = "read" /\ rt' = Collected /\ pc' = "flush"
  BY Zenon DEF Collect
<1>2. /\ rt' \in Runtime
      /\ Len(rt'.buf) <= BufferCap /\ Numbered(rt'.buf, nextId') /\ nextId' \in Nat /\ nextId' >= nextId
  <2>1. /\ Collected \in Runtime
        /\ \/ Collected.buf = rt.buf
           \/ /\ Len(Collected.buf) <= BufferCap /\ Numbered(Collected.buf, nextId + 1)
              /\ Collected.buf # rt.buf
    BY <1>0, <1>1, Zenon
  <2>2. nextId' = IF rt'.buf # rt.buf THEN nextId + 1 ELSE nextId
    BY Zenon DEF Collect
  <2> QED
    BY <1>1, <2>1, <2>2
<1>3. Numbered(disk.buf, nextId') /\ \A n \in ingested : n < nextId'
  <2>1. \A i \in 1 .. Len(disk.buf) : disk.buf[i].id \in Nat
    BY RuntimeTyped, Zenon
  <2>2. Numbered(disk.buf, nextId) /\ nextId \in Nat /\ nextId' \in Nat /\ nextId' >= nextId
    BY <1>2, Zenon
  <2>3. Numbered(disk.buf, nextId')
    <3> HIDE DEF AgentInv, TypeOK
    <3> QED
      BY <2>1, <2>2 DEF Numbered
  <2>4. ingested \in SUBSET Nat /\ \A n \in ingested : n < nextId
    BY Zenon
  <2> HIDE DEF AgentInv, TypeOK
  <2> QED
    BY <2>2, <2>3, <2>4
<1>4. \/ disk' = rt' /\ file' = "ok" /\ ahead' = FALSE /\ exposed' = exposed
      \/ disk' = disk /\ file' = file /\ ahead' = TRUE /\ exposed' = exposed
  BY Zenon DEF Collect, Write
<1>5. /\ disk' \in Runtime
      /\ Len(disk'.buf) <= BufferCap /\ Numbered(disk'.buf, nextId')
  BY <1>2, <1>3, <1>4, Zenon
<1>6. Zero \in Bytes /\ lossy' \in BOOLEAN
  BY Zenon DEF Collect, Zero, Bytes
<1> QED
  BY <1>1, <1>2, <1>3, <1>4, <1>5, <1>6, Zenon DEF Collect

\* What taking the delivered report off the buffer leaves.
LEMMA WithoutReportIs ==
  ASSUME AgentInv, pc = "remove"
  PROVE  /\ WithoutReport \in Runtime
         /\ WithoutReport.base = rt.base /\ WithoutReport.prime = rt.prime
         /\ Len(WithoutReport.buf) <= BufferCap /\ Numbered(WithoutReport.buf, nextId)
         /\ Unseen(WithoutReport.buf) = Unseen(rt.buf)
<1>1. /\ rt.buf \in Seq(Report) /\ rt.buf # <<>> /\ Head(rt.buf) = report /\ report.id \in ingested
      /\ rt \in Runtime /\ nextId \in Nat /\ Numbered(rt.buf, nextId) /\ Len(rt.buf) <= BufferCap
  BY RuntimeTyped, Zenon DEF AgentInv, TypeOK
<1>2. WithoutReport = [rt EXCEPT !.buf = Tail(@)]
  BY <1>1, Zenon DEF WithoutReport
<1>3. Tail(rt.buf) \in Seq(Report) /\ Len(Tail(rt.buf)) <= BufferCap
  BY <1>1, MeteringAssumption
<1>4. /\ WithoutReport \in Runtime /\ WithoutReport.base = rt.base /\ WithoutReport.prime = rt.prime
      /\ WithoutReport.buf = Tail(rt.buf)
  BY <1>1, <1>2, <1>3, Zenon DEF Runtime
<1>5. Numbered(Tail(rt.buf), nextId) /\ Range(Tail(rt.buf)) = Range(rt.buf) \ {report}
  BY <1>1, RangeTail, Zenon
<1> QED
  BY <1>1, <1>3, <1>4, <1>5, Zenon DEF Unseen

\* Removing the delivered head, saved or not, keeps the agent's invariant.
LEMMA DequeueKeeps ==
  ASSUME AgentInv, NEW saved \in BOOLEAN, Dequeue(saved), faults' \in 0 .. MaxFaults
  PROVE  AgentInv'
<1>0. pc = "remove" /\ WithoutReport \in Runtime /\ Len(WithoutReport.buf) <= BufferCap
      /\ Numbered(WithoutReport.buf, nextId)
  BY WithoutReportIs, Zenon DEF Dequeue
<1> USE DEF AgentInv, TypeOK, backendVars, history
<1>1. rt' = WithoutReport /\ pc' \in {"flush", "collect"}
  BY Zenon DEF Dequeue
<1>2. \/ disk' = rt' /\ file' = "ok" /\ ahead' = FALSE /\ exposed' = exposed
      \/ disk' = disk /\ file' = file /\ ahead' = ahead /\ exposed' = exposed
  BY Zenon DEF Dequeue, Write
<1>3. /\ disk' \in Runtime
      /\ Len(disk'.buf) <= BufferCap /\ Numbered(disk'.buf, nextId')
  BY <1>0, <1>1, <1>2, Zenon DEF Dequeue
<1> QED
  BY <1>0, <1>1, <1>2, <1>3, FreshTyped, Zenon DEF Dequeue

\* The backend's booking of a report keeps the agent's invariant.
LEMMA IngestKeeps ==
  ASSUME AgentInv, Ingest
  PROVE  AgentInv'
<1> USE DEF AgentInv, TypeOK, backendVars, history
<1>1. pc = "posted" /\ report \in Report /\ report.id \in Nat /\ report.samples \in Bytes
  BY Zenon DEF Ingest, Report
<1>2. report.id < nextId
  BY <1>1, RuntimeTyped DEF Numbered
<1>3. CASE Duplicate(report)
  BY <1>1, <1>3, Zenon DEF Ingest, Duplicate
<1>4. CASE ~Duplicate(report)
  <2>1. /\ ingested' = ingested \cup {report.id} /\ billed' = Add(billed, report.samples)
        /\ revoke' \in SUBSET Key /\ pc' = "acked"
        /\ UNCHANGED <<acct, rt, disk, file, cur, report, nextId, traffic, lossy, ahead, exposed>>
    BY <1>4, Zenon DEF Ingest
  <2>2. billed' \in Bytes
    BY <1>1, <2>1 DEF Add, Bytes
  <2>3. faults' \in 0 .. MaxFaults
    BY <1>4, MeteringAssumption DEF Ingest, Fault
  <2>4. ingested' \in SUBSET Nat /\ (\A n \in ingested' : n < nextId) /\ report.id \in ingested'
    BY <1>1, <1>2, <2>1, Zenon
  <2> QED
    BY <1>1, <2>1, <2>2, <2>3, <2>4, Zenon
<1> QED
  BY <1>3, <1>4, Zenon

\* A crash or a stop, whatever it leaves of the state file, keeps the
\* agent's invariant.
LEMMA StopKeeps ==
  ASSUME AgentInv, Stop, NEW kind, Fault(kind), lossy' \in BOOLEAN,
         disk' \in {disk, Fresh}, file' \in {"ok", "none", "corrupt"}
  PROVE  AgentInv'
<1> USE DEF AgentInv, TypeOK, backendVars
<1>1. faults' \in 0 .. MaxFaults
  BY MeteringAssumption DEF Fault
<1>2. disk' \in Runtime /\ Len(disk'.buf) <= BufferCap /\ Numbered(disk'.buf, nextId)
  BY FreshTyped
<1>3. rt' \in Runtime /\ Len(rt'.buf) <= BufferCap /\ Numbered(rt'.buf, nextId)
  BY FreshTyped DEF Stop
<1>4. exposed' \in BOOLEAN /\ ahead' = FALSE
  BY Zenon DEF Stop
<1> QED
  BY <1>1, <1>2, <1>3, <1>4, FreshTyped, Zenon DEF Stop

\* Every step keeps the agent's invariant.
LEMMA AgentKeeps ==
  ASSUME AgentInv, Next
  PROVE  AgentInv'
<1>1. faults \in 0 .. MaxFaults /\ disk \in Runtime /\ rt \in Runtime /\ lossy \in BOOLEAN
  BY Zenon DEF AgentInv, TypeOK
<1>2. CASE (\E k \in Key : Traffic(k)) \/ CounterReset \/ ReadAcct \/ ReadFails \/ FlushDone
           \/ PostUsage \/ PostFails \/ ApplyRevocations \/ RevocationsFail
  BY <1>2, QuietKeeps, Zenon
<1>3. CASE CollectAndBuffer \/ CollectNotSaved
  <2>1. Collect(TRUE) \/ Collect(FALSE)
    BY <1>3, Zenon DEF CollectAndBuffer, CollectNotSaved
  <2>2. faults' = faults \/ (faults < MaxFaults /\ faults' = faults + 1)
    BY <1>3, Zenon DEF CollectAndBuffer, CollectNotSaved, Fault
  <2>3. faults' \in 0 .. MaxFaults
    BY <1>1, <2>2, MeteringAssumption
  <2> QED
    BY <2>1, <2>3, CollectKeeps, Zenon
<1>4. CASE Ingest
  BY <1>4, IngestKeeps, Zenon
<1>5. CASE RemoveReport \/ RemoveNotSaved
  <2>1. Dequeue(TRUE) \/ Dequeue(FALSE)
    BY <1>5, Zenon DEF RemoveReport, RemoveNotSaved
  <2>2. faults' = faults \/ (faults < MaxFaults /\ faults' = faults + 1)
    BY <1>5, Zenon DEF RemoveReport, RemoveNotSaved, Fault
  <2>3. faults' \in 0 .. MaxFaults
    BY <1>1, <2>2, MeteringAssumption
  <2> QED
    BY <2>1, <2>3, DequeueKeeps, Zenon
<1>6. CASE SaveRuntime \/ PersistRecovered
  BY <1>1, <1>6, Zenon DEF SaveRuntime, PersistRecovered, Write, AgentInv, TypeOK, backendVars
<1>7. CASE Crash \/ RecoveryFails
  <2>1. PICK kind : Fault(kind)
    BY <1>7, Zenon DEF Crash, RecoveryFails
  <2>2. Stop /\ disk' = disk /\ file' \in {"ok", "none", "corrupt"} /\ lossy' \in BOOLEAN
    BY <1>1, <1>7, Zenon DEF Crash, RecoveryFails, AgentInv, TypeOK
  <2> QED
    BY <2>1, <2>2, StopKeeps, Zenon
<1>8. CASE CrashCorrupt
  <2>1. PICK kind : Fault(kind)
    BY <1>8, Zenon DEF CrashCorrupt
  <2>2. Stop /\ disk' = Fresh /\ file' = "corrupt" /\ lossy' = TRUE
    BY <1>8, Zenon DEF CrashCorrupt
  <2> QED
    BY <2>1, <2>2, StopKeeps, Zenon
<1>9. CASE Start
  BY <1>1, <1>9, Zenon DEF Start, AgentInv, TypeOK, backendVars, history
<1>10. CASE MoveAside
  BY <1>1, <1>10, FreshTyped DEF MoveAside, AgentInv, TypeOK, backendVars
<1> QED
  BY <1>2, <1>3, <1>4, <1>5, <1>6, <1>7, <1>8, <1>9, <1>10, Zenon DEF Next, UsageStep, FaultStep

-----------------------------------------------------------------------------
(* The memory and the file                                                 *)

\* runUsage and the kernel, where neither moves reports.
Quiet ==
  \/ \E k \in Key : Traffic(k)
  \/ CounterReset \/ ReadAcct \/ ReadFails \/ FlushDone \/ PostUsage \/ PostFails
  \/ ApplyRevocations \/ RevocationsFail

\* What a step that touches neither counters nor buffers leaves alone.
LEMMA QuietLeaves ==
  ASSUME Quiet
  PROVE  /\ UNCHANGED <<rt, disk, file, ahead, exposed, ingested, billed>>
         /\ Up' <=> Up
         /\ (pc' = "down") <=> (pc = "down")
         /\ (pc' = "recover") <=> (pc = "recover")
<1>1. CASE \E k \in Key : Traffic(k)
  BY <1>1, Zenon DEF Traffic, agentVars, backendVars, history, Up
<1>2. CASE CounterReset
  BY <1>2, Zenon DEF CounterReset, agentVars, backendVars, history, Up
<1>3. CASE ReadAcct \/ ReadFails \/ FlushDone \/ PostUsage \/ PostFails
           \/ ApplyRevocations \/ RevocationsFail
  BY <1>3, Zenon DEF ReadAcct, ReadFails, FlushDone, PostUsage, PostFails, ApplyRevocations,
              RevocationsFail, backendVars, history, Up
<1> QED
  BY <1>1, <1>2, <1>3, Zenon DEF Quiet

\* Memory and file once the whole runtime was written.
LEMMA WrittenInStep ==
  ASSUME disk' = rt', file' = "ok"
  PROVE  InStep'
BY Zenon DEF InStep, Unseen

\* Every step keeps the relation between the memory and the state file.
LEMMA InStepKeeps ==
  ASSUME AgentInv, InStep, Next
  PROVE  InStep'
<1>1. CASE Quiet
  BY <1>1, QuietLeaves, Zenon DEF InStep, Unseen
<1>2. CASE CollectAndBuffer \/ RemoveReport \/ SaveRuntime \/ PersistRecovered
  <2>1. disk' = rt' /\ file' = "ok"
    BY <1>2, Zenon DEF CollectAndBuffer, Collect, RemoveReport, Dequeue, SaveRuntime, PersistRecovered, Write
  <2> QED
    BY <2>1, WrittenInStep, Zenon
<1>3. CASE CollectNotSaved \/ MoveAside \/ Crash \/ CrashCorrupt \/ RecoveryFails
  <2>1. ahead' \/ ~Up'
    BY <1>3, Zenon DEF CollectNotSaved, Collect, MoveAside, Crash, CrashCorrupt, RecoveryFails, Stop, Up
  <2> QED
    BY <2>1, Zenon DEF InStep
<1>4. CASE Ingest
  <2>1. \/ ingested' = ingested
        \/ ingested' = ingested \cup {report.id}
    BY <1>4, Zenon DEF Ingest, backendVars
  <2>2. Up /\ UNCHANGED <<rt, disk, file, ahead>>
    BY <1>4, Zenon DEF Ingest, history, Up
  <2>3. ~ahead => Unseen(rt.buf) = Unseen(disk.buf)
    BY <2>2, Zenon DEF InStep
  <2>4. ~ahead => Unseen(rt.buf)' = Unseen(disk.buf)'
    BY <2>1, <2>2, <2>3, Zenon DEF Unseen
  <2> QED
    BY <2>2, <2>4, Zenon DEF InStep
<1>5. CASE RemoveNotSaved
  <2>1. pc = "remove" /\ rt' = WithoutReport /\ UNCHANGED <<disk, file, ahead, ingested>>
    BY <1>5, Zenon DEF RemoveNotSaved, Dequeue, backendVars, history
  <2>2. rt'.base = rt.base /\ rt'.prime = rt.prime /\ Unseen(rt'.buf) = Unseen(rt.buf)
    BY <2>1, WithoutReportIs, Zenon
  <2>3. Unseen(rt.buf)' = Unseen(rt'.buf) /\ Unseen(disk.buf)' = Unseen(disk.buf)
    BY <2>1, Zenon DEF Unseen
  <2> QED
    BY <2>1, <2>2, <2>3, Zenon DEF InStep, Up
<1>6. CASE Start
  BY <1>6, Zenon DEF Start, InStep, Unseen
<1> QED
  BY <1>1, <1>2, <1>3, <1>4, <1>5, <1>6, Zenon DEF Next, UsageStep, FaultStep, Quiet

-----------------------------------------------------------------------------
(* Bytes on their way                                                      *)

\* The arithmetic of the delta of two counter readings, a reset included.
LEMMA DeltaFacts ==
  ASSUME NEW l \in Nat, NEW a \in Nat
  PROVE  /\ Delta(l, a) \in Nat /\ Delta(l, a) <= a
         /\ Delta(l, a + 1) <= Delta(l, a) + 1
         /\ Delta(l, 0) = 0 /\ Delta(a, a) = 0
         /\ l <= a => Delta(l, a) = a - l
BY DEF Delta

\* Every count the two sums are made of is a natural, for one key.
LEMMA CountsNat ==
  ASSUME AgentInv, NEW k \in Key
  PROVE  /\ acct[k] \in Nat /\ traffic[k] \in Nat /\ billed[k] \in Nat /\ cur[k] \in Nat
         /\ rt.base[k] \in Nat /\ disk.base[k] \in Nat
         /\ rt.prime \in BOOLEAN /\ disk.prime \in BOOLEAN
         /\ Undelivered(rt.buf, k) \in Nat /\ Undelivered(disk.buf, k) \in Nat
<1>1. rt \in Runtime /\ disk \in Runtime
  BY Zenon DEF AgentInv, TypeOK
<1>2. /\ acct[k] \in Nat /\ traffic[k] \in Nat /\ billed[k] \in Nat /\ cur[k] \in Nat
  BY Zenon DEF AgentInv, TypeOK, Bytes
<1> QED
  BY <1>1, <1>2, RuntimeTyped, UndeliveredNat, Zenon

\* The same of every counter at once, for use in the next state.
Counted == \A k \in Key : billed[k] \in Nat /\ Undelivered(rt.buf, k) \in Nat

\* The same, for all keys, as one fact.
LEMMA CountsAll == AgentInv => Counted
BY CountsNat, Zenon DEF Counted

\* A report the backend had not seen moves from the buffer to the bill.
LEMMA IngestMoves ==
  ASSUME AgentInv, Ingest, NEW k \in Key
  PROVE  billed'[k] + Undelivered(rt.buf, k)' = billed[k] + Undelivered(rt.buf, k)
<1>1. /\ pc = "posted" /\ rt.buf \in Seq(Report) /\ rt.buf # <<>> /\ report = Head(rt.buf)
      /\ report \in Report /\ Numbered(rt.buf, nextId) /\ billed \in Bytes /\ rt' = rt
  BY RuntimeTyped, Zenon DEF Ingest, AgentInv, TypeOK
<1>2. CASE Duplicate(report)
  BY <1>1, <1>2, Zenon DEF Ingest, Undelivered, Unseen, backendVars
<1>3. CASE ~Duplicate(report)
  <2>1. ingested' = ingested \cup {report.id} /\ billed' = Add(billed, report.samples)
    BY <1>3, Zenon DEF Ingest
  <2>2. report \in Unseen(rt.buf)
    BY <1>1, <1>3 DEF Unseen, Range, Duplicate
  <2>3. \A r \in Range(rt.buf) : r.id = report.id => r = report
    BY <1>1 DEF Range, Numbered
  <2>4. Unseen(rt.buf)' = Unseen(rt.buf) \ {report}
    BY <1>1, <2>1, <2>3, Zenon DEF Unseen
  <2>5. BytesIn(Unseen(rt.buf), k) = report.samples[k] + BytesIn(Unseen(rt.buf) \ {report}, k)
    BY <1>1, <2>2, UnseenFinite, BytesInRemove, Zenon
  <2>6. /\ Undelivered(rt.buf, k)' = BytesIn(Unseen(rt.buf) \ {report}, k)
        /\ Undelivered(rt.buf, k) = BytesIn(Unseen(rt.buf), k)
    BY <2>4, Zenon DEF Undelivered, BytesIn
  <2>7. billed'[k] = billed[k] + report.samples[k] /\ billed[k] \in Nat /\ report.samples[k] \in Nat
    BY <1>1, <2>1, Zenon DEF Add, Bytes, Report
  <2>8. BytesIn(Unseen(rt.buf) \ {report}, k) \in Nat
    <3>1. Unseen(rt.buf) \ {report} \in SUBSET Report /\ IsFiniteSet(Unseen(rt.buf) \ {report})
      BY <1>1, UnseenFinite, FS_Subset, Zenon
    <3> QED
      BY <3>1, BytesInNat, Zenon
  <2> QED
    BY <2>5, <2>6, <2>7, <2>8
<1> QED
  BY <1>2, <1>3, Zenon

\* What a collection adds to the buffer: at most what it read, and exactly
\* that when nothing had to go.
LEMMA CollectAdds ==
  ASSUME AgentInv, NEW saved \in BOOLEAN, Collect(saved), NEW k \in Key
  PROVE  /\ Undelivered(rt.buf, k)' \in Nat
         /\ Undelivered(rt.buf, k)' <= Undelivered(rt.buf, k)
                                       + (IF rt.prime THEN 0 ELSE Delta(rt.base[k], cur[k]))
         /\ ~lossy' => /\ ~lossy /\ ~rt.prime
                       /\ Undelivered(rt.buf, k)' = Undelivered(rt.buf, k) + Delta(rt.base[k], cur[k])
<1> DEFINE new == [id |-> nextId, samples |-> Deltas]
           b == Append(rt.buf, new)
<1>0. rt.prime \in BOOLEAN /\ lossy \in BOOLEAN
  BY RuntimeTyped, Zenon DEF AgentInv, TypeOK
<1>1. /\ pc = "read" /\ rt' = Collected /\ ingested' = ingested
      /\ lossy' = (lossy \/ rt.prime \/ (Deltas # Zero /\ Len(rt.buf) >= BufferCap))
  BY Zenon DEF Collect, backendVars
<1>2. /\ rt.buf \in Seq(Report) /\ rt.base[k] \in Nat /\ cur[k] \in Nat /\ nextId \in Nat
      /\ Numbered(rt.buf, nextId) /\ Len(rt.buf) \in Nat /\ Undelivered(rt.buf, k) \in Nat
      /\ \A n \in ingested : n < nextId
  BY CountsNat, RuntimeTyped DEF AgentInv, TypeOK
<1>3. Delta(rt.base[k], cur[k]) \in Nat /\ Deltas[k] = Delta(rt.base[k], cur[k])
  BY <1>2, DeltaFacts, Zenon DEF Deltas
<1>4. CASE rt.prime \/ Deltas = Zero
  <2>1. Undelivered(rt.buf, k)' = Undelivered(rt.buf, k)
    <3>1. rt'.buf = rt.buf
      BY <1>1, <1>4, CollectedIs, Zenon
    <3> QED
      BY <1>1, <3>1, Zenon DEF Undelivered, Unseen, BytesIn
  <2>2. Deltas = Zero => Delta(rt.base[k], cur[k]) = 0
    BY <1>3, Zenon DEF Zero
  <2> QED
    BY <1>0, <1>1, <1>2, <1>3, <1>4, <2>1, <2>2
<1>5. CASE ~rt.prime /\ Deltas # Zero
  <2>1. new \in Report /\ rt'.buf = Capped(b)
    <3>1. /\ Collected.buf = Capped(Append(rt.buf, [id |-> nextId, samples |-> Deltas]))
          /\ [id |-> nextId, samples |-> Deltas] \in Report
      <4> HIDE DEF new, b
      <4> QED
        BY <1>1, <1>5, CollectedIs, Zenon
    <3> QED
      BY <1>1, <3>1, Zenon
  <2>2. new.id = nextId /\ new.samples[k] = Delta(rt.base[k], cur[k])
    BY <1>3, Zenon
  <2> HIDE DEF new
  <2>3. /\ b \in Seq(Report) /\ Numbered(b, nextId + 1) /\ Len(b) = Len(rt.buf) + 1
        /\ Range(b) = Range(rt.buf) \cup {new}
    BY <1>2, <2>1, <2>2, AppendNumbered, RangeAppend, Zenon
  <2> HIDE DEF b
  <2>4. Capped(b) \in Seq(Report) /\ Range(Capped(b)) \subseteq Range(b) /\ (Len(b) <= BufferCap => Capped(b) = b)
    <3>1. nextId + 1 \in Nat
      BY <1>2
    <3> QED
      BY <2>3, <3>1, CappedPart, Zenon
  <2>5. new \notin Range(rt.buf)
    <3>1. \A i \in 1 .. Len(rt.buf) : rt.buf[i] # new
      <4>1. \A i \in 1 .. Len(rt.buf) : rt.buf[i].id \in Nat /\ rt.buf[i].id < nextId
        BY <1>2, RuntimeTyped, Zenon DEF AgentInv, TypeOK, Numbered
      <4> QED
        BY <1>2, <2>2, <4>1
    <3> QED
      BY <1>2, <3>1 DEF Range
  <2>6. Unseen(b) = Unseen(rt.buf) \cup {new} /\ new \notin Unseen(rt.buf)
    BY <1>2, <2>2, <2>3, <2>5 DEF Unseen
  <2>7. Undelivered(b, k) = Undelivered(rt.buf, k) + Delta(rt.base[k], cur[k])
    <3>1. BytesIn(Unseen(rt.buf) \cup {new}, k) = new.samples[k] + BytesIn(Unseen(rt.buf), k)
      BY <1>2, <2>1, <2>6, UnseenFinite, BytesInInsert, Zenon
    <3> QED
      BY <1>2, <1>3, <2>2, <2>6, <3>1 DEF Undelivered
  <2>8. Undelivered(Capped(b), k) <= Undelivered(b, k) /\ Undelivered(Capped(b), k) \in Nat
    <3>1. Unseen(Capped(b)) \in SUBSET Unseen(b)
      BY <2>4, Zenon DEF Unseen
    <3> QED
      BY <2>3, <2>4, <3>1, UnseenFinite, BytesInSubset, UndeliveredNat, Zenon DEF Undelivered
  <2>9. Undelivered(rt.buf, k)' = Undelivered(Capped(b), k)
    BY <1>1, <2>1, Zenon DEF Undelivered, Unseen, BytesIn
  <2>10. ~lossy' => Capped(b) = b /\ ~lossy
    <3>1. ~lossy' => ~lossy /\ ~(Len(rt.buf) >= BufferCap)
      BY <1>0, <1>1, <1>5, Zenon
    <3>2. ~(Len(rt.buf) >= BufferCap) => Len(b) <= BufferCap
      BY <1>2, <2>3, MeteringAssumption
    <3> QED
      BY <2>4, <3>1, <3>2, Zenon
  <2> QED
    BY <1>2, <1>3, <1>5, <2>7, <2>8, <2>9, <2>10, Zenon
<1> QED
  BY <1>0, <1>4, <1>5, Zenon

\* What the quiet steps do to one counter and to what was read from it.
LEMMA QuietCounts ==
  ASSUME AgentInv, Quiet, NEW k \in Key
  PROVE  /\ \/ acct'[k] = acct[k] /\ traffic'[k] = traffic[k]
            \/ acct'[k] = acct[k] + 1 /\ traffic'[k] = traffic[k] + 1
            \/ acct'[k] = 0 /\ traffic'[k] = traffic[k] /\ lossy'
         /\ lossy => lossy'
         /\ pc' = "read" => \/ pc = "read" /\ cur'[k] = cur[k]
                            \/ /\ pc = "collect" /\ cur'[k] = acct[k]
                               /\ acct'[k] = acct[k] /\ traffic'[k] = traffic[k]
<1>0. acct \in Bytes /\ traffic \in Bytes /\ lossy \in BOOLEAN
  BY Zenon DEF AgentInv, TypeOK
<1>1. ASSUME NEW j \in Key, Traffic(j)
      PROVE  /\ \/ acct'[k] = acct[k] /\ traffic'[k] = traffic[k]
                \/ acct'[k] = acct[k] + 1 /\ traffic'[k] = traffic[k] + 1
             /\ lossy' = lossy /\ cur' = cur /\ pc' = pc
  BY <1>0, <1>1, Zenon DEF Traffic, agentVars, Bytes
<1>2. CASE CounterReset
  BY <1>2, Zenon DEF CounterReset, agentVars, Zero
<1>3. CASE ApplyRevocations
  BY <1>0, <1>3, Zenon DEF ApplyRevocations, Bytes
<1>4. CASE ReadAcct \/ ReadFails \/ FlushDone \/ PostUsage \/ PostFails \/ RevocationsFail
  BY <1>4 DEF ReadAcct, ReadFails, FlushDone, PostUsage, PostFails, RevocationsFail
<1> QED
  BY <1>1, <1>2, <1>3, <1>4, Zenon DEF Quiet

\* With the same ids ingested, the same buffer has the same bytes to deliver.
LEMMA SameUndelivered ==
  ASSUME ingested' = ingested, NEW k \in Key
  PROVE  /\ Undelivered(rt.buf, k)' = Undelivered(rt'.buf, k)
         /\ Undelivered(disk.buf, k)' = Undelivered(disk'.buf, k)
BY Zenon DEF Undelivered, Unseen, BytesIn

-----------------------------------------------------------------------------
(* No byte is billed twice                                                 *)

\* A quiet step keeps the upper bound on what is billed.
LEMMA OnceQuiet ==
  ASSUME AgentInv, OncePart, Quiet
  PROVE  OncePart'
<1>1. UNCHANGED <<rt, disk, file, ingested, billed>> /\ ((pc' = "down") <=> (pc = "down"))
  BY QuietLeaves, Zenon
<1> DEFINE moved(k) == \/ acct'[k] = acct[k] /\ traffic'[k] = traffic[k]
                       \/ acct'[k] = acct[k] + 1 /\ traffic'[k] = traffic[k] + 1
                       \/ acct'[k] = 0 /\ traffic'[k] = traffic[k]
<1>2. \A k \in Key : moved(k)
  BY QuietCounts, Zenon
<1>3. ASSUME NEW k \in Key, NEW l \in Nat, moved(k)
      PROVE  /\ Delta(l, acct'[k]) \in Nat /\ Delta(l, acct[k]) \in Nat
             /\ \/ Delta(l, acct'[k]) <= Delta(l, acct[k]) /\ traffic'[k] = traffic[k]
                \/ Delta(l, acct'[k]) <= Delta(l, acct[k]) + 1 /\ traffic'[k] = traffic[k] + 1
             /\ traffic[k] \in Nat
  <2>1. acct[k] \in Nat /\ traffic[k] \in Nat
    BY CountsNat, Zenon
  <2>2. /\ Delta(l, acct[k]) \in Nat /\ Delta(l, acct[k] + 1) \in Nat /\ Delta(l, 0) = 0
        /\ Delta(l, acct[k] + 1) <= Delta(l, acct[k]) + 1
    BY <2>1 DEF Delta
  <2>3. CASE acct'[k] = acct[k] /\ traffic'[k] = traffic[k]
    BY <2>1, <2>2, <2>3
  <2>4. CASE acct'[k] = acct[k] + 1 /\ traffic'[k] = traffic[k] + 1
    BY <2>1, <2>2, <2>4, Zenon
  <2>5. CASE acct'[k] = 0 /\ traffic'[k] = traffic[k]
    BY <2>1, <2>2, <2>5
  <2> QED
    BY <1>3, <2>3, <2>4, <2>5, Zenon
<1>4. ASSUME NEW k \in Key PROVE billed'[k] <= traffic'[k]
  <2>1. moved(k) /\ billed[k] <= traffic[k] /\ billed[k] \in Nat /\ traffic[k] \in Nat
    BY <1>2, CountsNat, Zenon DEF OncePart
  <2> QED
    BY <1>1, <2>1
<1>5. ASSUME pc # "down" PROVE Sound(rt)'
  <2> SUFFICES ASSUME NEW k \in Key
               PROVE  billed'[k] + Undelivered(rt.buf, k)' + Above(rt, k)' <= traffic'[k]
    BY Zenon DEF Sound
  <2>1. billed[k] + Undelivered(rt.buf, k) + Above(rt, k) <= traffic[k]
    BY <1>5, Zenon DEF OncePart, Sound
  <2>2. Undelivered(rt.buf, k)' = Undelivered(rt.buf, k)
    BY <1>1, SameUndelivered, Zenon
  <2>3. moved(k) /\ rt.base[k] \in Nat /\ billed[k] \in Nat /\ Undelivered(rt.buf, k) \in Nat
    BY <1>2, CountsNat, Zenon
  <2> HIDE DEF moved
  <2> QED
    BY <1>1, <1>3, <2>1, <2>2, <2>3 DEF Above
<1>6. ASSUME pc = "down", file # "corrupt" PROVE Sound(disk)'
  <2> SUFFICES ASSUME NEW k \in Key
               PROVE  billed'[k] + Undelivered(disk.buf, k)' + Above(disk, k)' <= traffic'[k]
    BY Zenon DEF Sound
  <2>1. billed[k] + Undelivered(disk.buf, k) + Above(disk, k) <= traffic[k]
    BY <1>6, Zenon DEF OncePart, Sound
  <2>2. Undelivered(disk.buf, k)' = Undelivered(disk.buf, k)
    BY <1>1, SameUndelivered, Zenon
  <2>3. moved(k) /\ disk.base[k] \in Nat /\ billed[k] \in Nat /\ Undelivered(disk.buf, k) \in Nat
    BY <1>2, CountsNat, Zenon
  <2> HIDE DEF moved
  <2> QED
    BY <1>1, <1>3, <2>1, <2>2, <2>3 DEF Above
<1>7. ASSUME pc' = "read" PROVE SoundRead'
  <2> DEFINE read(c, k) == IF rt.prime THEN 0 ELSE Delta(rt.base[k], c)
  <2> SUFFICES ASSUME NEW k \in Key
               PROVE  billed'[k] + Undelivered(rt.buf, k)' + read(cur'[k], k) + Delta(cur'[k], acct'[k])
                        <= traffic'[k]
    BY <1>1, Zenon DEF SoundRead
  <2>2. Undelivered(rt.buf, k)' = Undelivered(rt.buf, k)
    BY <1>1, SameUndelivered, Zenon
  <2>3. /\ moved(k) /\ rt.base[k] \in Nat /\ billed[k] \in Nat /\ Undelivered(rt.buf, k) \in Nat
        /\ cur[k] \in Nat /\ acct[k] \in Nat
    BY <1>2, CountsNat, Zenon
  <2>4. CASE pc = "read" /\ cur'[k] = cur[k]
    <3>1. billed[k] + Undelivered(rt.buf, k) + read(cur[k], k) + Delta(cur[k], acct[k]) <= traffic[k]
      BY <2>4, Zenon DEF OncePart, SoundRead
    <3>2. read(cur[k], k) \in Nat
      BY <2>3, DeltaFacts, Zenon
    <3> HIDE DEF moved, read
    <3> QED
      BY <1>1, <1>3, <2>2, <2>3, <2>4, <3>1, <3>2
  <2>5. CASE pc = "collect" /\ cur'[k] = acct[k] /\ acct'[k] = acct[k] /\ traffic'[k] = traffic[k]
    <3>1. billed[k] + Undelivered(rt.buf, k) + read(acct[k], k) <= traffic[k]
      BY <2>5, Zenon DEF OncePart, Sound, Above
    <3>2. read(acct[k], k) \in Nat /\ Delta(acct[k], acct[k]) = 0
      BY <2>3, DeltaFacts, Zenon
    <3> HIDE DEF moved, read
    <3> QED
      BY <1>1, <2>2, <2>3, <2>5, <3>1, <3>2
  <2> HIDE DEF moved, read
  <2> QED
    BY <1>7, <2>4, <2>5, QuietCounts, Zenon
<1> HIDE DEF moved
<1> QED
  BY <1>1, <1>4, <1>5, <1>6, <1>7, Zenon DEF OncePart

\* Every step keeps the upper bound on what is billed.
LEMMA OnceKeeps ==
  ASSUME AgentInv, InStep, OnceInv, Next
  PROVE  OnceInv'
<1>0. /\ exposed \in BOOLEAN /\ ahead \in BOOLEAN /\ rt \in Runtime /\ disk \in Runtime
      /\ \A k \in Key : billed[k] \in Nat /\ traffic[k] \in Nat
  BY CountsNat, Zenon DEF AgentInv, TypeOK
<1>1. CASE Quiet
  BY <1>1, OnceQuiet, QuietLeaves, Zenon DEF OnceInv, OncePart
<1>2. CASE CollectAndBuffer \/ CollectNotSaved
  <2>1. PICK saved \in BOOLEAN : Collect(saved)
    BY <1>2, Zenon DEF CollectAndBuffer, CollectNotSaved
  <2>2. /\ exposed' = exposed /\ pc = "read" /\ pc' = "flush" /\ rt' = Collected
        /\ UNCHANGED <<acct, traffic, billed>>
    BY <2>1, Zenon DEF Collect, Write, backendVars
  <2>3. rt'.base = cur /\ rt'.prime = FALSE
    BY <2>2, CollectedIs, Zenon
  <2>4. SUFFICES ASSUME ~exposed, NEW k \in Key
                 PROVE  billed[k] + Undelivered(rt.buf, k)' + Delta(cur[k], acct[k]) <= traffic[k]
    BY <2>2, <2>3, Zenon DEF OnceInv, OncePart, Sound, Above
  <2>5. billed[k] + Undelivered(rt.buf, k) + (IF rt.prime THEN 0 ELSE Delta(rt.base[k], cur[k]))
          + Delta(cur[k], acct[k]) <= traffic[k]
    BY <2>2, <2>4, Zenon DEF OnceInv, OncePart, SoundRead
  <2>6. /\ Undelivered(rt.buf, k)' \in Nat
        /\ Undelivered(rt.buf, k)' <= Undelivered(rt.buf, k)
                                      + (IF rt.prime THEN 0 ELSE Delta(rt.base[k], cur[k]))
    BY <2>1, CollectAdds, Zenon
  <2>7. /\ billed[k] \in Nat /\ Undelivered(rt.buf, k) \in Nat /\ rt.base[k] \in Nat
        /\ acct[k] \in Nat /\ cur[k] \in Nat /\ traffic[k] \in Nat
    BY CountsNat, Zenon
  <2>8. Delta(rt.base[k], cur[k]) \in Nat /\ Delta(cur[k], acct[k]) \in Nat
    BY <2>7, DeltaFacts, Zenon
  <2> QED
    BY <2>5, <2>6, <2>7, <2>8
<1>3. CASE Ingest
  <2>1. /\ exposed' = exposed /\ pc = "posted" /\ pc' = "acked"
        /\ UNCHANGED <<acct, rt, traffic>>
    BY <1>3, Zenon DEF Ingest, history
  <2>2. SUFFICES ASSUME ~exposed, NEW k \in Key
                 PROVE  /\ billed'[k] + Undelivered(rt.buf, k)' + Above(rt, k) <= traffic[k]
                        /\ billed'[k] <= traffic[k]
    BY <2>1, Zenon DEF OnceInv, OncePart, Sound, Above
  <2>3. billed[k] + Undelivered(rt.buf, k) + Above(rt, k) <= traffic[k]
    BY <2>1, <2>2, Zenon DEF OnceInv, OncePart, Sound
  <2>4. billed'[k] + Undelivered(rt.buf, k)' = billed[k] + Undelivered(rt.buf, k)
    BY <1>3, IngestMoves, Zenon
  <2>5. /\ billed[k] \in Nat /\ Undelivered(rt.buf, k) \in Nat /\ rt.base[k] \in Nat
        /\ acct[k] \in Nat /\ traffic[k] \in Nat
    BY CountsNat, Zenon
  <2>6. Above(rt, k) \in Nat
    BY <2>5, DeltaFacts, Zenon DEF Above
  <2>7. billed'[k] \in Nat /\ Undelivered(rt.buf, k)' \in Nat
    <3>1. AgentInv'
      BY <1>3, IngestKeeps, Zenon
    <3>2. Counted'
      BY <3>1, CountsAll, PTL
    <3> QED
      BY <3>2, Zenon DEF Counted
  <2> QED
    BY <2>3, <2>4, <2>5, <2>6, <2>7
<1>4. CASE RemoveReport \/ RemoveNotSaved
  <2>1. PICK saved \in BOOLEAN : Dequeue(saved)
    BY <1>4, Zenon DEF RemoveReport, RemoveNotSaved
  <2>2. /\ exposed' = exposed /\ pc = "remove" /\ pc' \in {"flush", "collect"} /\ rt' = WithoutReport
        /\ UNCHANGED <<acct, traffic, billed, ingested>>
    BY <2>1, Zenon DEF Dequeue, Write, backendVars, history
  <2>3. rt'.base = rt.base /\ rt'.prime = rt.prime /\ Unseen(rt'.buf) = Unseen(rt.buf)
    BY <2>2, WithoutReportIs, Zenon
  <2>4. \A k \in Key : Undelivered(rt.buf, k)' = Undelivered(rt.buf, k)
    BY <2>2, <2>3, SameUndelivered, Zenon DEF Undelivered
  <2> QED
    BY <2>2, <2>3, <2>4, Zenon DEF OnceInv, OncePart, Sound, Above
<1>5. CASE SaveRuntime \/ PersistRecovered
  <2>1. /\ exposed' = exposed /\ pc # "down" /\ pc' # "down" /\ (pc' = "read" => pc = "read")
        /\ UNCHANGED <<acct, traffic, billed, ingested, rt, cur>>
    BY <1>5, Zenon DEF SaveRuntime, PersistRecovered, Write, backendVars
  <2>2. \A k \in Key : Undelivered(rt.buf, k)' = Undelivered(rt.buf, k)
    BY <2>1, SameUndelivered, Zenon
  <2> QED
    BY <2>1, <2>2, Zenon DEF OnceInv, OncePart, Sound, SoundRead, Above
<1>6. CASE Crash
  <2>1. /\ Up /\ exposed' = (exposed \/ ahead) /\ pc' = "down"
        /\ UNCHANGED <<acct, traffic, billed, ingested, disk, file>>
    BY <1>6, Zenon DEF Crash, Stop, Up, backendVars
  <2>2. SUFFICES ASSUME ~exposed, ~ahead PROVE OnceInv'
    BY <1>0, <2>1, Zenon DEF OnceInv, OncePart
  <2>3. \A k \in Key : Undelivered(disk.buf, k)' = Undelivered(rt.buf, k)
    BY <2>1, <2>2, SameUndelivered, Zenon DEF InStep, Undelivered
  <2> QED
    BY <2>1, <2>2, <2>3, Zenon DEF OnceInv, OncePart, Sound, Above, InStep, Up
<1>7. CASE CrashCorrupt
  <2>1. /\ exposed' = (exposed \/ ahead) /\ pc' = "down" /\ file' = "corrupt"
        /\ UNCHANGED <<traffic, billed>>
    BY <1>7, Zenon DEF CrashCorrupt, Stop, backendVars
  <2> QED
    BY <1>0, <2>1, Zenon DEF OnceInv, OncePart
<1>8. CASE RecoveryFails
  BY <1>0, <1>8, Zenon DEF RecoveryFails, Stop, OnceInv, OncePart, AgentInv
<1>9. CASE Start
  <2>1. /\ exposed' = exposed /\ pc = "down" /\ file # "corrupt" /\ pc' = "collect" /\ rt' = disk
        /\ UNCHANGED <<acct, traffic, billed, ingested>>
    BY <1>9, Zenon DEF Start, backendVars, history
  <2>2. \A k \in Key : Undelivered(rt.buf, k)' = Undelivered(disk.buf, k)
    BY <2>1, SameUndelivered, Zenon
  <2> QED
    BY <2>1, <2>2, Zenon DEF OnceInv, OncePart, Sound, Above
<1>10. CASE MoveAside
  <2>1. /\ exposed' = exposed /\ pc' = "recover" /\ rt' = Recovered
        /\ UNCHANGED <<traffic, billed, ingested>>
    BY <1>10, Zenon DEF MoveAside, backendVars
  <2>2. \A k \in Key : Undelivered(rt.buf, k)' = 0
    <3>1. Unseen(<<>>) = {}
      BY DEF Unseen, Range
    <3>2. \A k \in Key : Undelivered(<<>>, k) = 0
      BY <3>1, SumEmpty, Zenon DEF Undelivered, BytesIn
    <3> QED
      BY <2>1, <3>2, SameUndelivered, FreshTyped, Zenon
  <2>3. \A k \in Key : Above(rt, k)' = 0
    BY <2>1, FreshTyped, Zenon DEF Above
  <2> QED
    BY <1>0, <2>1, <2>2, <2>3 DEF OnceInv, OncePart, Sound
<1> QED
  BY <1>1, <1>2, <1>3, <1>4, <1>5, <1>6, <1>7, <1>8, <1>9, <1>10, Zenon
     DEF Next, UsageStep, FaultStep, Quiet

-----------------------------------------------------------------------------
(* No byte is lost                                                         *)

\* Of the quiet steps only one that is written off takes a byte away.
LEMMA LossQuiet ==
  ASSUME AgentInv, LossPart, Quiet, ~lossy'
  PROVE  LossPart'
<1>1. /\ UNCHANGED <<rt, disk, file, ingested, billed>> /\ (Up' <=> Up)
      /\ ((pc' = "down") <=> (pc = "down")) /\ pc' # "recover"
  BY QuietLeaves, Zenon DEF LossPart
<1> DEFINE moved(k) == \/ acct'[k] = acct[k] /\ traffic'[k] = traffic[k]
                       \/ acct'[k] = acct[k] + 1 /\ traffic'[k] = traffic[k] + 1
<1>2. \A k \in Key : moved(k)
  BY QuietCounts, Zenon
<1>3. ASSUME Up PROVE Balanced(rt)'
  <2> SUFFICES ASSUME NEW k \in Key
               PROVE  /\ rt.base[k] <= acct'[k]
                      /\ billed[k] + Undelivered(rt.buf, k)' + (acct'[k] - rt.base[k]) = traffic'[k]
    BY <1>1, Zenon DEF Balanced
  <2>1. /\ rt.base[k] <= acct[k]
        /\ billed[k] + Undelivered(rt.buf, k) + (acct[k] - rt.base[k]) = traffic[k]
    BY <1>3, Zenon DEF LossPart, Balanced
  <2>2. Undelivered(rt.buf, k)' = Undelivered(rt.buf, k)
    BY <1>1, SameUndelivered, Zenon
  <2>3. /\ moved(k) /\ rt.base[k] \in Nat /\ billed[k] \in Nat /\ Undelivered(rt.buf, k) \in Nat
        /\ acct[k] \in Nat /\ traffic[k] \in Nat
    BY <1>2, CountsNat, Zenon
  <2> QED
    BY <2>1, <2>2, <2>3
<1>4. ASSUME pc = "down" PROVE Balanced(disk)'
  <2> SUFFICES ASSUME NEW k \in Key
               PROVE  /\ disk.base[k] <= acct'[k]
                      /\ billed[k] + Undelivered(disk.buf, k)' + (acct'[k] - disk.base[k]) = traffic'[k]
    BY <1>1, Zenon DEF Balanced
  <2>1. /\ disk.base[k] <= acct[k]
        /\ billed[k] + Undelivered(disk.buf, k) + (acct[k] - disk.base[k]) = traffic[k]
    BY <1>4, Zenon DEF LossPart, Balanced
  <2>2. Undelivered(disk.buf, k)' = Undelivered(disk.buf, k)
    BY <1>1, SameUndelivered, Zenon
  <2>3. /\ moved(k) /\ disk.base[k] \in Nat /\ billed[k] \in Nat /\ Undelivered(disk.buf, k) \in Nat
        /\ acct[k] \in Nat /\ traffic[k] \in Nat
    BY <1>2, CountsNat, Zenon
  <2> QED
    BY <2>1, <2>2, <2>3
<1>5. ASSUME pc' = "read", NEW k \in Key PROVE rt'.base[k] <= cur'[k] /\ cur'[k] <= acct'[k]
  <2>1. moved(k) /\ rt.base[k] \in Nat /\ acct[k] \in Nat /\ cur[k] \in Nat
    BY <1>2, CountsNat, Zenon
  <2>2. CASE pc = "read" /\ cur'[k] = cur[k]
    <3>1. rt.base[k] <= cur[k] /\ cur[k] <= acct[k]
      BY <2>2, Zenon DEF LossPart
    <3> QED
      BY <1>1, <2>1, <2>2, <3>1
  <2>3. CASE pc = "collect" /\ cur'[k] = acct[k] /\ acct'[k] = acct[k]
    <3>1. rt.base[k] <= acct[k]
      BY <2>3, Zenon DEF LossPart, Balanced, Up
    <3> QED
      BY <1>1, <2>1, <2>3, <3>1
  <2> HIDE DEF moved
  <2> QED
    BY <1>5, <2>2, <2>3, QuietCounts, Zenon
<1> HIDE DEF moved
<1> QED
  BY <1>1, <1>3, <1>4, <1>5, Zenon DEF LossPart

\* Every step keeps the lower bound on what is billed or still to deliver.
LEMMA LossKeeps ==
  ASSUME AgentInv, InStep, LossInv, Next
  PROVE  LossInv'
<1>0. /\ exposed \in BOOLEAN /\ ahead \in BOOLEAN /\ lossy \in BOOLEAN
      /\ rt \in Runtime /\ disk \in Runtime
  BY Zenon DEF AgentInv, TypeOK
<1>1. CASE Quiet
  <2>1. CASE lossy'
    BY <2>1, Zenon DEF LossInv, LossPart
  <2>2. CASE ~lossy' /\ exposed
    BY <1>1, <2>2, QuietLeaves, Zenon DEF LossInv, LossPart
  <2>3. CASE ~lossy' /\ ~exposed /\ lossy
    <3>1. lossy' = lossy
      BY <1>1, <2>3, Zenon DEF Quiet, Traffic, CounterReset, ReadAcct, ReadFails, FlushDone, PostUsage,
                        PostFails, ApplyRevocations, RevocationsFail
    <3> QED
      BY <2>3, <3>1, Zenon
  <2>4. CASE ~lossy' /\ ~exposed /\ ~lossy
    <3>1. LossPart
      BY <2>4, Zenon DEF LossInv, LossPart
    <3>2. LossPart'
      BY <1>1, <2>4, <3>1, LossQuiet, Zenon
    <3> QED
      BY <3>2, Zenon DEF LossInv, LossPart
  <2> QED
    BY <2>1, <2>2, <2>3, <2>4, Zenon
<1>2. CASE CollectAndBuffer \/ CollectNotSaved
  <2>1. PICK saved \in BOOLEAN : Collect(saved)
    BY <1>2, Zenon DEF CollectAndBuffer, CollectNotSaved
  <2>2. /\ exposed' = exposed /\ pc = "read" /\ pc' = "flush" /\ rt' = Collected
        /\ UNCHANGED <<acct, traffic, billed>>
        /\ \/ disk' = rt' /\ file' = "ok"
           \/ disk' = disk /\ file' = file
    BY <2>1, Zenon DEF Collect, Write, backendVars
  <2>3. rt'.base = cur /\ rt'.prime = FALSE
    BY <2>2, CollectedIs, Zenon
  <2>4. lossy => lossy'
    BY <1>0, <2>1, Zenon DEF Collect
  <2>5. SUFFICES ASSUME ~exposed, ~lossy', ~lossy PROVE LossInv'
    BY <1>0, <2>2, <2>4, Zenon DEF LossInv, LossPart
  <2>6. ASSUME NEW k \in Key
        PROVE  /\ cur[k] <= acct[k]
               /\ billed[k] + Undelivered(rt.buf, k)' + (acct[k] - cur[k]) = traffic[k]
    <3>1. /\ rt.base[k] <= cur[k] /\ cur[k] <= acct[k]
          /\ billed[k] + Undelivered(rt.buf, k) + (acct[k] - rt.base[k]) = traffic[k]
      BY <2>2, <2>5, Zenon DEF LossInv, LossPart, Balanced, Up
    <3>2. Undelivered(rt.buf, k)' = Undelivered(rt.buf, k) + Delta(rt.base[k], cur[k])
      BY <2>1, <2>5, CollectAdds, Zenon
    <3>3. /\ billed[k] \in Nat /\ Undelivered(rt.buf, k) \in Nat /\ rt.base[k] \in Nat
          /\ acct[k] \in Nat /\ cur[k] \in Nat /\ traffic[k] \in Nat
      BY CountsNat, Zenon
    <3>4. Delta(rt.base[k], cur[k]) = cur[k] - rt.base[k]
      BY <3>1, <3>3, DeltaFacts, Zenon
    <3> QED
      BY <3>1, <3>2, <3>3, <3>4
  <2>7. Balanced(rt)'
    BY <2>2, <2>3, <2>6, Zenon DEF Balanced
  <2>8. ~rt'.prime /\ ~disk'.prime /\ file' # "corrupt"
    BY <2>2, <2>3, <2>5, Zenon DEF LossInv, LossPart
  <2> QED
    BY <2>2, <2>7, <2>8, Zenon DEF LossInv, LossPart
<1>3. CASE Ingest
  <2>1. /\ exposed' = exposed /\ lossy' = lossy /\ pc = "posted" /\ pc' = "acked"
        /\ UNCHANGED <<acct, rt, disk, file, traffic>>
    BY <1>3, Zenon DEF Ingest, history
  <2>2. SUFFICES ASSUME ~exposed, ~lossy PROVE LossInv'
    BY <2>1, Zenon DEF LossInv, LossPart
  <2>3. ASSUME NEW k \in Key
        PROVE  /\ rt.base[k] <= acct[k]
               /\ billed'[k] + Undelivered(rt.buf, k)' + (acct[k] - rt.base[k]) = traffic[k]
    <3>1. /\ rt.base[k] <= acct[k]
          /\ billed[k] + Undelivered(rt.buf, k) + (acct[k] - rt.base[k]) = traffic[k]
      BY <2>1, <2>2, Zenon DEF LossInv, LossPart, Balanced, Up
    <3>2. billed'[k] + Undelivered(rt.buf, k)' = billed[k] + Undelivered(rt.buf, k)
      BY <1>3, IngestMoves, Zenon
    <3> QED
      BY <3>1, <3>2, Zenon
  <2>4. Balanced(rt)'
    BY <2>1, <2>3, Zenon DEF Balanced
  <2> QED
    BY <2>1, <2>2, <2>4, Zenon DEF LossInv, LossPart
<1>4. CASE RemoveReport \/ RemoveNotSaved
  <2>1. PICK saved \in BOOLEAN : Dequeue(saved)
    BY <1>4, Zenon DEF RemoveReport, RemoveNotSaved
  <2>2. /\ exposed' = exposed /\ lossy' = lossy /\ pc = "remove" /\ pc' \in {"flush", "collect"}
        /\ rt' = WithoutReport
        /\ UNCHANGED <<acct, traffic, billed, ingested>>
        /\ \/ disk' = rt' /\ file' = "ok"
           \/ disk' = disk /\ file' = file
    BY <2>1, Zenon DEF Dequeue, Write, backendVars, history
  <2>3. rt'.base = rt.base /\ rt'.prime = rt.prime /\ Unseen(rt'.buf) = Unseen(rt.buf)
    BY <2>2, WithoutReportIs, Zenon
  <2>4. \A k \in Key : Undelivered(rt.buf, k)' = Undelivered(rt.buf, k)
    BY <2>2, <2>3, SameUndelivered, Zenon DEF Undelivered
  <2> QED
    BY <2>2, <2>3, <2>4, Zenon DEF LossInv, LossPart, Balanced, Up
<1>5. CASE SaveRuntime \/ PersistRecovered
  <2>1. /\ exposed' = exposed /\ lossy' = lossy /\ disk' = rt /\ file' = "ok"
        /\ UNCHANGED <<acct, traffic, billed, ingested, rt, cur>>
        /\ pc = "recover" \/ (Up /\ pc' = pc)
    BY <1>5, Zenon DEF SaveRuntime, PersistRecovered, Write, backendVars, Up
  <2>2. \A k \in Key : Undelivered(rt.buf, k)' = Undelivered(rt.buf, k)
    BY <2>1, SameUndelivered, Zenon
  <2> QED
    BY <2>1, <2>2, Zenon DEF LossInv, LossPart, Balanced, Up
<1>6. CASE Crash
  <2>1. /\ Up /\ exposed' = (exposed \/ ahead) /\ lossy' = lossy /\ pc' = "down" /\ rt' = Fresh
        /\ UNCHANGED <<acct, traffic, billed, ingested, disk, file>>
    BY <1>6, Zenon DEF Crash, Stop, Up, backendVars
  <2>2. SUFFICES ASSUME ~exposed, ~ahead, ~lossy PROVE LossInv'
    BY <1>0, <2>1, Zenon DEF LossInv, LossPart
  <2>3. \A k \in Key : Undelivered(disk.buf, k)' = Undelivered(rt.buf, k)
    BY <2>1, <2>2, SameUndelivered, Zenon DEF InStep, Undelivered
  <2>4. Balanced(disk)'
    BY <2>1, <2>2, <2>3, Zenon DEF LossInv, LossPart, Balanced, InStep
  <2> QED
    BY <2>1, <2>2, <2>4, FreshTyped, Zenon DEF LossInv, LossPart, Up
<1>7. CASE CrashCorrupt
  BY <1>7, Zenon DEF CrashCorrupt, LossInv, LossPart
<1>8. CASE RecoveryFails
  BY <1>0, <1>8, Zenon DEF RecoveryFails, Stop, LossInv, LossPart, AgentInv
<1>9. CASE Start
  <2>1. /\ exposed' = exposed /\ lossy' = lossy /\ pc = "down" /\ pc' = "collect" /\ rt' = disk
        /\ UNCHANGED <<acct, traffic, billed, ingested, disk, file>>
    BY <1>9, Zenon DEF Start, backendVars, history
  <2>2. \A k \in Key : Undelivered(rt.buf, k)' = Undelivered(disk.buf, k)
    BY <2>1, SameUndelivered, Zenon
  <2> QED
    BY <2>1, <2>2, Zenon DEF LossInv, LossPart, Balanced, Up
<1>10. CASE MoveAside
  <2>1. file = "corrupt" /\ exposed' = exposed /\ lossy' = lossy
    BY <1>10, Zenon DEF MoveAside
  <2> QED
    BY <2>1, Zenon DEF LossInv, LossPart
<1> QED
  BY <1>1, <1>2, <1>3, <1>4, <1>5, <1>6, <1>7, <1>8, <1>9, <1>10, Zenon
     DEF Next, UsageStep, FaultStep, Quiet

-----------------------------------------------------------------------------
(* Theorems                                                                *)

\* Both bounds hold initially.
LEMMA SumsInitially == Init => OnceInv /\ LossInv
<1> SUFFICES ASSUME Init PROVE OnceInv /\ LossInv
  BY Zenon
<1>1. \A k \in Key : Undelivered(rt.buf, k) = 0
  <2>1. Unseen(rt.buf) = {}
    BY FreshTyped DEF Init, Unseen, Range
  <2> QED
    BY <2>1, SumEmpty, Zenon DEF Undelivered, BytesIn
<1>2. \A k \in Key : /\ billed[k] = 0 /\ traffic[k] = 0 /\ acct[k] = 0 /\ rt.base[k] = 0
  BY Zenon DEF Init, Zero, Fresh
<1>3. ~rt.prime /\ ~disk.prime
  BY FreshTyped, Zenon DEF Init
<1>4. Sound(rt) /\ Balanced(rt)
  BY <1>1, <1>2, <1>3 DEF Sound, Balanced, Above, Delta
<1> QED
  BY <1>2, <1>3, <1>4 DEF Init, OnceInv, OncePart, LossInv, LossPart, Up

\* Everything the argument carries from step to step.
THEOREM MeteringInvariant == Spec => []IInv
<1>1. Init => IInv
  BY AgentInitially, SumsInitially, Zenon DEF IInv
<1>2. IInv /\ [Next]_vars => IInv'
  <2> SUFFICES ASSUME IInv, [Next]_vars PROVE IInv'
    BY Zenon
  <2>1. CASE Next
    BY <2>1, AgentKeeps, InStepKeeps, OnceKeeps, LossKeeps, Zenon DEF IInv
  <2>2. CASE UNCHANGED vars
    <3>1. UNCHANGED <<acct, rt, disk, file, pc, cur, report, revoke, nextId, ingested, billed,
                      faults, traffic, lossy, ahead, exposed>>
      BY <2>2, Zenon DEF vars, agentVars, backendVars, history
    <3>2. AgentInv' /\ InStep'
      BY <3>1, Zenon DEF IInv, AgentInv, TypeOK, InStep, Unseen, Up
    <3>3. \A k \in Key : /\ Undelivered(rt.buf, k)' = Undelivered(rt.buf, k)
                         /\ Undelivered(disk.buf, k)' = Undelivered(disk.buf, k)
      BY <3>1, SameUndelivered, Zenon
    <3>4. OnceInv'
      BY <3>1, <3>3, Zenon DEF IInv, OnceInv, OncePart, Sound, SoundRead, Above
    <3>5. LossInv'
      BY <3>1, <3>3, Zenon DEF IInv, LossInv, LossPart, Balanced, Up
    <3> QED
      BY <3>2, <3>4, <3>5, Zenon DEF IInv
  <2> QED
    BY <2>1, <2>2, Zenon
<1> QED
  BY <1>1, <1>2, PTL DEF Spec

\* The agent's and the backend's state keep their types, and the buffer its
\* cap, whatever fails: bufferReport never leaves more than bufferCap reports.
THEOREM MeteringTypes == Spec => []TypeOK
BY MeteringInvariant, PTL DEF IInv, AgentInv

\* No byte is billed twice, for any counters, buffer cap and faults, unless a
\* crash met a collection or a recovery that no write had saved: retried and
\* lost deliveries, failed writes that are made good later, counter resets
\* and every other crash are covered.
THEOREM BilledOnce == Spec => []CountedOnce
<1>1. IInv => CountedOnce
  BY Zenon DEF IInv, OnceInv, OncePart, CountedOnce
<1> QED
  BY <1>1, MeteringInvariant, PTL

\* While nothing was written off by design, every byte that passed is billed,
\* buffered or above its baseline: crashes and failed deliveries lose none.
THEOREM NoByteLost == Spec => []NothingLost
<1>1. IInv => NothingLost
  BY Zenon DEF IInv, LossInv, LossPart, NothingLost, Balanced, Up
<1> QED
  BY <1>1, MeteringInvariant, PTL

\* Baselines or the prime flag are in memory only during the recovery of an
\* unreadable file, and no crash met that.
Saved == (ahead => pc = "recover") /\ ~exposed

\* Without failing writes, and with a recovery that is not cut short, every
\* step keeps Saved.
LEMMA SavedKeeps ==
  ASSUME "persist" \notin Faults, "recovery" \notin Faults, Saved, [Next]_vars
  PROVE  Saved'
<1>1. CASE UNCHANGED vars \/ \E k \in Key : Traffic(k)
  BY <1>1 DEF Saved, Traffic, vars, agentVars, history
<1>2. CASE ReadAcct \/ FlushDone \/ PostUsage \/ Ingest \/ ApplyRevocations \/ Start
  BY <1>2 DEF Saved, ReadAcct, FlushDone, PostUsage, Ingest, ApplyRevocations, Start, history
<1>3. CASE CollectAndBuffer \/ RemoveReport \/ PersistRecovered \/ SaveRuntime
  BY <1>3 DEF Saved, CollectAndBuffer, Collect, RemoveReport, Dequeue, PersistRecovered,
                     SaveRuntime, Write
<1>4. CASE MoveAside
  BY <1>4, Zenon DEF Saved, MoveAside
<1>5. CASE CounterReset \/ ReadFails \/ PostFails \/ RevocationsFail
  BY <1>5 DEF Saved, CounterReset, ReadFails, PostFails, RevocationsFail, agentVars, history
<1>6. CASE Crash \/ CrashCorrupt
  BY <1>6, Zenon DEF Saved, Crash, CrashCorrupt, Stop
<1>7. ~CollectNotSaved /\ ~RemoveNotSaved /\ ~RecoveryFails
  BY Zenon DEF CollectNotSaved, RemoveNotSaved, RecoveryFails, Fault
<1> QED
  BY <1>1, <1>2, <1>3, <1>4, <1>5, <1>6, <1>7, Zenon DEF Next, UsageStep, FaultStep

\* Where collectAndBuffer's comment is right: as long as no write of
\* runtime.json fails and no crash falls into the recovery of an unreadable
\* one, no byte is ever billed twice, whatever else crashes, is lost or reset.
THEOREM NeverTwiceIfWritesSucceed ==
  ASSUME "persist" \notin Faults, "recovery" \notin Faults
  PROVE  Spec => []NeverDoubleCounts
<1>1. Init => Saved
  BY Zenon DEF Init, Saved
<1>2. Saved /\ [Next]_vars => Saved'
  BY SavedKeeps, Zenon
<1>3. Saved /\ CountedOnce => NeverDoubleCounts
  BY Zenon DEF Saved, CountedOnce, NeverDoubleCounts
<1> QED
  BY <1>1, <1>2, <1>3, BilledOnce, PTL DEF Spec
=============================================================================
