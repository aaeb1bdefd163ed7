-------------------------- MODULE ExitNodeProofs ----------------------------
(***************************************************************************)
(* An exit's connections, enrolment and outage clock, for any number of    *)
(* connections and slots and any grace windows.                            *)
(*                                                                         *)
(* A connection's record is Sound by itself: what the client was told fits *)
(* where the handler is and what the upstream answered.  The slots need a  *)
(* count of the connections that enter and leave.  The outage clock is     *)
(* Slow: unless an answer was lost on the way to the disk, neither it nor  *)
(* its copy on disk is ahead of the true outage.                           *)
(***************************************************************************)
EXTENDS ExitNode, FiniteSetTheorems, TLAPS

Record ==
  [at : Where, client : {"open", "fin", "rst"}, upstream : {"none", "open", "fin"},
   up : BOOLEAN, down : BOOLEAN, late : BOOLEAN, idle : BOOLEAN,
   answer : {"none", "granted", "refused"},
   told : {"nothing", "pending", "granted", "refused", "unreachable", "unsupported", "portal"}]

Sound(r) ==
  /\ r.at \in {"new", "shed", "captive", "negotiate", "dial", "ask"} => r.answer = "none"
  /\ r.at \in {"new", "shed", "captive", "negotiate"} => r.told = "nothing"
  /\ r.at \in {"dial", "ask", "reply"} => r.told = "pending"
  /\ r.at = "reply" => r.answer # "none"
  /\ r.at = "relay" => r.told = "granted" /\ r.answer = "granted"
  /\ r.at = "done" /\ r.told = "pending" => r.client = "rst" \/ r.late
  /\ r.at = "done" /\ r.told = "granted" => r.answer = "granted"
  /\ r.at = "done" /\ r.answer = "refused" => r.told \in {"refused", "pending"}

Handled == {c \in Conn : conn[c].at \in Handling}
Captured == {c \in Conn : conn[c].at = "captive"}

ConnInv ==
  /\ conn \in [Conn -> Record] /\ \A c \in Conn : Sound(conn[c])
  /\ sem \in 0..MaxConns /\ sem = Cardinality(Handled)
  /\ captiveSem \in 0..CaptiveConns /\ captiveSem = Cardinality(Captured)

\* The connections handled and captured are finitely many.
LEMMA Counts ==
  /\ IsFiniteSet(Handled) /\ Cardinality(Handled) \in Nat
  /\ IsFiniteSet(Captured) /\ Cardinality(Captured) \in Nat
BY DispatchAssumption, FS_Subset, FS_CardinalityType DEF Handled, Captured

\* One connection changes, and the slots with it.
LEMMA StepKeeps ==
  ASSUME ConnInv, NEW c \in Conn, NEW new \in Record, Sound(new), Set(c, new),
         \/ /\ conn[c].at \in Handling <=> new.at \in Handling
            /\ sem' = sem
         \/ /\ conn[c].at \in Handling /\ new.at \notin Handling
            /\ sem' = sem - 1
         \/ /\ conn[c].at \notin Handling /\ new.at \in Handling
            /\ sem < MaxConns /\ sem' = sem + 1,
         \/ /\ conn[c].at = "captive" <=> new.at = "captive"
            /\ captiveSem' = captiveSem
         \/ /\ conn[c].at = "captive" /\ new.at # "captive"
            /\ captiveSem' = captiveSem - 1
         \/ /\ conn[c].at # "captive" /\ new.at = "captive"
            /\ captiveSem < CaptiveConns /\ captiveSem' = captiveSem + 1
  PROVE  ConnInv'
<1>1. conn' = [conn EXCEPT ![c] = new] /\ conn' \in [Conn -> Record]
  BY DEF Set, ConnInv
<1>2. \A d \in Conn : conn'[d] = IF d = c THEN new ELSE conn[d]
  BY <1>1 DEF ConnInv
<1>3. \A d \in Conn : Sound(conn'[d])
  BY <1>2 DEF ConnInv
<1>4. sem' \in 0..MaxConns /\ sem' = Cardinality(Handled')
  <2>1. CASE (conn[c].at \in Handling <=> new.at \in Handling) /\ sem' = sem
    <3>1. Handled' = Handled
      BY <1>2, <2>1 DEF Handled
    <3> QED
      BY <2>1, <3>1 DEF ConnInv
  <2>2. CASE conn[c].at \in Handling /\ new.at \notin Handling /\ sem' = sem - 1
    <3>1. Handled' = Handled \ {c} /\ c \in Handled
      BY <1>2, <2>2 DEF Handled
    <3>2. Cardinality(Handled') = Cardinality(Handled) - 1 /\ Cardinality(Handled') \in Nat
      BY <3>1, Counts, FS_RemoveElement, FS_CardinalityType
    <3> QED
      BY <2>2, <3>2, DispatchAssumption DEF ConnInv
  <2>3. CASE conn[c].at \notin Handling /\ new.at \in Handling /\ sem < MaxConns /\ sem' = sem + 1
    <3>1. Handled' = Handled \cup {c} /\ c \notin Handled
      BY <1>2, <2>3 DEF Handled
    <3>2. Cardinality(Handled') = Cardinality(Handled) + 1
      BY <3>1, Counts, FS_AddElement, Zenon
    <3> QED
      BY <2>3, <3>2, DispatchAssumption DEF ConnInv
  <2> QED
    BY <2>1, <2>2, <2>3
<1>5. captiveSem' \in 0..CaptiveConns /\ captiveSem' = Cardinality(Captured')
  <2>1. CASE (conn[c].at = "captive" <=> new.at = "captive") /\ captiveSem' = captiveSem
    <3>1. Captured' = Captured
      BY <1>2, <2>1 DEF Captured
    <3> QED
      BY <2>1, <3>1 DEF ConnInv
  <2>2. CASE conn[c].at = "captive" /\ new.at # "captive" /\ captiveSem' = captiveSem - 1
    <3>1. Captured' = Captured \ {c} /\ c \in Captured
      BY <1>2, <2>2 DEF Captured
    <3>2. Cardinality(Captured') = Cardinality(Captured) - 1 /\ Cardinality(Captured') \in Nat
      BY <3>1, Counts, FS_RemoveElement, FS_CardinalityType
    <3> QED
      BY <2>2, <3>2, DispatchAssumption DEF ConnInv
  <2>3. CASE conn[c].at # "captive" /\ new.at = "captive" /\ captiveSem < CaptiveConns
             /\ captiveSem' = captiveSem + 1
    <3>1. Captured' = Captured \cup {c} /\ c \notin Captured
      BY <1>2, <2>3 DEF Captured
    <3>2. Cardinality(Captured') = Cardinality(Captured) + 1
      BY <3>1, Counts, FS_AddElement, Zenon
    <3> QED
      BY <2>3, <3>2, DispatchAssumption DEF ConnInv
  <2> QED
    BY <2>1, <2>2, <2>3
<1> QED
  BY <1>1, <1>3, <1>4, <1>5 DEF ConnInv

\* A handler step that stays in the handler and leaves a sound record keeps
\* the invariant of the connections.
LEMMA ChangeKeeps ==
  ASSUME ConnInv, NEW c \in Conn, NEW new \in Record, Sound(new), Change(c, new),
         conn[c].at \in Handling, new.at \in Handling
  PROVE  ConnInv'
BY StepKeeps DEF Change, Handling

\* The end of a handler, which gives the slot back, keeps the invariant.
LEMMA ReleaseKeeps ==
  ASSUME ConnInv, NEW c \in Conn, conn[c].at \in Handling,
         NEW told \in {"nothing", "pending", "granted", "refused", "unreachable", "unsupported"},
         Release(c, told),
         told = "pending" => conn[c].client = "rst" \/ conn[c].late,
         told = "granted" => conn[c].answer = "granted",
         conn[c].answer = "refused" => told \in {"refused", "pending"}
  PROVE  ConnInv'
<1> DEFINE new == [conn[c] EXCEPT !.at = "done", !.told = told, !.upstream = "none",
                                  !.up = FALSE, !.down = FALSE, !.idle = FALSE]
<1>1. conn[c] \in Record
  BY DEF ConnInv
<1>2. /\ new \in Record /\ new.at = "done" /\ new.told = told /\ new.answer = conn[c].answer
      /\ new.client = conn[c].client /\ new.late = conn[c].late
  BY <1>1, Zenon DEF Record, Where
<1>3. Set(c, new) /\ sem' = sem - 1 /\ captiveSem' = captiveSem
  BY DEF Release, Closed
<1> HIDE DEF new
<1>4. Sound(new)
  BY <1>2 DEF Sound
<1>5. new.at \notin Handling /\ conn[c].at # "captive" /\ new.at # "captive"
  BY <1>2 DEF Handling
<1> QED
  BY <1>2, <1>3, <1>4, <1>5, StepKeeps

\* Accepting a connection, or finding the limiter full, keeps the invariant.
LEMMA AcceptKeeps ==
  ASSUME ConnInv, NEW c \in Conn, AcceptCaptive(c) \/ Accept(c) \/ CaptiveHandle(c)
  PROVE  ConnInv'
<1>1. ASSUME NEW at \in {"captive", "shed", "negotiate"}
      PROVE  LET new == [Fresh EXCEPT !.at = at] IN new \in Record /\ Sound(new) /\ new.at = at
  BY Zenon DEF Fresh, Record, Sound, Where, Handling
<1>2. CASE AcceptCaptive(c)
  BY <1>1, <1>2, StepKeeps, Zenon DEF AcceptCaptive, Redirected, At, Handling
<1>3. CASE Accept(c)
  BY <1>1, <1>3, StepKeeps, Zenon DEF Accept, Admitted, At, Handling
<1>4. CASE CaptiveHandle(c)
  <2>1. PICK t \in {"nothing", "unsupported", "portal"} : CaptiveEnds(c, t)
    BY <1>4 DEF CaptiveHandle, SocksRefuses, ServeRedirect
  <2> DEFINE new == [conn[c] EXCEPT !.at = "done", !.told = t]
  <2>2. conn[c] \in Record /\ conn[c].at = "captive" /\ conn[c].answer = "none"
    BY <2>1 DEF ConnInv, Sound, CaptiveEnds, At
  <2>3. new \in Record /\ new.at = "done" /\ new.told = t /\ new.answer = "none"
    BY <2>2, Zenon DEF Record, Where
  <2>4. Set(c, new) /\ sem' = sem /\ captiveSem' = captiveSem - 1
    BY <2>1 DEF CaptiveEnds
  <2> HIDE DEF new
  <2>5. Sound(new)
    BY <2>3 DEF Sound
  <2> QED
    BY <2>2, <2>3, <2>4, <2>5, StepKeeps DEF Handling
<1> QED
  BY <1>2, <1>3, <1>4

\* What the network does changes neither the answer nor what was told.
LEMMA NetworkKeeps ==
  ASSUME ConnInv, NEW c \in Conn, Reset(c) \/ Peer(c) \/ DeadlinePasses(c) \/ GoesIdle(c)
  PROVE  ConnInv'
<1>1. conn[c] \in Record /\ Sound(conn[c])
  BY DEF ConnInv
<1>2. ASSUME NEW new \in Record, Change(c, new), conn[c].at \in Handling, new.at = conn[c].at,
             new.answer = conn[c].answer, new.told = conn[c].told
      PROVE  ConnInv'
  <2>1. Sound(new)
    BY <1>1, <1>2 DEF Sound, Handling
  <2> QED
    BY <1>2, <2>1, ChangeKeeps
<1>3. CASE Reset(c)
  BY <1>1, <1>2, <1>3 DEF Reset, Record
<1>4. CASE ClientCloses(c)
  BY <1>1, <1>2, <1>4 DEF ClientCloses, Record
<1>5. CASE UpstreamCloses(c)
  BY <1>1, <1>2, <1>5 DEF UpstreamCloses, Record, At, Handling
<1>6. CASE ClientSends(c)
  BY <1>1, <1>2, <1>6, Zenon DEF ClientSends, Record, At, Handling
<1>7. CASE UpstreamSends(c)
  <2> DEFINE new == [conn[c] EXCEPT !.idle = FALSE, !.down = conn[c].client # "rst"]
  <2>1. /\ new \in Record /\ new.at = conn[c].at /\ new.answer = conn[c].answer
        /\ new.told = conn[c].told
    BY <1>1, Zenon DEF Record
  <2>2. Change(c, new) /\ conn[c].at \in Handling
    BY <1>7 DEF UpstreamSends, At, Handling
  <2> HIDE DEF new
  <2> QED
    BY <1>2, <2>1, <2>2
<1>8. CASE DeadlinePasses(c)
  BY <1>1, <1>2, <1>8, Zenon DEF DeadlinePasses, Record
<1>9. CASE GoesIdle(c)
  BY <1>1, <1>2, <1>9, Zenon DEF GoesIdle, Record, At, Handling
<1> QED
  BY <1>3, <1>4, <1>5, <1>6, <1>7, <1>8, <1>9 DEF Peer

\* Every step of a handler, and the end of its lifetime, keeps the invariant.
LEMMA HandlerKeeps ==
  ASSUME ConnInv, NEW c \in Conn, Handler(c) \/ LifetimeEnds(c)
  PROVE  ConnInv'
<1>1. conn[c] \in Record /\ Sound(conn[c])
  BY DEF ConnInv
<1>r. ASSUME At(c, "relay"), Release(c, conn[c].told) PROVE ConnInv'
  BY <1>1, <1>r, ReleaseKeeps DEF At, Sound, Handling
<1>2. CASE NegotiateFails(c)
  BY <1>1, <1>2, ReleaseKeeps DEF NegotiateFails, At, Sound, Handling
<1>3. CASE Negotiate(c) /\ Release(c, "refused")
  BY <1>1, <1>3, ReleaseKeeps DEF Negotiate, At, Sound, Handling
<1>4. CASE Negotiate(c) /\ Change(c, [conn[c] EXCEPT !.at = "dial", !.told = "pending"])
  <2> DEFINE new == [conn[c] EXCEPT !.at = "dial", !.told = "pending"]
  <2>1. new \in Record /\ new.at = "dial" /\ new.told = "pending" /\ new.answer = conn[c].answer
    BY <1>1, Zenon DEF Record, Where, Handling
  <2>2. Change(c, new) /\ conn[c].at = "negotiate"
    BY <1>4 DEF Negotiate, At
  <2> HIDE DEF new
  <2> QED
    BY <1>1, <2>1, <2>2, ChangeKeeps DEF Sound, Handling
<1>5. CASE DialConnects(c)
  <2> DEFINE new == [conn[c] EXCEPT !.at = "ask", !.upstream = "open"]
  <2>1. new \in Record /\ new.at = "ask" /\ new.told = conn[c].told /\ new.answer = conn[c].answer
    BY <1>1, Zenon DEF Record, Where, Handling
  <2>2. Change(c, new) /\ conn[c].at = "dial"
    BY <1>5 DEF DialConnects, At
  <2> HIDE DEF new
  <2> QED
    BY <1>1, <2>1, <2>2, ChangeKeeps DEF Sound, Handling
<1>6. CASE DialFails(c)
  BY <1>1, <1>6, ReleaseKeeps DEF DialFails, Writable, Sound, Handling
<1>7. CASE UpstreamAnswers(c)
  <2>1. PICK a \in {"granted", "refused"} : Change(c, [conn[c] EXCEPT !.at = "reply", !.answer = a])
    BY <1>7, Zenon DEF UpstreamAnswers
  <2> DEFINE new == [conn[c] EXCEPT !.at = "reply", !.answer = a]
  <2>2. new \in Record /\ new.at = "reply" /\ new.told = conn[c].told /\ new.answer = a
    BY <1>1, Zenon DEF Record, Where, Handling
  <2>3. Change(c, new) /\ conn[c].at = "ask"
    BY <1>7, <2>1 DEF UpstreamAnswers, At
  <2> HIDE DEF new
  <2> QED
    BY <1>1, <2>2, <2>3, ChangeKeeps DEF Sound, Handling
<1>8. CASE Reply(c) /\ ~Writable(c)
  BY <1>1, <1>8, ReleaseKeeps DEF Reply, Writable, At, Sound, Handling
<1>9. CASE Reply(c) /\ Writable(c) /\ conn[c].answer = "refused"
  BY <1>1, <1>9, ReleaseKeeps DEF Reply, At, Sound, Handling
<1>10. CASE Reply(c) /\ Writable(c) /\ conn[c].answer # "refused"
  <2> DEFINE new == [conn[c] EXCEPT !.at = "relay", !.told = "granted", !.late = FALSE,
                                    !.up = TRUE, !.down = TRUE]
  <2>1. /\ new \in Record /\ new.at = "relay" /\ new.told = "granted"
        /\ new.answer = conn[c].answer
    BY <1>1, ZenonT(30) DEF Record, Where, Handling
  <2>2. Change(c, new) /\ conn[c].at = "reply"
    BY <1>10 DEF Reply, At
  <2>3. conn[c].answer = "granted"
    BY <1>1, <1>10, <2>2 DEF Record, Sound
  <2> HIDE DEF new
  <2> QED
    BY <2>1, <2>2, <2>3, ChangeKeeps DEF Sound, Handling
<1>11. ASSUME NEW new \in Record, Change(c, new), At(c, "relay"), new.at = "relay",
              new.answer = conn[c].answer, new.told = conn[c].told
       PROVE  ConnInv'
  BY <1>1, <1>11, ChangeKeeps DEF At, Sound, Handling
<1>12. CASE CopyUpEnds(c)
  BY <1>1, <1>11, <1>12, Zenon DEF CopyUpEnds, At, Record
<1>13. CASE CopyDownEnds(c)
  BY <1>1, <1>11, <1>13, Zenon DEF CopyDownEnds, At, Record
<1>14. CASE RelayDone(c) \/ IdleWatchdog(c) \/ LifetimeEnds(c)
  BY <1>r, <1>14 DEF RelayDone, IdleWatchdog, LifetimeEnds
<1>15. CASE Negotiate(c)
  BY <1>3, <1>4, <1>15 DEF Negotiate
<1> QED
  BY <1>2, <1>15, <1>5, <1>6, <1>7, <1>8, <1>9, <1>10, <1>12, <1>13, <1>14 DEF Handler

\* Every step of the connections keeps their invariant.
LEMMA ConnNextKeeps ==
  ASSUME ConnInv, ConnNext
  PROVE  ConnInv'
BY AcceptKeeps, NetworkKeeps, HandlerKeeps DEF ConnNext, Clock

\* A step that leaves the connections alone keeps their invariant.
LEMMA ConnFrame ==
  ASSUME ConnInv, UNCHANGED connVars
  PROVE  ConnInv'
BY DEF ConnInv, connVars, Handled, Captured

\* The invariant of the connections holds initially.
LEMMA ConnInitInv == ConnInit => ConnInv
<1> SUFFICES ASSUME ConnInit PROVE ConnInv
  OBVIOUS
<1>1. Fresh \in Record /\ Sound(Fresh) /\ Fresh.at = "new"
  BY DEF Fresh, Record, Sound, Where
<1>2. \A c \in Conn : conn[c] = Fresh
  BY DEF ConnInit
<1>3. Handled = {} /\ Captured = {}
  BY <1>1, <1>2 DEF Handled, Captured, Handling
<1>4. Cardinality({}) = 0
  BY FS_EmptySet
<1> QED
  BY <1>1, <1>2, <1>3, <1>4, DispatchAssumption DEF ConnInv, ConnInit

-----------------------------------------------------------------------------
(* The agent                                                               *)

AgentTyped ==
  /\ authorized \in BOOLEAN /\ token \in {"fresh", "used"} /\ tokens \in 1..MaxTokens /\ nodes \in Nat
  /\ identity \in BOOLEAN /\ proc \in {"down", "enrol", "save", "up"}
  /\ reach \in BOOLEAN /\ paid \in BOOLEAN /\ grace \in {DefaultGrace, Grace}
  /\ since \in Ages /\ outage \in Ages /\ saved \in Ages \cup {Never} /\ uptime \in 0..StartupGrace
  /\ faults \in 0..MaxFaults /\ wasted \in BOOLEAN /\ skewed \in BOOLEAN

EnrolInv ==
  /\ nodes <= tokens /\ (token = "fresh" => nodes < tokens)
  /\ identity \/ proc = "save" => nodes > 0
  /\ token = "used" /\ ~identity /\ proc # "save" => wasted

Slow == ~skewed => since <= outage /\ (saved # Never => saved <= outage)

AgentInv == AgentTyped /\ EnrolInv /\ Slow

\* Ages are bounded naturals, and growing older keeps their order.
LEMMA AgesFacts ==
  /\ MaxAge \in Nat /\ MaxAge > 0 /\ Never \notin Ages /\ 0 \in Ages
  /\ \A a \in Ages : Older(a) \in Ages
  /\ \A a, b \in Ages : a <= b => Older(a) <= Older(b)
BY ExitAssumption DEF MaxAge, Never, Ages, Older

\* The invariant of the agent holds initially.
LEMMA AgentInitInv == Init => AgentInv
<1> SUFFICES ASSUME Init PROVE AgentInv
  OBVIOUS
<1>1. 1 \in 1..MaxTokens /\ 0 \in 0..MaxFaults /\ 0 \in 0..StartupGrace /\ 0 \in Nat /\ 0 \in Ages
  BY ExitAssumption, AgesFacts
<1>2. AgentTyped
  <2>1. nodes \in Nat /\ since \in Ages /\ outage \in Ages /\ saved \in Ages \cup {Never}
    BY <1>1 DEF Init, NewExit, KnownExit
  <2>2. /\ authorized \in BOOLEAN /\ identity \in BOOLEAN /\ reach \in BOOLEAN /\ paid \in BOOLEAN
        /\ token \in {"fresh", "used"}
    BY Zenon DEF Init, NewExit, KnownExit
  <2> QED
    BY <1>1, <2>1, <2>2, Zenon DEF Init, AgentTyped
<1>3. EnrolInv
  BY DEF Init, NewExit, KnownExit, EnrolInv
<1>4. Slow
  <2>1. CASE NewExit
    BY <2>1 DEF Init, NewExit, Slow
  <2>2. CASE KnownExit
    BY <2>2, AgesFacts DEF Init, KnownExit, Slow, Ages
  <2> QED
    BY <2>1, <2>2 DEF Init
<1> QED
  BY <1>2, <1>3, <1>4 DEF AgentInv

\* Neither enrolment nor the clocks change.
LEMMA AgentFrame ==
  ASSUME AgentInv, UNCHANGED <<enrolVars, proc, since, saved, uptime, outage, skewed>>,
         authorized' \in BOOLEAN, reach' \in BOOLEAN, paid' \in BOOLEAN,
         grace' \in {DefaultGrace, Grace}, faults' \in 0..MaxFaults
  PROVE  AgentInv'
<1>1. AgentTyped'
  BY DEF AgentInv, AgentTyped, enrolVars, Ages, MaxAge, Never
<1>2. EnrolInv'
  BY DEF AgentInv, EnrolInv, enrolVars
<1>3. Slow'
  BY DEF AgentInv, Slow, Never, MaxAge
<1> QED
  BY <1>1, <1>2, <1>3 DEF AgentInv

\* The count of faults stays within its bound.
LEMMA FaultCount ==
  ASSUME AgentInv, Fault
  PROVE  faults' \in 0..MaxFaults
BY ExitAssumption DEF Fault, AgentInv, AgentTyped

\* The steps of the enrolment, and a crash in it, keep the agent's invariant.
LEMMA EnrolKeeps ==
  ASSUME AgentInv, Start \/ Enroll \/ SaveIdentity \/ EnrollFails \/ CreateEnrollToken \/ Crash
  PROVE  AgentInv'
<1> USE DEF AgentInv
<1>0. 0 \in Ages /\ 0 \in 0..StartupGrace
  BY AgesFacts, ExitAssumption
<1>1. CASE Start
  <2>1. UNCHANGED <<enrolVars, reach, paid, saved, outage, faults, skewed, authorized>>
        /\ proc' \in {"up", "enrol"} /\ proc = "down" /\ grace' = DefaultGrace /\ uptime' = 0
        /\ since' = (IF saved = Never THEN 0 ELSE saved)
    BY <1>1 DEF Start
  <2>2. since' \in Ages
    BY <1>0, <2>1 DEF AgentTyped
  <2>3. AgentTyped'
    BY <1>0, <2>1, <2>2 DEF AgentTyped, enrolVars, Ages, MaxAge, Never
  <2>4. EnrolInv'
    BY <2>1 DEF EnrolInv, enrolVars
  <2>5. Slow'
    BY <2>1 DEF Slow, AgentTyped, Ages, Never, MaxAge
  <2> QED
    BY <2>3, <2>4, <2>5
<1>2. CASE Enroll
  <2>1. /\ UNCHANGED <<tokens, identity, wasted, reach, paid, clockVars, faults, authorized>>
        /\ proc = "enrol"
        /\ \/ token = "fresh" /\ token' = "used" /\ nodes' = nodes + 1 /\ proc' = "save"
           \/ token = "used" /\ proc' = "down" /\ token' = token /\ nodes' = nodes
    BY <1>2 DEF Enroll
  <2>2. nodes' \in Nat
    BY <2>1 DEF AgentTyped
  <2>3. AgentTyped'
    BY <2>1, <2>2 DEF AgentTyped, clockVars, Ages, MaxAge, Never
  <2>4. EnrolInv'
    BY <2>1 DEF EnrolInv, AgentTyped
  <2>5. Slow'
    BY <2>1 DEF Slow, clockVars, Never, MaxAge
  <2> QED
    BY <2>3, <2>4, <2>5
<1>3. CASE SaveIdentity
  <2>1. /\ UNCHANGED <<token, tokens, nodes, wasted, reach, paid, grace, saved, outage, skewed, faults, authorized>>
        /\ proc = "save" /\ identity' = TRUE /\ proc' = "up" /\ since' = 0 /\ uptime' = 0
    BY <1>3 DEF SaveIdentity
  <2>2. AgentTyped'
    BY <1>0, <2>1 DEF AgentTyped, Ages, MaxAge, Never
  <2>3. EnrolInv'
    BY <2>1 DEF EnrolInv
  <2>4. Slow'
    BY <2>1 DEF Slow, AgentTyped, Ages, Never, MaxAge
  <2> QED
    BY <2>2, <2>3, <2>4
<1>4. CASE EnrollFails
  <2>1. UNCHANGED <<enrolVars, reach, paid, clockVars, faults, authorized>> /\ proc = "enrol" /\ proc' = "down"
    BY <1>4 DEF EnrollFails
  <2>2. AgentTyped'
    BY <2>1 DEF AgentTyped, enrolVars, clockVars, Ages, MaxAge, Never
  <2>3. EnrolInv'
    BY <2>1 DEF EnrolInv, enrolVars
  <2>4. Slow'
    BY <2>1 DEF Slow, clockVars, Never, MaxAge
  <2> QED
    BY <2>2, <2>3, <2>4
<1>5. CASE CreateEnrollToken
  <2>1. /\ UNCHANGED <<nodes, identity, wasted, proc, reach, paid, clockVars, faults, authorized>>
        /\ token' = "fresh" /\ tokens' = tokens + 1 /\ tokens < MaxTokens
    BY <1>5 DEF CreateEnrollToken
  <2>2. tokens' \in 1..MaxTokens /\ nodes < tokens'
    BY <2>1, ExitAssumption DEF AgentTyped, EnrolInv
  <2>3. AgentTyped'
    BY <2>1, <2>2 DEF AgentTyped, clockVars, Ages, MaxAge, Never
  <2>4. EnrolInv'
    BY <2>1, <2>2 DEF EnrolInv, AgentTyped
  <2>5. Slow'
    BY <2>1 DEF Slow, clockVars, Never, MaxAge
  <2> QED
    BY <2>3, <2>4, <2>5
<1>6. CASE Crash
  <2>1. /\ UNCHANGED <<token, tokens, nodes, identity, reach, paid, clockVars>>
        /\ proc' = "down" /\ wasted' = (wasted \/ proc = "save") /\ authorized' \in {authorized, FALSE}
        /\ faults' \in 0..MaxFaults
    BY <1>6, FaultCount, Zenon DEF Crash
  <2>2. AgentTyped'
    BY <2>1, Zenon DEF AgentTyped, clockVars, Ages, MaxAge, Never
  <2>3. EnrolInv'
    BY <2>1, Zenon DEF EnrolInv
  <2>4. Slow'
    BY <2>1 DEF Slow, clockVars, Never, MaxAge
  <2> QED
    BY <2>2, <2>3, <2>4
<1> QED
  BY <1>1, <1>2, <1>3, <1>4, <1>5, <1>6

\* A sync, saved or applied or not, and the clock keep the agent's invariant.
LEMMA ClockKeeps ==
  ASSUME AgentInv, Sync \/ SyncNotSaved \/ SyncNotApplied \/ Tick
  PROVE  AgentInv'
<1> USE DEF AgentInv
<1>1. 0 \in Ages /\ Never \notin Ages
  BY AgesFacts
<1>2. UNCHANGED <<enrolVars, proc, reach, paid, grace>> /\ EnrolInv'
  BY DEF Sync, SyncNotSaved, SyncNotApplied, Tick, EnrolInv, enrolVars
<1>3. CASE Sync
  <2>1. /\ authorized' = paid /\ since' = 0 /\ saved' = 0 /\ outage' = 0 /\ skewed' = FALSE
        /\ UNCHANGED <<uptime, faults>>
    BY <1>3 DEF Sync
  <2>2. AgentTyped'
    BY <1>1, <1>2, <2>1, Zenon DEF AgentTyped, enrolVars, Ages, MaxAge, Never
  <2>3. Slow'
    BY <2>1 DEF Slow
  <2> QED
    BY <1>2, <2>2, <2>3
<1>4. CASE SyncNotSaved \/ SyncNotApplied
  <2>1. /\ authorized' \in {authorized, paid} /\ since' \in {0, since} /\ saved' = saved
        /\ outage' = 0 /\ skewed' = TRUE /\ uptime' = uptime /\ faults' \in 0..MaxFaults
    BY <1>4, FaultCount DEF SyncNotSaved, SyncNotApplied
  <2>2. AgentTyped'
    BY <1>1, <1>2, <2>1 DEF AgentTyped, enrolVars, Ages, MaxAge, Never
  <2>3. Slow'
    BY <2>1 DEF Slow
  <2> QED
    BY <1>2, <2>2, <2>3
<1>5. CASE Tick
  <2>1. /\ since' = Older(since) /\ outage' = Older(outage)
        /\ saved' = (IF saved = Never THEN Never ELSE Older(saved))
        /\ uptime' = (IF uptime < StartupGrace THEN uptime + 1 ELSE uptime)
        /\ UNCHANGED <<skewed, faults, authorized>>
    BY <1>5 DEF Tick
  <2>2. /\ since' \in Ages /\ outage' \in Ages /\ saved' \in Ages \cup {Never}
        /\ (saved' # Never => saved # Never /\ saved \in Ages /\ saved' = Older(saved))
    BY <2>1, AgesFacts DEF AgentTyped
  <2>3. uptime' \in 0..StartupGrace
    BY <2>1, ExitAssumption DEF AgentTyped
  <2>4. AgentTyped'
    BY <1>2, <2>1, <2>2, <2>3 DEF AgentTyped, enrolVars, Ages, MaxAge, Never
  <2>5. Slow'
    <3>1. Never' = Never
      BY DEF Never, MaxAge
    <3> QED
      BY <2>1, <2>2, <3>1, AgesFacts DEF Slow, AgentTyped
  <2> QED
    BY <1>2, <2>4, <2>5
<1> QED
  BY <1>3, <1>4, <1>5

\* The other steps of the agent keep its invariant.
LEMMA OtherKeeps ==
  ASSUME AgentInv, SyncFails \/ Heartbeat \/ Backend \/ UNCHANGED agentVars
  PROVE  AgentInv'
<1>1. UNCHANGED <<enrolVars, proc, since, saved, uptime, outage, skewed>>
  BY DEF SyncFails, Heartbeat, Backend, agentVars, enrolVars, clockVars
<1>2. authorized' \in BOOLEAN /\ reach' \in BOOLEAN /\ paid' \in BOOLEAN
  BY Zenon DEF SyncFails, GraceCheck, Heartbeat, Backend, agentVars, AgentInv, AgentTyped
<1>3. grace' \in {DefaultGrace, Grace}
  BY DEF SyncFails, Heartbeat, Backend, agentVars, clockVars, AgentInv, AgentTyped
<1>4. faults' \in 0..MaxFaults
  BY FaultCount DEF SyncFails, Heartbeat, Backend, agentVars, AgentInv, AgentTyped
<1> QED
  BY <1>1, <1>2, <1>3, <1>4, AgentFrame

IInv == ConnInv /\ AgentInv

\* An agent's step leaves the connections alone, a connection's the agent.
LEMMA NextKeeps == IInv /\ [Next]_vars => IInv'
<1> SUFFICES ASSUME ConnInv, AgentInv, [Next]_vars PROVE ConnInv' /\ AgentInv'
  BY DEF IInv
<1>1. CASE AgentNext
  <2>1. UNCHANGED connVars
    BY <1>1, Zenon DEF AgentNext, Start, Enroll, SaveIdentity, EnrollFails, CreateEnrollToken, Crash, Sync,
         SyncNotSaved, SyncNotApplied, SyncFails, Heartbeat, Tick, Backend
  <2> QED
    BY <1>1, <2>1, ConnFrame, EnrolKeeps, ClockKeeps, OtherKeeps DEF AgentNext
<1>2. CASE ConnNext /\ UNCHANGED agentVars
  BY <1>2, ConnNextKeeps, OtherKeeps
<1>3. CASE UNCHANGED vars
  BY <1>3, ConnFrame, OtherKeeps DEF vars
<1> QED
  BY <1>1, <1>2, <1>3 DEF Next

\* Both invariants hold in every reachable state.
LEMMA Invariant == Spec => []IInv
<1>1. Init => IInv
  BY ConnInitInv, AgentInitInv DEF Init, IInv
<1> QED
  BY <1>1, NextKeeps, PTL DEF Spec

-----------------------------------------------------------------------------
\* The types of an exit's state.  Neither semaphore passes its limit, and the
\* backend has no more nodes than it issued tokens.
THEOREM ExitNodeTyped == Spec => []TypeOK
<1>1. IInv => TypeOK
  <2> SUFFICES ASSUME IInv PROVE TypeOK
    OBVIOUS
  <2>1. ConnTypeOK
    BY DEF IInv, ConnInv, AgentInv, AgentTyped, ConnTypeOK, Record
  <2>2. nodes \in 0..MaxTokens
    BY ExitAssumption DEF IInv, AgentInv, AgentTyped, EnrolInv
  <2> QED
    BY <2>1, <2>2 DEF IInv, AgentInv, AgentTyped, TypeOK
<1> QED
  BY <1>1, Invariant, PTL

\* The dispatcher's and the captive daemon's semaphores count the connections
\* that have a handler: every way out of handle gives its slot back, once.
THEOREM SlotsAreCounted == Spec => []SlotsMatch
<1>1. IInv => SlotsMatch
  BY DEF IInv, ConnInv, SlotsMatch, Handled, Captured, At
<1> QED
  BY <1>1, Invariant, PTL

\* handle tells a client whose request it read what became of it, unless the
\* client was reset or the deadline had passed.
THEOREM ClientsAreTold == Spec => []OutcomeTold
<1>1. IInv => OutcomeTold
  <2> SUFFICES ASSUME ConnInv, NEW c \in Conn
               PROVE  /\ At(c, "done") /\ conn[c].told = "pending" => ~Writable(c)
                      /\ conn[c].told = "granted" => conn[c].answer = "granted"
                      /\ At(c, "done") /\ conn[c].answer = "refused" => conn[c].told \in {"refused", "pending"}
    BY DEF IInv, OutcomeTold
  <2>1. conn[c] \in Record /\ Sound(conn[c])
    BY DEF ConnInv
  <2> QED
    BY <2>1 DEF Record, Sound, Where, Handling, At, Writable
<1> QED
  BY <1>1, Invariant, PTL

\* EnrollNode makes one node per token, and ensureEnrolled strands a token
\* only between the backend's answer and saveIdentity.
THEOREM TokensEnrolOnce == Spec => []EnrolledOnce
<1>1. IInv => EnrolledOnce
  BY DEF IInv, AgentInv, EnrolInv, EnrolledOnce
<1> QED
  BY <1>1, Invariant, PTL

\* graceCheck flushes the set only in an outage longer than the grace window,
\* however often the agent was restarted in it.
THEOREM GraceIsKept == Spec => FlushedOnlyAfterGrace
<1> DEFINE Kept == Flushed => FailClosed /\ uptime >= StartupGrace /\ (outage > grace \/ skewed)
<1>1. ASSUME IInv, [Next]_vars PROVE [Kept]_vars
  <2> SUFFICES ASSUME Flushed, Next PROVE Kept
    BY <1>1 DEF Flushed, vars, agentVars
  <2>1. SyncFails
    BY Zenon DEF Flushed, Next, AgentNext, agentVars, Start, Enroll, SaveIdentity, EnrollFails,
         CreateEnrollToken, Crash, Sync, SyncNotSaved, SyncNotApplied, Heartbeat, Tick, Backend
  <2>2. since > grace /\ FailClosed /\ uptime >= StartupGrace
    BY <2>1, Zenon DEF SyncFails, GraceCheck, Flushed
  <2>3. ~skewed => since <= outage
    BY <1>1 DEF IInv, AgentInv, Slow
  <2>4. since \in Nat /\ outage \in Nat /\ grace \in Nat
    BY <1>1, ExitAssumption DEF IInv, AgentInv, AgentTyped, Ages, MaxAge
  <2> QED
    BY <2>2, <2>3, <2>4
<1> QED
  BY <1>1, Invariant, PTL DEF Spec, FlushedOnlyAfterGrace
=============================================================================
