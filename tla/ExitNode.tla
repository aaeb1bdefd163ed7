------------------------------ MODULE ExitNode ------------------------------
(***************************************************************************)
(* The life of an exit: the agent's enrolment and its outage clock         *)
(* (agent/agent.go ensureEnrolled, initLastAuthzOK, markAuthzOK,           *)
(* graceCheck; agent/state.go) with the connections of Dispatch that       *)
(* depend on the set it maintains.  How the set is synchronised is the     *)
(* subject of AuthzSync: here a sync that succeeds makes it the backend's. *)
(*                                                                         *)
(* Clocks are ages in units of the grace window's granularity, minutes:    *)
(* far longer than the timeouts of a connection.                           *)
(***************************************************************************)
EXTENDS Dispatch

CONSTANTS DefaultGrace,  \* GraceMinutes of newAgent
          Grace,         \* what the backend's heartbeat answers
          StartupGrace,  \* startupGrace
          FailClosed,    \* FIPS_AGENT_FAIL_CLOSED_AFTER_GRACE
          MaxTokens,     \* bound: enrolment tokens
          MaxFaults      \* bound: crashes, outages, lost answers, failed writes

ASSUME ExitAssumption ==
  /\ DefaultGrace \in Nat /\ Grace \in Nat /\ StartupGrace \in Nat /\ FailClosed \in BOOLEAN
  /\ MaxTokens \in Nat \ {0} /\ MaxFaults \in Nat

VARIABLES token,     \* the agent's enrolment token: "fresh" or "used"
          tokens,    \* tokens issued
          nodes,     \* exit_nodes rows made with them
          identity,  \* whether identity.json holds a node the backend knows
          proc,      \* the agent's process
          reach,     \* whether the backend can be reached
          paid,      \* whether the backend has the address authorized
          grace,     \* cfg.GraceMinutes of this process
          since,     \* age of lastAuthzOK
          saved,     \* age of the persisted LastAuthzOK, if there is one
          uptime,    \* age of this process
          outage,    \* history: age of the backend's last answer
          faults,
          wasted,    \* history: a token was used and its identity lost
          skewed     \* history: an answer was not applied, or its time not saved

agentVars == <<token, tokens, nodes, identity, proc, reach, paid, grace, since, saved, uptime,
               outage, faults, wasted, skewed, authorized>>
enrolVars == <<token, tokens, nodes, identity, wasted>>
clockVars == <<grace, since, saved, uptime, outage, skewed>>
vars == <<connVars, agentVars>>

MaxAge == 1 + IF Grace > DefaultGrace THEN Grace ELSE DefaultGrace
Ages == 0..MaxAge
Never == MaxAge + 1
Older(age) == IF age < MaxAge THEN age + 1 ELSE age

TypeOK ==
  /\ ConnTypeOK
  /\ token \in {"fresh", "used"} /\ tokens \in 1..MaxTokens /\ nodes \in 0..MaxTokens
  /\ identity \in BOOLEAN /\ proc \in {"down", "enrol", "save", "up"}
  /\ reach \in BOOLEAN /\ paid \in BOOLEAN /\ grace \in {DefaultGrace, Grace}
  /\ since \in Ages /\ outage \in Ages /\ saved \in Ages \cup {Never} /\ uptime \in 0..StartupGrace
  /\ faults \in 0..MaxFaults /\ wasted \in BOOLEAN /\ skewed \in BOOLEAN

\* A new exit, with a token from the operator, or one whose agent was down for
\* a while: the set is as it was left, and the backend may have gone meanwhile.
NewExit ==
  /\ token = "fresh" /\ nodes = 0 /\ identity = FALSE /\ authorized = FALSE
  /\ reach = TRUE /\ paid = TRUE /\ saved = Never /\ outage = 0
KnownExit ==
  /\ token = "used" /\ nodes = 1 /\ identity = TRUE /\ authorized \in BOOLEAN
  /\ reach \in BOOLEAN /\ paid \in BOOLEAN /\ outage \in Ages /\ saved = outage

Init ==
  /\ ConnInit /\ (NewExit \/ KnownExit)
  /\ tokens = 1 /\ proc = "down" /\ grace = DefaultGrace /\ since = 0 /\ uptime = 0
  /\ faults = 0 /\ wasted = FALSE /\ skewed = FALSE

Fault == faults < MaxFaults /\ faults' = faults + 1

-----------------------------------------------------------------------------
(* Enrolment                                                               *)

\* Run: an enrolled agent takes up its identity, initLastAuthzOK its clock.
Start ==
  /\ proc = "down"
  /\ proc' = IF identity THEN "up" ELSE "enrol"
  /\ grace' = DefaultGrace /\ since' = (IF saved = Never THEN 0 ELSE saved) /\ uptime' = 0
  /\ UNCHANGED <<connVars, enrolVars, reach, paid, saved, outage, faults, skewed, authorized>>

\* EnrollNode consumes the token and makes the node, or refuses a used one.
Enroll ==
  /\ proc = "enrol" /\ reach
  /\ \/ /\ token = "fresh"
        /\ token' = "used" /\ nodes' = nodes + 1 /\ proc' = "save"
     \/ /\ token = "used"
        /\ proc' = "down" /\ UNCHANGED <<token, nodes>>
  /\ UNCHANGED <<connVars, tokens, identity, wasted, reach, paid, clockVars, faults, authorized>>

\* Mutant of SaveIdentity: the agent goes on without having written the file.
SaveIdentityLater ==
  /\ proc = "save"
  /\ proc' = "up"
  /\ UNCHANGED <<connVars, enrolVars, reach, paid, clockVars, faults, authorized>>

\* saveIdentity, and the loops begin.
SaveIdentity ==
  /\ proc = "save"
  /\ identity' = TRUE /\ proc' = "up" /\ since' = 0 /\ uptime' = 0
  /\ UNCHANGED <<connVars, token, tokens, nodes, wasted, reach, paid, grace, saved, outage, skewed, faults, authorized>>

\* The backend cannot be reached, and the agent exits.
EnrollFails ==
  /\ proc = "enrol" /\ ~reach
  /\ proc' = "down"
  /\ UNCHANGED <<connVars, enrolVars, reach, paid, clockVars, faults, authorized>>

\* The operator sets a new token for an agent whose token is used up.
CreateEnrollToken ==
  /\ token = "used" /\ ~identity /\ proc # "save" /\ tokens < MaxTokens
  /\ token' = "fresh" /\ tokens' = tokens + 1
  /\ UNCHANGED <<connVars, nodes, identity, wasted, proc, reach, paid, clockVars, faults, authorized>>

\* The process ends.  An identity that is not on disk is lost, whether the
\* answer did not arrive, the file could not be written or the host stopped;
\* a reboot empties the set.
Crash ==
  /\ proc # "down" /\ Fault
  /\ proc' = "down"
  /\ wasted' = (wasted \/ proc = "save")
  /\ authorized' \in {authorized, FALSE}
  /\ UNCHANGED <<connVars, token, tokens, nodes, identity, reach, paid, clockVars>>

-----------------------------------------------------------------------------
(* The sync loop and the outage clock                                      *)

\* An answer is applied; markAuthzOK sets the clock and saves it.
Sync ==
  /\ proc = "up" /\ reach
  /\ authorized' = paid
  /\ since' = 0 /\ saved' = 0 /\ outage' = 0 /\ skewed' = FALSE
  /\ UNCHANGED <<connVars, enrolVars, proc, reach, paid, grace, uptime, faults>>

\* The clock cannot be saved, or the answer cannot be applied.
SyncNotSaved ==
  /\ proc = "up" /\ reach /\ Fault
  /\ authorized' = paid
  /\ since' = 0 /\ outage' = 0 /\ skewed' = TRUE
  /\ UNCHANGED <<connVars, enrolVars, proc, reach, paid, grace, saved, uptime>>

SyncNotApplied ==
  /\ proc = "up" /\ reach /\ Fault
  /\ outage' = 0 /\ skewed' = TRUE
  /\ UNCHANGED <<connVars, enrolVars, proc, reach, paid, grace, since, saved, uptime, authorized>>

\* Mutant of GraceCheck: without the wait after a start.
GraceCheckAtOnce == authorized' = (authorized /\ ~(since > grace /\ FailClosed))

\* graceCheck
GraceCheck == authorized' = (authorized /\ ~(since > grace /\ FailClosed /\ uptime >= StartupGrace))

\* Mutant of SyncFails: a failed request sets the clock, too.
SyncFailsMarked ==
  /\ proc = "up"
  /\ IF reach THEN Fault ELSE UNCHANGED faults
  /\ GraceCheck /\ since' = 0
  /\ UNCHANGED <<connVars, enrolVars, proc, reach, paid, grace, saved, uptime, outage, skewed>>

\* A request fails: in an outage, or once although the backend is there.
SyncFails ==
  /\ proc = "up"
  /\ IF reach THEN Fault ELSE UNCHANGED faults
  /\ GraceCheck
  /\ UNCHANGED <<connVars, enrolVars, proc, reach, paid, clockVars>>

\* The heartbeat's answer carries the configured grace window.
Heartbeat ==
  /\ proc = "up" /\ reach /\ grace # Grace
  /\ grace' = Grace
  /\ UNCHANGED <<connVars, enrolVars, proc, reach, paid, since, saved, uptime, outage, skewed, faults, authorized>>

-----------------------------------------------------------------------------
(* The surroundings                                                        *)

Tick ==
  /\ since' = Older(since) /\ saved' = (IF saved = Never THEN Never ELSE Older(saved))
  /\ uptime' = IF uptime < StartupGrace THEN uptime + 1 ELSE uptime
  /\ outage' = Older(outage)
  /\ UNCHANGED <<connVars, enrolVars, proc, reach, paid, grace, skewed, faults, authorized>>

Backend ==
  /\ Fault
  /\ \/ reach' = ~reach /\ UNCHANGED paid
     \/ paid' = ~paid /\ UNCHANGED reach
  /\ UNCHANGED <<connVars, enrolVars, proc, clockVars, authorized>>

AgentNext ==
  \/ Start \/ Enroll \/ SaveIdentity \/ EnrollFails \/ CreateEnrollToken \/ Crash
  \/ Sync \/ SyncNotSaved \/ SyncNotApplied \/ SyncFails \/ Heartbeat \/ Tick \/ Backend

Next == AgentNext \/ (ConnNext /\ UNCHANGED agentVars)

Spec == Init /\ [][Next]_vars

\* The service manager restarts the agent and its loops go on.  Handlers run,
\* deadlines pass, and a keepalive provokes the reset of a silent flow.
\* Nothing is assumed of the client, the upstream or the operator.
FairSpec ==
  /\ Spec
  /\ WF_vars(Start) /\ WF_vars(Sync) /\ WF_vars(SyncFails) /\ WF_vars(Tick)
  /\ \A c \in Conn : /\ WF_vars(Handler(c) /\ UNCHANGED agentVars)
                     /\ WF_vars(Reset(c) /\ UNCHANGED agentVars)
                     /\ WF_vars(GoesIdle(c) /\ UNCHANGED agentVars)

-----------------------------------------------------------------------------
\* A token makes at most one node, an agent that has an identity is a node of
\* the backend, and a token is used up without one only if the answer or the
\* file was lost in between: such an agent needs a new token.
EnrolledOnce ==
  /\ nodes <= tokens
  /\ identity => nodes > 0
  /\ token = "used" /\ ~identity /\ proc # "save" => wasted

\* The agent takes access away on its own only when configured to, after it
\* has itself been up for the startup grace, and when the backend has not
\* answered for longer than the grace window, restarts included.  Exceptions:
\* an answer that could not be applied, or whose time could not be saved.
Flushed == authorized /\ ~authorized' /\ paid /\ proc' = "up"
FlushedOnlyAfterGrace ==
  [][Flushed => FailClosed /\ uptime >= StartupGrace /\ (outage > grace \/ skewed)]_vars

\* An outage that does not end closes the exit, if configured to, however the
\* agent was restarted in it.
OutageFailsClosed == FailClosed /\ <>[](identity /\ ~reach) => <>[]~authorized

\* When access lapsed at the backend and the backend can be reached, every
\* tunnel of the client ends and its slot is free, even if the client and the
\* upstream stay silent.
LapsedEndsTunnels ==
  <>[](identity /\ reach /\ ~paid) => <>[](\A c \in Conn : conn[c].at \notin Handling)
=============================================================================
