------------------------------ MODULE LongPoll ------------------------------
(***************************************************************************)
(* How a committed revision reaches the agents' parked long polls          *)
(* (backend/api.go authz, backend/notify.go, and ListenAuthz in            *)
(* backend/store/authz.go).                                                *)
(*                                                                         *)
(* Three parties interleave: transactions that commit a revision and its   *)
(* NOTIFY, the goroutine that listens and broadcasts, and one handler per  *)
(* poll.  revWaiter replaces its channel on every broadcast; here channels *)
(* are numbered and the closed ones are those below ch.                    *)
(***************************************************************************)
EXTENDS Integers

CONSTANTS Poll,        \* the polls that may be open at once
          MaxCommits,  \* bound: revisions committed
          MaxDrops     \* bound: how often the listener's connection drops

ASSUME PollAssumption == MaxCommits \in Nat /\ MaxDrops \in Nat

VARIABLES currentRev,  \* max(rev) of authz_revisions
          listener,    \* where ListenAuthz is
          notes,       \* notifications delivered to its connection, not yet read
          drops,       \* dropped connections so far
          ch,          \* revWaiter.ch
          poll         \* the handlers

vars == <<currentRev, listener, notes, drops, ch, poll>>

NoPoll == [pc |-> "none", rev |-> 0, full |-> FALSE, wake |-> 0, cur |-> 0, late |-> FALSE]

Handler == [pc : {"none", "top", "taken", "read", "parked"}, rev : 0 .. MaxCommits,
            full : BOOLEAN, wake : Nat, cur : 0 .. MaxCommits, late : BOOLEAN]

TypeOK ==
  /\ currentRev \in 0 .. MaxCommits
  /\ listener \in {"down", "subscribed", "waiting"}
  /\ notes \in 0 .. MaxCommits
  /\ drops \in 0 .. MaxDrops
  /\ ch \in Nat
  /\ poll \in [Poll -> Handler]

Init ==
  /\ currentRev = 0
  /\ listener = "down" /\ notes = 0 /\ drops = 0
  /\ ch = 0
  /\ poll = [p \in Poll |-> NoPoll]

-----------------------------------------------------------------------------
\* RecomputeAuthz commits: its rows become visible and its NOTIFY is delivered
\* in the same instant, to whoever listens.
CommitRev ==
  /\ currentRev < MaxCommits
  /\ currentRev' = currentRev + 1
  /\ notes' = IF listener = "down" THEN notes ELSE notes + 1
  /\ UNCHANGED <<listener, drops, ch, poll>>

\* listenOnce: LISTEN on a fresh connection.
Listen ==
  /\ listener = "down"
  /\ listener' = "subscribed"
  /\ UNCHANGED <<currentRev, notes, drops, ch, poll>>

\* broadcast closes the channel and makes the next one.
Broadcast == ch' = ch + 1

\* onChange once per connection: a revision may have passed unheard.
Connected ==
  /\ listener = "subscribed"
  /\ listener' = "waiting"
  /\ Broadcast
  /\ UNCHANGED <<currentRev, notes, drops, poll>>

\* WaitForNotification returns one.
Notified ==
  /\ listener = "waiting" /\ notes > 0
  /\ notes' = notes - 1
  /\ Broadcast
  /\ UNCHANGED <<currentRev, listener, drops, poll>>

\* The connection fails, with whatever it still held.
ListenerDrops ==
  /\ listener # "down"
  /\ drops < MaxDrops
  /\ drops' = drops + 1
  /\ listener' = "down"
  /\ notes' = 0
  /\ UNCHANGED <<currentRev, ch, poll>>

-----------------------------------------------------------------------------
(* The authz handler                                                       *)

\* A client at some revision the log has had, or asking for the full set.
Arrive(p) ==
  /\ poll[p].pc = "none"
  /\ \E c \in 0 .. currentRev, full \in BOOLEAN :
       poll' = [poll EXCEPT ![p].pc = "top", ![p].rev = c, ![p].full = full]
  /\ UNCHANGED <<currentRev, listener, notes, drops, ch>>

\* wake := h.revs.wait()
TakeChannel(p) ==
  /\ poll[p].pc = "top"
  /\ poll' = [poll EXCEPT ![p].pc = "taken", ![p].wake = ch]
  /\ UNCHANGED <<currentRev, listener, notes, drops, ch>>

\* cur, err := h.store.CurrentRev(ctx); the deadline may pass until it is looked at.
ReadRev(p) ==
  /\ poll[p].pc = "taken"
  /\ \E late \in BOOLEAN :
       poll' = [poll EXCEPT ![p].pc = "read", ![p].cur = currentRev, ![p].late = late]
  /\ UNCHANGED <<currentRev, listener, notes, drops, ch>>

\* writeAuthz, or 204 once the deadline has passed.
Answer(p) ==
  /\ poll[p].pc = "read"
  /\ poll[p].full \/ poll[p].rev # poll[p].cur \/ poll[p].late
  /\ poll' = [poll EXCEPT ![p] = NoPoll]
  /\ UNCHANGED <<currentRev, listener, notes, drops, ch>>

\* Mutant of Park: the channel is taken when the handler goes to sleep.
ParkRetakes(p) ==
  /\ poll[p].pc = "read"
  /\ ~poll[p].full /\ poll[p].rev = poll[p].cur /\ ~poll[p].late
  /\ poll' = [poll EXCEPT ![p].pc = "parked", ![p].wake = ch]
  /\ UNCHANGED <<currentRev, listener, notes, drops, ch>>

\* select
Park(p) ==
  /\ poll[p].pc = "read"
  /\ ~poll[p].full /\ poll[p].rev = poll[p].cur /\ ~poll[p].late
  /\ poll' = [poll EXCEPT ![p].pc = "parked"]
  /\ UNCHANGED <<currentRev, listener, notes, drops, ch>>

\* Mutant of Wake: the first broadcast after the channel was taken is missed.
WakeSecond(p) ==
  /\ poll[p].pc = "parked"
  /\ poll[p].wake + 1 < ch
  /\ poll' = [poll EXCEPT ![p].pc = "top"]
  /\ UNCHANGED <<currentRev, listener, notes, drops, ch>>

\* case <-wake
Wake(p) ==
  /\ poll[p].pc = "parked"
  /\ poll[p].wake < ch
  /\ poll' = [poll EXCEPT ![p].pc = "top"]
  /\ UNCHANGED <<currentRev, listener, notes, drops, ch>>

\* time.After(poll): the fallback interval, or what remains to the deadline.
Timer(p) ==
  /\ poll[p].pc = "parked"
  /\ poll' = [poll EXCEPT ![p].pc = "top"]
  /\ UNCHANGED <<currentRev, listener, notes, drops, ch>>

\* The client goes away, or CurrentRev fails.
Leave(p) ==
  /\ poll[p].pc \in {"taken", "parked"}
  /\ poll' = [poll EXCEPT ![p] = NoPoll]
  /\ UNCHANGED <<currentRev, listener, notes, drops, ch>>

-----------------------------------------------------------------------------
ListenerStep == Listen \/ Connected \/ Notified

PollStep(p) == TakeChannel(p) \/ ReadRev(p) \/ Answer(p) \/ Park(p) \/ Wake(p)

Next ==
  \/ CommitRev \/ ListenerStep \/ ListenerDrops
  \/ \E p \in Poll : Arrive(p) \/ PollStep(p) \/ Timer(p) \/ Leave(p)

Spec == Init /\ [][Next]_vars

\* ListenAuthz reconnects for as long as the backend runs, and a handler that
\* is not parked keeps running.  Nothing is assumed of the timers.
FairSpec ==
  /\ Spec
  /\ WF_vars(ListenerStep)
  /\ \A p \in Poll : WF_vars(PollStep(p))

-----------------------------------------------------------------------------
\* The wake-up of p is on its way: its channel is closed already, or the
\* listener has a broadcast ahead of it.
WakeDue(p) == poll[p].wake < ch \/ notes > 0 \/ listener # "waiting"

\* No poll sleeps through a revision: a handler about to park, or parked, at a
\* revision that is no longer the newest has its wake-up coming, whenever the
\* commit fell between wait(), CurrentRev and the select, and whenever the
\* listener was reconnecting.
NoMissedWake ==
  \A p \in Poll :
    /\ poll[p].pc \in {"read", "parked"}
    /\ poll[p].cur # currentRev
    => WakeDue(p)

\* A parked poll that is behind is answered by notifications alone, without
\* the fallback interval: authz takes the channel before it reads the
\* revision, and ListenAuthz broadcasts after every reconnect.
AnsweredPromptly ==
  \A p \in Poll :
    (poll[p].pc = "parked" /\ poll[p].rev # currentRev) ~> (poll[p].pc = "none")
=============================================================================
