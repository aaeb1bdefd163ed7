------------------------------ MODULE Dispatch ------------------------------
(***************************************************************************)
(* A client's TCP connections at an exit: the nftables gate that sends     *)
(* each to a service or to the captive portal (deploy/render-nftables.sh), *)
(* the SOCKS dispatcher behind it (dispatch/main.go, socks.go, route.go)   *)
(* and the captive daemon (captive/main.go, socks.go, redirect.go).        *)
(*                                                                         *)
(* The gate decides once per connection; afterwards every packet of a flow *)
(* to a service is checked, and the flow reset when its source has left    *)
(* the set.  The dispatcher reads the client only while it negotiates and  *)
(* while it relays: in between it waits for the upstream proxy.  Its one   *)
(* deadline on the client runs from the accept until the relay begins.     *)
(***************************************************************************)
EXTENDS Naturals, FiniteSets

CONSTANTS Conn,
          MaxConns,    \* DISPATCH_MAX_CONNS
          CaptiveConns,\* CAPTIVE_MAX_CONNS
          Onion,       \* connections to an onion name
          TorUpstream, \* whether DISPATCH_TOR_UPSTREAM is set
          IdleTimeout, \* whether DISPATCH_IDLE_TIMEOUT_S is positive
          MaxLifetime  \* whether DISPATCH_MAX_LIFETIME_S is

ASSUME DispatchAssumption ==
  /\ IsFiniteSet(Conn)
  /\ MaxConns \in Nat \ {0} /\ CaptiveConns \in Nat \ {0} /\ Onion \subseteq Conn
  /\ TorUpstream \in BOOLEAN /\ IdleTimeout \in BOOLEAN /\ MaxLifetime \in BOOLEAN

VARIABLES authorized, \* whether the client's address is in @authorized
          sem,        \* slots taken in the dispatcher
          captiveSem, \* slots taken in the captive daemon
          conn        \* the connections

connVars == <<sem, captiveSem, conn>>

\* Where a connection is; from "negotiate" to "relay" a handler of the
\* dispatcher has it.
Handling == {"negotiate", "dial", "ask", "reply", "relay"}
Where == {"new", "shed", "captive", "done"} \cup Handling

\* client, upstream: the two sockets; up, down: the two copies of the relay;
\* late: the client's deadline has passed; idle: neither socket received data
\* for the idle timeout; answer: the upstream's reply; told: the client's.
Fresh == [at |-> "new", client |-> "open", upstream |-> "none", up |-> FALSE, down |-> FALSE,
          late |-> FALSE, idle |-> FALSE, answer |-> "none", told |-> "nothing"]

ConnTypeOK ==
  /\ authorized \in BOOLEAN /\ sem \in 0..MaxConns /\ captiveSem \in 0..CaptiveConns
  /\ conn \in [Conn -> [at : Where, client : {"open", "fin", "rst"}, upstream : {"none", "open", "fin"},
       up : BOOLEAN, down : BOOLEAN, late : BOOLEAN, idle : BOOLEAN,
       answer : {"none", "granted", "refused"},
       told : {"nothing", "pending", "granted", "refused", "unreachable", "unsupported", "portal"}]]

ConnInit == sem = 0 /\ captiveSem = 0 /\ conn = [c \in Conn |-> Fresh]

Set(c, new) == conn' = [conn EXCEPT ![c] = new]
At(c, where) == conn[c].at = where

-----------------------------------------------------------------------------
(* The gate and the accept loops                                           *)

\* The gate: a new connection reaches the service, or the captive daemon.
Admitted(c) == At(c, "new") /\ authorized
Redirected(c) == At(c, "new") /\ ~authorized

\* The captive daemon takes a connection, or sheds it at capacity.
AcceptCaptive(c) ==
  /\ Redirected(c)
  /\ IF captiveSem < CaptiveConns
     THEN Set(c, [Fresh EXCEPT !.at = "captive"]) /\ captiveSem' = captiveSem + 1
     ELSE Set(c, [Fresh EXCEPT !.at = "shed"]) /\ UNCHANGED captiveSem
  /\ UNCHANGED sem

\* And so does the dispatcher.
Accept(c) ==
  /\ Admitted(c)
  /\ IF sem < MaxConns
     THEN Set(c, [Fresh EXCEPT !.at = "negotiate"]) /\ sem' = sem + 1
     ELSE Set(c, [Fresh EXCEPT !.at = "shed"]) /\ UNCHANGED sem
  /\ UNCHANGED captiveSem

Closed(c, told) ==
  Set(c, [conn[c] EXCEPT !.at = "done", !.told = told, !.upstream = "none",
                         !.up = FALSE, !.down = FALSE, !.idle = FALSE])

\* Mutant of Release: a handler that returns early keeps its slot.
ReleaseLate(c, told) ==
  /\ Closed(c, told)
  /\ sem' = IF At(c, "relay") THEN sem - 1 ELSE sem
  /\ UNCHANGED captiveSem

\* handle returns: both sockets are closed and the slot is free.
Release(c, told) ==
  /\ Closed(c, told)
  /\ sem' = sem - 1
  /\ UNCHANGED captiveSem

-----------------------------------------------------------------------------
(* The network: what the client, the upstream and the clock may do         *)

Change(c, new) == Set(c, new) /\ UNCHANGED <<sem, captiveSem>>

\* svc_in, svc_out: the next packet either way, a keepalive if nothing else,
\* resets the flow of a source that left the set.
Reset(c) ==
  /\ conn[c].at \in Handling /\ ~authorized /\ conn[c].client # "rst"
  /\ Change(c, [conn[c] EXCEPT !.client = "rst"])

\* The client closes its side.
ClientCloses(c) ==
  /\ conn[c].at \in Handling /\ conn[c].client = "open"
  /\ Change(c, [conn[c] EXCEPT !.client = "fin"])

UpstreamCloses(c) ==
  /\ At(c, "relay") /\ conn[c].upstream = "open"
  /\ Change(c, [conn[c] EXCEPT !.upstream = "fin"])

\* The handshake deadline passes.
DeadlinePasses(c) ==
  /\ conn[c].at \in Handling \ {"relay"} /\ ~conn[c].late
  /\ Change(c, [conn[c] EXCEPT !.late = TRUE])

\* The client can still be written to.
Writable(c) == conn[c].client # "rst" /\ ~conn[c].late

-----------------------------------------------------------------------------
(* handle                                                                  *)

\* The greeting or the request cannot be read, or is not one: no reply, or a
\* refusal when it is a request the dispatcher does not support.
NegotiateFails(c) ==
  /\ At(c, "negotiate")
  /\ \/ Release(c, "nothing")
     \/ Writable(c) /\ conn[c].client = "open" /\ Release(c, "unsupported")

\* negotiate, readConnect, pickUpstream
Negotiate(c) ==
  /\ At(c, "negotiate") /\ conn[c].client = "open" /\ Writable(c)
  /\ IF c \in Onion /\ ~TorUpstream
     THEN Release(c, "refused")
     ELSE Change(c, [conn[c] EXCEPT !.at = "dial", !.told = "pending"])

\* dialThrough: the dial, then the upstream's greeting and reply.
DialConnects(c) ==
  /\ At(c, "dial")
  /\ Change(c, [conn[c] EXCEPT !.at = "ask", !.upstream = "open"])

\* Mutant of DialFails: the handler returns without a reply.
DialFailsSilently(c) == conn[c].at \in {"dial", "ask"} /\ Release(c, "pending")

\* Either fails at once or at its timeout.
DialFails(c) ==
  /\ conn[c].at \in {"dial", "ask"}
  /\ Release(c, IF Writable(c) THEN "unreachable" ELSE "pending")

UpstreamAnswers(c) ==
  /\ At(c, "ask")
  /\ \E a \in {"granted", "refused"} : Change(c, [conn[c] EXCEPT !.at = "reply", !.answer = a])

\* The reply goes to the client as it is; the relay begins if it was granted.
Reply(c) ==
  /\ At(c, "reply")
  /\ IF ~Writable(c) THEN Release(c, "pending")
     ELSE IF conn[c].answer = "refused" THEN Release(c, "refused")
     ELSE Change(c, [conn[c] EXCEPT !.at = "relay", !.told = "granted", !.late = FALSE,
                                           !.up = TRUE, !.down = TRUE])

-----------------------------------------------------------------------------
(* relay                                                                   *)

\* Data from the client is copied to the upstream.
ClientSends(c) ==
  /\ At(c, "relay") /\ conn[c].client = "open" /\ conn[c].up /\ authorized /\ conn[c].idle
  /\ Change(c, [conn[c] EXCEPT !.idle = FALSE])

\* Data from the upstream: the copy ends when the client is gone.
UpstreamSends(c) ==
  /\ At(c, "relay") /\ conn[c].upstream = "open" /\ conn[c].down
  /\ conn[c].idle \/ conn[c].client = "rst"
  /\ Change(c, [conn[c] EXCEPT !.idle = FALSE, !.down = conn[c].client # "rst"])

\* Neither side received data for the idle timeout.
GoesIdle(c) ==
  /\ At(c, "relay") /\ ~conn[c].idle
  /\ Change(c, [conn[c] EXCEPT !.idle = TRUE])

\* io.Copy(upstream, client) ends; the upstream's write side is closed.
CopyUpEnds(c) ==
  /\ At(c, "relay") /\ conn[c].up /\ conn[c].client # "open"
  /\ Change(c, [conn[c] EXCEPT !.up = FALSE])

\* io.Copy(client, upstream) ends; the client's write side is closed.
CopyDownEnds(c) ==
  /\ At(c, "relay") /\ conn[c].down /\ conn[c].upstream = "fin"
  /\ Change(c, [conn[c] EXCEPT !.down = FALSE])

\* Both copies are done.
RelayDone(c) ==
  /\ At(c, "relay") /\ ~conn[c].up /\ ~conn[c].down
  /\ Release(c, conn[c].told)

\* Mutant of IdleWatchdog: a tunnel with one direction closed is left alone.
IdleWatchdogBoth(c) ==
  /\ IdleTimeout /\ At(c, "relay") /\ conn[c].idle /\ conn[c].up /\ conn[c].down
  /\ Release(c, conn[c].told)

\* idleWatchdog, and the timer on the tunnel's lifetime
IdleWatchdog(c) ==
  /\ IdleTimeout /\ At(c, "relay") /\ conn[c].idle
  /\ Release(c, conn[c].told)

LifetimeEnds(c) == MaxLifetime /\ At(c, "relay") /\ Release(c, conn[c].told)

-----------------------------------------------------------------------------
(* The captive daemon                                                      *)

CaptiveEnds(c, told) ==
  /\ At(c, "captive")
  /\ Set(c, [conn[c] EXCEPT !.at = "done", !.told = told])
  /\ captiveSem' = captiveSem - 1
  /\ UNCHANGED sem

\* socksAccept fails: not SOCKS, ioTimeout, or a command it does not support.
SocksRefuses(c) == \E told \in {"nothing", "unsupported"} : CaptiveEnds(c, told)

\* A plain HTTP request is answered with a redirect to the portal; anything
\* else just ends.
ServeRedirect(c) == \E told \in {"nothing", "portal"} : CaptiveEnds(c, told)

CaptiveHandle(c) == SocksRefuses(c) \/ ServeRedirect(c)

-----------------------------------------------------------------------------
Peer(c) == ClientCloses(c) \/ UpstreamCloses(c) \/ ClientSends(c) \/ UpstreamSends(c)
Clock(c) == DeadlinePasses(c) \/ GoesIdle(c) \/ LifetimeEnds(c)
Handler(c) ==
  \/ NegotiateFails(c) \/ Negotiate(c) \/ DialConnects(c) \/ DialFails(c) \/ UpstreamAnswers(c)
  \/ Reply(c) \/ CopyUpEnds(c) \/ CopyDownEnds(c) \/ RelayDone(c) \/ IdleWatchdog(c)

ConnNext ==
  \E c \in Conn : \/ AcceptCaptive(c) \/ Accept(c) \/ Reset(c) \/ CaptiveHandle(c)
                  \/ Peer(c) \/ Clock(c) \/ Handler(c)

-----------------------------------------------------------------------------
\* The slots in use are those of the connections being handled, on every way
\* out of a handler: a slot is neither leaked nor given back twice.
SlotsMatch ==
  /\ sem = Cardinality({c \in Conn : conn[c].at \in Handling})
  /\ captiveSem = Cardinality({c \in Conn : At(c, "captive")})

\* A client whose request was read is told the truth about it, except when its
\* flow was reset or the handshake deadline passed: the deadline also covers
\* the wait for the upstream, so an answer later than it is lost.
OutcomeTold ==
  \A c \in Conn :
    /\ At(c, "done") /\ conn[c].told = "pending" => ~Writable(c)
    /\ conn[c].told = "granted" => conn[c].answer = "granted"
    /\ At(c, "done") /\ conn[c].answer = "refused" => conn[c].told \in {"refused", "pending"}
=============================================================================
