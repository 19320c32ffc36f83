----------------------------- MODULE Heartbeat ------------------------------
(***************************************************************************)
(* The pings of one web socket stream (MarketData::operator()(Trace<Timer>)*)
(* and send_ping, market_data.cpp lines 114-120 and 456-466) against the   *)
(* idle timeout of the external web socket client (refresh and touch).     *)
(*                                                                         *)
(* Time is counted in ticks.  The timer event comes at least each          *)
(* TIMER_PERIOD; an exchange that is alive answers a ping within LATENCY.  *)
(***************************************************************************)
EXTENDS Integers

CONSTANTS
    PING_FREQUENCY,   \* settings.ws.ping_freq
    IDLE_TIMEOUT,     \* settings.net.disconnect_on_idle_timeout
    TIMER_PERIOD,     \* the longest time between two timer events
    LATENCY,          \* the longest time an exchange that is alive takes for a pong
    MaxTime           \* bound of the clock

ASSUME TimeAssumption ==
    /\ PING_FREQUENCY \in Nat \ {0}    \* asserted by send_ping
    /\ IDLE_TIMEOUT \in Nat /\ TIMER_PERIOD \in Nat \ {0} /\ LATENCY \in Nat /\ MaxTime \in Nat

(* How the two settings have to be related for the pings to be in time.    *)
ASSUME SettingsAssumption == PING_FREQUENCY + TIMER_PERIOD + LATENCY <= IDLE_TIMEOUT

Never == -1

VARIABLES
    now,             \* the clock
    timer,           \* time of the last timer event
    status,          \* connection_status_ of the stream
    peer,            \* external: the exchange serves the connection, or is lost (half-open)
    touched,         \* external: the client's time of the last activity
    next_ping,       \* next_ping_
    unanswered,      \* when the oldest ping without a pong was sent, or Never
    last_ping        \* history: when the last ping was sent, on any connection, or Never

vars == <<now, timer, status, peer, touched, next_ping, unanswered, last_ping>>

IsReady == status = "READY"

Served == peer = "serving"

(* External: refresh finds no activity for too long.                       *)
IsIdle == now - touched > IDLE_TIMEOUT

-----------------------------------------------------------------------------

(* Mutant of Init: next_ping_ starts from a sentinel.                      *)
InitNever ==
    /\ now = 0 /\ timer = 0
    /\ status = "UNDEFINED" /\ peer = "none"
    /\ touched = 0
    /\ next_ping = Never
    /\ unanswered = Never /\ last_ping = Never

Init ==
    /\ now = 0
    /\ timer = 0
    /\ status = "UNDEFINED"
    /\ peer = "none"
    /\ touched = 0
    /\ next_ping = 0
    /\ unanswered = Never
    /\ last_ping = Never

(* Ready: the web socket handshake was completed.                          *)
Ready ==
    /\ ~IsReady
    /\ status' = "READY"
    /\ peer' = "serving"
    /\ touched' = now
    /\ UNCHANGED <<now, timer, next_ping, unanswered, last_ping>>

(* What is left of a connection that is gone.                              *)
Cut ==
    /\ status' = "DISCONNECTED"
    /\ peer' = "none"
    /\ unanswered' = Never

(* Disconnected by the exchange, or by the network.                        *)
Disconnected ==
    /\ IsReady
    /\ Cut
    /\ UNCHANGED <<now, timer, touched, next_ping, last_ping>>

(* Mutant of SendPing: the time of the next ping is not set.               *)
SendPingAlways ==
    /\ last_ping' = now
    /\ unanswered' = IF unanswered = Never THEN now ELSE unanswered
    /\ UNCHANGED next_ping

(* send_ping(now).                                                         *)
SendPing ==
    /\ next_ping' = now + PING_FREQUENCY
    /\ last_ping' = now
    /\ unanswered' = IF unanswered = Never THEN now ELSE unanswered

(* Mutant of Timer: the client is not refreshed.                           *)
TimerWithoutRefresh ==
    /\ timer' = now
    /\ IF IsReady /\ next_ping < now THEN SendPing
                                     ELSE UNCHANGED <<next_ping, unanswered, last_ping>>
    /\ UNCHANGED <<now, status, peer, touched>>

(* Timer: refresh disconnects an idle connection, and the handler of that  *)
(* comes before the test of ready().                                       *)
Timer ==
    /\ timer' = now
    /\ IF IsReady /\ IsIdle
       THEN Cut /\ UNCHANGED <<next_ping, last_ping>>
       ELSE /\ IF IsReady /\ next_ping < now THEN SendPing
                                             ELSE UNCHANGED <<next_ping, unanswered, last_ping>>
            /\ UNCHANGED <<status, peer>>
    /\ UNCHANGED <<now, touched>>

(* Mutant of Pong: the client is not touched.                              *)
PongUntouched ==
    /\ Served
    /\ unanswered # Never
    /\ unanswered' = Never
    /\ UNCHANGED <<now, timer, status, peer, touched, next_ping, last_ping>>

(* Pong: touch.  Unanswered pings are answered together, which leaves the  *)
(* client no younger than separate answers would.                          *)
Pong ==
    /\ Served
    /\ unanswered # Never
    /\ unanswered' = Never
    /\ touched' = now
    /\ UNCHANGED <<now, timer, status, peer, next_ping, last_ping>>

(* A response or an update: every one of their handlers calls touch.       *)
Update ==
    /\ Served
    /\ touched' = now
    /\ UNCHANGED <<now, timer, status, peer, next_ping, unanswered, last_ping>>

(* External: the connection becomes half-open, nothing tells the gateway.  *)
PeerLost ==
    /\ Served
    /\ peer' = "lost"
    /\ UNCHANGED <<now, timer, status, touched, next_ping, unanswered, last_ping>>

(* External: the clock; a timer event, and a pong, are never overdue.      *)
Tick ==
    /\ now < MaxTime
    /\ now < timer + TIMER_PERIOD
    /\ Served /\ unanswered # Never => now < unanswered + LATENCY
    /\ now' = now + 1
    /\ UNCHANGED <<timer, status, peer, touched, next_ping, unanswered, last_ping>>

Next ==
    \/ Ready
    \/ Disconnected
    \/ Timer
    \/ Pong
    \/ Update
    \/ PeerLost
    \/ Tick

Spec == Init /\ [][Next]_vars

-----------------------------------------------------------------------------

(* Type invariant of the stream and its client. *)
TypeOK ==
    /\ now \in 0 .. MaxTime
    /\ timer \in 0 .. now
    /\ status \in {"UNDEFINED", "READY", "DISCONNECTED"}
    /\ peer \in {"none", "serving", "lost"}
    /\ touched \in 0 .. now
    /\ next_ping \in Nat
    /\ unanswered \in 0 .. now \cup {Never}
    /\ last_ping \in 0 .. now \cup {Never}

(***************************************************************************)
(* A connection that the exchange serves is never taken for idle, not even *)
(* without any market data: the pongs arrive in time, also right after a   *)
(* reconnect, which keeps the next_ping_ of the connection before          *)
(* (market_data.cpp lines 114-120, 213-217).  The settings have to leave   *)
(* time for the timer and the answer (SettingsAssumption).                 *)
(***************************************************************************)
QuietConnectionKept == Served => ~IsIdle

(***************************************************************************)
(* A half-open connection is not kept: within a timer period of the idle   *)
(* timeout the stream is no longer READY, although pings are still sent    *)
(* into it.                                                                *)
(***************************************************************************)
HalfOpenDetected == IsReady => now - touched <= IDLE_TIMEOUT + TIMER_PERIOD

(***************************************************************************)
(* Pings are more than the ping frequency apart, over reconnects too: a    *)
(* stream that flaps does not flood the exchange (next_ping_ < timer.now). *)
(***************************************************************************)
PingsSpaced ==
    [][last_ping' # last_ping /\ last_ping # Never => last_ping' - last_ping > PING_FREQUENCY]_vars
=============================================================================
