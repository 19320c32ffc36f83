-------------------------- MODULE HeartbeatProofs ---------------------------
(* Proofs about Heartbeat, for all settings that leave time for a pong.    *)
EXTENDS Heartbeat, TLAPS

USE TimeAssumption, SettingsAssumption

(* Only a connection that is READY is served, and owes pongs.              *)
ServedWhenReady ==
    /\ Served => IsReady
    /\ ~IsReady => unanswered = Never

(* Nothing is overdue: the timer event, the pong.                          *)
NothingOverdue ==
    /\ now <= timer + TIMER_PERIOD
    /\ Served /\ unanswered # Never => now <= unanswered + LATENCY

(* next_ping_ follows the last ping, whatever connection that was on.      *)
NextPing == next_ping = IF last_ping = Never THEN 0 ELSE last_ping + PING_FREQUENCY

(* The activity the client knows of is not older than the last ping was    *)
(* when it was due: without a ping under way there was activity since, and *)
(* a ping under way was sent in time.                                      *)
ActivityFollowsPings ==
    Served => /\ unanswered = Never => last_ping <= touched
              /\ unanswered # Never => unanswered <= touched + PING_FREQUENCY + TIMER_PERIOD
              /\ timer <= next_ping \/ timer <= touched

(* The last refresh left the stream READY, or it became READY after it.    *)
RefreshedInTime == IsReady => timer <= touched + IDLE_TIMEOUT

(* The inductive invariant. *)
IInv ==
    /\ TypeOK
    /\ ServedWhenReady
    /\ NothingOverdue
    /\ NextPing
    /\ ActivityFollowsPings
    /\ RefreshedInTime

(* Between a touch and the pong that follows it are at most a period of    *)
(* pings, one of the timer and the time of the answer (lines 114-120).     *)
LEMMA InTime == IInv => QuietConnectionKept /\ HalfOpenDetected
<1> SUFFICES ASSUME IInv PROVE QuietConnectionKept /\ HalfOpenDetected
  OBVIOUS
<1> USE DEF IInv, TypeOK, Never, Served
<1>1. QuietConnectionKept
  <2> SUFFICES ASSUME Served PROVE now <= touched + IDLE_TIMEOUT
    BY DEF QuietConnectionKept, IsIdle
  <2>1. CASE unanswered = Never
    <3>1. next_ping <= touched + PING_FREQUENCY
      BY <2>1 DEF NextPing, ActivityFollowsPings
    <3> QED
      BY <2>1, <3>1 DEF NothingOverdue, ActivityFollowsPings
  <2>2. CASE unanswered # Never
    BY <2>2 DEF NothingOverdue, ActivityFollowsPings
  <2> QED
    BY <2>1, <2>2
<1>2. HalfOpenDetected
  BY DEF HalfOpenDetected, RefreshedInTime, NothingOverdue
<1> QED
  BY <1>1, <1>2

(* The stream before its first connection.                                 *)
LEMMA InitIInv == Init => IInv
  BY DEF Init, IInv, TypeOK, Never, IsReady, Served, ServedWhenReady, NothingOverdue, NextPing,
         ActivityFollowsPings, RefreshedInTime

(* Every handler, the clock and the exchange keep the invariant.           *)
LEMMA NextIInv == IInv /\ [Next]_vars => IInv'
<1> SUFFICES ASSUME IInv, [Next]_vars
             PROVE  IInv'
  OBVIOUS
<1> USE DEF IInv, TypeOK, Never, IsReady, Served, ServedWhenReady, NothingOverdue, NextPing,
            ActivityFollowsPings, RefreshedInTime
<1>1. CASE UNCHANGED vars
  BY <1>1 DEF vars
<1>2. CASE Ready
  BY <1>2 DEF Ready
<1>3. CASE Disconnected
  BY <1>3 DEF Disconnected, Cut
<1>4. CASE Timer
  <2>1. CASE IsReady /\ IsIdle
    BY <1>4, <2>1 DEF Timer, Cut
  <2>2. CASE ~(IsReady /\ IsIdle) /\ IsReady /\ next_ping < now
    <3>1. /\ next_ping' = now + PING_FREQUENCY /\ last_ping' = now /\ timer' = now
          /\ unanswered' = IF unanswered = Never THEN now ELSE unanswered
          /\ UNCHANGED <<now, touched, status, peer>>
      BY <1>4, <2>2 DEF Timer, SendPing
    <3>2. now <= touched + IDLE_TIMEOUT
      BY <2>2 DEF IsIdle
    <3>3. Served /\ unanswered = Never => now <= touched + PING_FREQUENCY + TIMER_PERIOD
      OBVIOUS
    <3>4. TypeOK'
      BY <3>1
    <3>5. ServedWhenReady' /\ NothingOverdue'
      BY <2>2, <3>1
    <3>6. NextPing' /\ RefreshedInTime'
      BY <3>1, <3>2
    <3>7. ActivityFollowsPings'
      BY <3>1, <3>3
    <3> QED
      BY <3>4, <3>5, <3>6, <3>7
  <2>3. CASE ~(IsReady /\ IsIdle) /\ ~(IsReady /\ next_ping < now)
    BY <1>4, <2>3 DEF Timer, IsIdle
  <2> QED
    BY <2>1, <2>2, <2>3
<1>5. CASE Pong
  BY <1>5 DEF Pong
<1>6. CASE Update
  BY <1>6 DEF Update
<1>7. CASE PeerLost
  BY <1>7 DEF PeerLost
<1>8. CASE Tick
  BY <1>8 DEF Tick
<1> QED
  BY <1>1, <1>2, <1>3, <1>4, <1>5, <1>6, <1>7, <1>8 DEF Next

(* The invariant of the stream and the client's idle timer.                *)
THEOREM HeartbeatInvariant == Spec => []IInv
  BY InitIInv, NextIInv, PTL DEF Spec

(* The stream's fields and the client's keep their types over any number   *)
(* of reconnects.                                                          *)
THEOREM HeartbeatTypeCorrect == Spec => []TypeOK
  BY HeartbeatInvariant, PTL DEF IInv

(* A connection that is served is not taken for idle, over any number of   *)
(* reconnects (market_data.cpp lines 114-120, 213-217, 456-466).           *)
THEOREM HeartbeatQuietConnectionKept == Spec => []QuietConnectionKept
  BY HeartbeatInvariant, InTime, PTL

(* A half-open connection is given up (lines 114-117).                     *)
THEOREM HeartbeatHalfOpenDetected == Spec => []HalfOpenDetected
  BY HeartbeatInvariant, InTime, PTL

(* Pings are spaced by the frequency, reconnect or not (lines 117, 458).   *)
THEOREM HeartbeatPingsSpaced == Spec => PingsSpaced
<1>1. IInv /\ [Next]_vars =>
        [last_ping' # last_ping /\ last_ping # Never => last_ping' - last_ping > PING_FREQUENCY]_vars
  BY DEF IInv, TypeOK, NextPing, Never, Next, vars, Ready, Disconnected, Timer, SendPing, Cut,
         Pong, Update, PeerLost, Tick
<1> QED
  BY <1>1, HeartbeatInvariant, PTL DEF Spec, PingsSpaced
=============================================================================
