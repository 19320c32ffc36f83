--------------------------- MODULE ThrottleProofs ---------------------------
(* Proofs about Throttle, for all clocks, back-offs and header values.     *)
EXTENDS Throttle, TLAPS

(* The reset time in use is one of those that were announced.              *)
ResetAnnounced == limit_reset_timestamp <= latest_reset

(* The inductive invariant: SuspensionBounded needs ResetAnnounced when a  *)
(* status header applies a reset time that was announced earlier.          *)
IInv ==
    /\ TypeOK
    /\ ResetAnnounced
    /\ ExhaustedSuspends
    /\ ForbiddenSuspends
    /\ SuspensionBounded

USE SwitchAssumption, ClockAssumption, BackoffAssumption, HeaderAssumption

(* No event has been seen in the initial state (throttle.hpp, 41-46).      *)
LEMMA InitIInv == Init => IInv
  BY DEF Init, IInv, TypeOK, ResetAnnounced, ExhaustedSuspends, Exhausted,
         ForbiddenSuspends, SuspensionBounded, Never

(* What update_suspend_until (lines 78-95) returns: never less than what it*)
(* was, and at least the reset time, unless the quota is open; and no more *)
(* than a back-off from now or the reset time.                             *)
LEMMA SuspendUntilBounds ==
  ASSUME suspend_until \in Nat, now \in Nat,
         NEW status \in Int, NEW reset \in Nat
  PROVE  LET result == SuspendUntil(status, reset)
         IN  /\ result \in Nat
             /\ ~QuotaOpen(status, reset) => result >= suspend_until
             /\ RATE_LIMIT /\ ~QuotaOpen(status, reset) => result + OFFSET >= reset
             /\ \/ result <= suspend_until
                \/ result <= now + BLOCKED_BACKOFF
                \/ result + OFFSET <= reset
  BY DEF SuspendUntil, QuotaOpen, Later, now_utc

(* Every callback of the interceptor, and time, keep the invariant.        *)
LEMMA NextIInv == IInv /\ [Next]_vars => IInv'
<1> SUFFICES ASSUME IInv, [Next]_vars
             PROVE  IInv'
    OBVIOUS
<1> USE DEF IInv
<1>1. CASE UNCHANGED vars
  BY <1>1 DEF vars, params, history, TypeOK, ResetAnnounced, ExhaustedSuspends,
              Exhausted, ForbiddenSuspends, SuspensionBounded
<1>2. ASSUME NEW value \in LimitStatus, LimitStatusHeader(value)
      PROVE  IInv'
  <2>1. /\ suspend_until \in Nat /\ now \in Nat /\ value \in Int
        /\ limit_reset_timestamp \in Nat
    BY DEF TypeOK
  <2>2. LET result == SuspendUntil(value, limit_reset_timestamp)
        IN  /\ result \in Nat
            /\ ~QuotaOpen(value, limit_reset_timestamp) => result >= suspend_until
            /\ RATE_LIMIT /\ ~QuotaOpen(value, limit_reset_timestamp)
                 => result + OFFSET >= limit_reset_timestamp
            /\ \/ result <= suspend_until
               \/ result <= now + BLOCKED_BACKOFF
               \/ result + OFFSET <= limit_reset_timestamp
    BY <2>1, SuspendUntilBounds
  <2>3. TypeOK' /\ ResetAnnounced'
    BY <1>2, <2>2 DEF LimitStatusHeader, ForgetRejections, TypeOK, ResetAnnounced
  <2>4. ExhaustedSuspends'
    BY <1>2, <2>2 DEF LimitStatusHeader, ExhaustedSuspends, Exhausted, QuotaOpen, TypeOK
  <2>5. ForbiddenSuspends'
    BY <1>2, <2>2 DEF LimitStatusHeader, ForgetRejections, ForbiddenSuspends, QuotaOpen, TypeOK, Never
  <2>6. SuspensionBounded'
    BY <1>2, <2>2 DEF LimitStatusHeader, SuspensionBounded, ResetAnnounced, TypeOK
  <2> QED BY <2>3, <2>4, <2>5, <2>6
<1>3. ASSUME NEW value \in ResetTimestamp, LimitResetHeader(value)
      PROVE  IInv'
  <2>1. /\ suspend_until \in Nat /\ now \in Nat /\ value \in Nat
        /\ limit_status \in Int
    BY DEF TypeOK
  <2>2. LET result == SuspendUntil(limit_status, value)
        IN  /\ result \in Nat
            /\ ~QuotaOpen(limit_status, value) => result >= suspend_until
            /\ RATE_LIMIT /\ ~QuotaOpen(limit_status, value) => result + OFFSET >= value
            /\ \/ result <= suspend_until
               \/ result <= now + BLOCKED_BACKOFF
               \/ result + OFFSET <= value
    BY <2>1, SuspendUntilBounds
  <2>3. TypeOK' /\ ResetAnnounced'
    BY <1>3, <2>1, <2>2
       DEF LimitResetHeader, ForgetRejections, TypeOK, ResetAnnounced, Later
  <2>4. ExhaustedSuspends'
    BY <1>3, <2>1, <2>2 DEF LimitResetHeader, ExhaustedSuspends, Exhausted, QuotaOpen, TypeOK
  <2>5. ForbiddenSuspends'
    BY <1>3, <2>2 DEF LimitResetHeader, ForgetRejections, ForbiddenSuspends, QuotaOpen, TypeOK, Never
  <2>6. SuspensionBounded'
    BY <1>3, <2>1, <2>2 DEF LimitResetHeader, SuspensionBounded, TypeOK, Later
  <2> QED BY <2>3, <2>4, <2>5, <2>6
<1>4. CASE Forbidden
  BY <1>4 DEF Forbidden, params, Later, TypeOK, ResetAnnounced, ExhaustedSuspends, Exhausted,
              ForbiddenSuspends, SuspensionBounded, Never
<1>5. CASE TooManyRequests
  BY <1>5 DEF TooManyRequests, params, TypeOK, ResetAnnounced, ExhaustedSuspends, Exhausted,
              ForbiddenSuspends, SuspensionBounded, Never
<1>6. CASE Tick
  BY <1>6 DEF Tick, params, history, TypeOK, ResetAnnounced, ExhaustedSuspends, Exhausted,
              ForbiddenSuspends, SuspensionBounded, Never
<1> QED BY <1>1, <1>2, <1>3, <1>4, <1>5, <1>6 DEF Next

(* The inductive invariant holds in every reachable state.                 *)
THEOREM ThrottleIInv == Spec => []IInv
  BY InitIInv, NextIInv, PTL DEF Spec

(* The fields keep their types, whatever headers and statuses arrive       *)
(* (lines 56-136).                                                         *)
THEOREM ThrottleTypeCorrect == Spec => []TypeOK
  BY ThrottleIInv, PTL DEF IInv

(* The suspension outlasts an announced exhaustion (lines 78-95), whatever *)
(* the order of headers, 403s and 429s.                                    *)
THEOREM ThrottleExhaustedSuspends == Spec => []ExhaustedSuspends
  BY ThrottleIInv, PTL DEF IInv

(* A 403 blocks for BLOCKED_BACKOFF (lines 124-128) until free quota is    *)
(* announced.                                                              *)
THEOREM ThrottleForbiddenSuspends == Spec => []ForbiddenSuspends
  BY ThrottleIInv, PTL DEF IInv

(* Back-offs never add up beyond one back-off or the latest reset time     *)
(* (lines 88-93, 126, 132).                                                *)
THEOREM ThrottleSuspensionBounded == Spec => []SuspensionBounded
  BY ThrottleIInv, PTL DEF IInv
=============================================================================
