------------------------------ MODULE Throttle ------------------------------
(***************************************************************************)
(* tools::Throttle (src/roq/whitebit/tools/throttle.cpp): the interceptor  *)
(* that every connection of the gateway shares.  It watches the rate-limit *)
(* headers and the status of each HTTP response and decides until when the *)
(* web client must hold its requests back (operator nanoseconds()).        *)
(*                                                                         *)
(* Time is counted in ticks.  clock::get_system is "now",                  *)
(* clock::get_realtime is "now + OFFSET".  The value of X-Bapi-Limit is    *)
(* stored by the code and never read, so it is not modelled.               *)
(***************************************************************************)
EXTENDS Integers

CONSTANTS
    RATE_LIMIT,        \* settings.experimental.enable_rate_limit
    OFFSET,            \* real time minus system time
    DEFAULT_BACKOFF,   \* 5s
    BLOCKED_BACKOFF,   \* 10min
    MIN_BACKOFF,       \* 1s, the shortest back-off the comment at line 21 allows for
    LimitStatus,       \* values of X-Bapi-Limit-Status the exchange may send
    ResetTimestamp,    \* values of X-Bapi-Limit-Reset-Timestamp it may send
    MaxTime            \* bound of the clock

ASSUME SwitchAssumption  == RATE_LIMIT \in BOOLEAN
ASSUME ClockAssumption   == OFFSET \in Int /\ MaxTime \in Nat
ASSUME BackoffAssumption == /\ DEFAULT_BACKOFF \in Nat
                            /\ BLOCKED_BACKOFF \in Nat
                            /\ DEFAULT_BACKOFF <= BLOCKED_BACKOFF
                            /\ MIN_BACKOFF \in Nat
ASSUME HeaderAssumption  == LimitStatus \subseteq Int /\ ResetTimestamp \subseteq Nat

Never == -1

VARIABLES
    limit_status,            \* params_.limit_status
    limit_reset_timestamp,   \* params_.limit_reset_timestamp
    suspend_until,           \* suspend_until_
    now,                     \* clock::get_system()
    last_403,                \* history: time of the last FORBIDDEN, or Never if there
                             \*   is none since free quota was last announced
    last_429,                \* history: the same for TOO_MANY_REQUESTS
    latest_reset             \* history: the latest reset announced so far

params  == <<limit_status, limit_reset_timestamp>>
history == <<last_403, last_429, latest_reset>>
vars    == <<params, suspend_until, now, history>>

Later(a, b) == IF a > b THEN a ELSE b

(* clock::get_realtime() *)
now_utc == now + OFFSET

(* The exchange announced free quota, or no time of the next refill. *)
QuotaOpen(status, reset) == status > 0 \/ reset = 0

(* What the web client reads from the interceptor before it sends. *)
Suspended == now < suspend_until

-----------------------------------------------------------------------------

(* Mutant of Init: suspend_until_ starts from a sentinel.                  *)
InitNever ==
    /\ limit_status = 0 /\ limit_reset_timestamp = 0
    /\ suspend_until = Never
    /\ now = 0
    /\ last_403 = Never /\ last_429 = Never /\ latest_reset = 0

Init ==
    /\ limit_status = 0
    /\ limit_reset_timestamp = 0
    /\ suspend_until = 0
    /\ now = 0
    /\ last_403 = Never
    /\ last_429 = Never
    /\ latest_reset = 0

(* Mutant of SuspendUntil: the new time replaces the old one.              *)
SuspendUntilNew(status, reset) ==
    IF ~RATE_LIMIT THEN suspend_until
    ELSE IF QuotaOpen(status, reset) THEN 0
    ELSE IF now_utc < reset THEN now + (reset - now_utc)
    ELSE now + DEFAULT_BACKOFF

(* update_suspend_until: the new value of suspend_until_, given params_. *)
SuspendUntil(status, reset) ==
    IF ~RATE_LIMIT THEN suspend_until
    ELSE IF QuotaOpen(status, reset) THEN 0
    ELSE IF now_utc < reset THEN Later(suspend_until, now + (reset - now_utc))
    ELSE Later(suspend_until, now + DEFAULT_BACKOFF)

(* History: free quota, announced by a header, supersedes the rejections.  *)
ForgetRejections(status, reset) ==
    IF QuotaOpen(status, reset)
    THEN last_403' = Never /\ last_429' = Never
    ELSE UNCHANGED <<last_403, last_429>>

(* Mutant of LimitStatusHeader: the value is latched, nothing re-computed. *)
LimitStatusHeaderLatched(value) ==
    /\ value # limit_status
    /\ limit_status' = value
    /\ ForgetRejections(value, limit_reset_timestamp)
    /\ UNCHANGED <<limit_reset_timestamp, suspend_until, now, latest_reset>>

(* A header re-computes suspend_until_ only when its value changed. *)
LimitStatusHeader(value) ==
    /\ value # limit_status
    /\ limit_status' = value
    /\ suspend_until' = SuspendUntil(value, limit_reset_timestamp)
    /\ ForgetRejections(value, limit_reset_timestamp)
    /\ UNCHANGED <<limit_reset_timestamp, now, latest_reset>>

LimitResetHeader(value) ==
    /\ value # limit_reset_timestamp
    /\ limit_reset_timestamp' = value
    /\ suspend_until' = SuspendUntil(limit_status, value)
    /\ ForgetRejections(limit_status, value)
    /\ latest_reset' = Later(latest_reset, value)
    /\ UNCHANGED <<limit_status, now>>

(* MessageEnd with status FORBIDDEN (403). *)
Forbidden ==
    /\ suspend_until' = IF RATE_LIMIT THEN Later(suspend_until, now + BLOCKED_BACKOFF)
                                   ELSE suspend_until
    /\ last_403' = now
    /\ UNCHANGED <<params, now, last_429, latest_reset>>

(* Mutant of TooManyRequests: each 429 extends the suspension.             *)
TooManyRequestsExtend ==
    /\ suspend_until' = IF RATE_LIMIT THEN Later(suspend_until, now) + DEFAULT_BACKOFF
                                      ELSE suspend_until
    /\ last_429' = now
    /\ UNCHANGED <<params, now, last_403, latest_reset>>

(* MessageEnd with status TOO_MANY_REQUESTS (429). *)
TooManyRequests ==
    /\ suspend_until' = IF RATE_LIMIT /\ suspend_until = 0 THEN now + DEFAULT_BACKOFF
                                                        ELSE suspend_until
    /\ last_429' = now
    /\ UNCHANGED <<params, now, last_403, latest_reset>>

(* External: the clocks. *)
Tick ==
    /\ now < MaxTime
    /\ now' = now + 1
    /\ UNCHANGED <<params, suspend_until, history>>

Next ==
    \/ \E value \in LimitStatus : LimitStatusHeader(value)
    \/ \E value \in ResetTimestamp : LimitResetHeader(value)
    \/ Forbidden
    \/ TooManyRequests
    \/ Tick

Spec == Init /\ [][Next]_vars

-----------------------------------------------------------------------------

(* Type invariant of the interceptor and of the history variables. *)
TypeOK ==
    /\ limit_status \in LimitStatus \cup {0}
    /\ limit_reset_timestamp \in ResetTimestamp \cup {0}
    /\ suspend_until \in Nat
    /\ now \in 0 .. MaxTime
    /\ last_403 \in (0 .. MaxTime) \cup {Never}
    /\ last_429 \in (0 .. MaxTime) \cup {Never}
    /\ latest_reset \in Nat

(* The exchange said that the quota is used up and when it is refilled. *)
Exhausted == limit_status <= 0 /\ limit_reset_timestamp # 0

(***************************************************************************)
(* The two headers arrive one at a time, in any order and often unchanged, *)
(* and 403 and 429 move suspend_until_ as well.  Whatever their order,     *)
(* while the latched values say "exhausted until T" the suspension         *)
(* (throttle.cpp lines 78-95) lasts until T at least, so the web client    *)
(* sends nothing before the announced refill.                              *)
(***************************************************************************)
ExhaustedSuspends ==
    RATE_LIMIT /\ Exhausted => suspend_until + OFFSET >= limit_reset_timestamp

(***************************************************************************)
(* A 403 suspends for BLOCKED_BACKOFF (lines 124-128).  Responses to other *)
(* requests may follow it (the client pipelines): their 429s and nearer    *)
(* reset times do not shorten the block, only free quota does (line 82).   *)
(***************************************************************************)
ForbiddenSuspends ==
    RATE_LIMIT /\ last_403 # Never => suspend_until >= last_403 + BLOCKED_BACKOFF

(***************************************************************************)
(* Back-offs do not add up: however many 403s, 429s and reset times arrive,*)
(* the suspension never reaches beyond the longest back-off from now or the*)
(* latest reset ever announced, so the gateway is not locked out for good. *)
(***************************************************************************)
SuspensionBounded ==
    \/ suspend_until <= now + BLOCKED_BACKOFF
    \/ suspend_until + OFFSET <= latest_reset

(***************************************************************************)
(* The comment on DEFAULT_BACKOFF (line 21): a back-off, "maybe as low as  *)
(* 1 second", follows a 429.  The code only backs off when suspend_until_  *)
(* is zero (line 130), and a suspension that has expired is not zero.      *)
(***************************************************************************)
BackoffAfter429 ==
    RATE_LIMIT /\ last_429 # Never /\ now < last_429 + MIN_BACKOFF => Suspended
=============================================================================
