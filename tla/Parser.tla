------------------------------- MODULE Parser -------------------------------
(***************************************************************************)
(* protocol::json::Parser::dispatch (protocol/json/parser.cpp lines 45-96):*)
(* decides which event a web socket message is, one member of the JSON     *)
(* object at a time and in the order in which the exchange wrote them.     *)
(*                                                                         *)
(* A message is a sequence of members [key, value].  External: whether     *)
(* core::json::Parser goes on to the next member when the helper returned  *)
(* true, which its source would tell; both are considered.                 *)
(***************************************************************************)
EXTENDS Sequences, Naturals

CONSTANTS
    Message,         \* the messages that the exchange may send
    KnownMethod,     \* the methods of method.json, each named as its event
    UndefinedMethod  \* external: the values that Method reads as UNDEFINED_INTERNAL

(* What the exchange sends: JSON objects, of which no two members have the *)
(* same key, and of which one with a method (an update) has no result (an  *)
(* answer).                                                                *)
ASSUME MessageAssumption ==
    \A m \in Message :
        /\ Len(m) \in Nat /\ DOMAIN m = 1 .. Len(m)
        /\ \A p, q \in DOMAIN m :
              /\ m[p].key = m[q].key => p = q
              /\ ~(m[p].key = "method" /\ m[q].key = "result")

ASSUME MethodAssumption ==
    /\ KnownMethod \cap {"pong", "response", "undefined", "unknown"} = {}
    /\ KnownMethod \cap UndefinedMethod = {}

VARIABLES
    message,         \* the message being parsed
    stops,           \* external: does "true" end the iteration?
    allow_unknown,   \* settings.experimental.allow_unknown_event_types
    position,        \* the number of members already looked at
    has_result,      \* has_result
    result,          \* result
    returned,        \* what the helper returned for the last member
    dispatched,      \* the events dispatched to the handler
    outcome          \* "parsing", "true", "false" or "terminated" (log::fatal)

vars == <<message, stops, allow_unknown, position, has_result, result, returned, dispatched, outcome>>

Init ==
    /\ message \in Message
    /\ stops \in BOOLEAN
    /\ allow_unknown \in BOOLEAN
    /\ position = 0
    /\ has_result = FALSE
    /\ result = FALSE
    /\ returned = FALSE
    /\ dispatched = <<>>
    /\ outcome = "parsing"

(* The iteration of core::json::Parser goes on to the next member.         *)
Iterate ==
    /\ outcome = "parsing"
    /\ position < Len(message)
    /\ ~(stops /\ returned)
    /\ position' = position + 1
    /\ UNCHANGED <<message, stops, allow_unknown>>

(* The helper returns from it.                                             *)
Advance == Iterate /\ UNCHANGED outcome

Member == message[position + 1]

Dispatch(event) == dispatched' = Append(dispatched, event) /\ result' = TRUE

(* Mutant of Method: an unknown method is dispatched as well.              *)
MethodAny ==
    /\ Advance
    /\ Member.key = "method" /\ Member.value \notin UndefinedMethod
    /\ Dispatch(Member.value)
    /\ returned' = TRUE
    /\ UNCHANGED has_result

(* The key "method": an event for a known method, nothing for an unknown   *)
(* one, and in either case there is no need to look further.               *)
Method ==
    /\ Advance
    /\ Member.key = "method" /\ Member.value \notin UndefinedMethod
    /\ IF Member.value \in KnownMethod THEN Dispatch(Member.value)
                                       ELSE UNCHANGED <<dispatched, result>>
    /\ returned' = TRUE
    /\ UNCHANGED has_result

(* Mutant of MethodUndefined: taken for an unknown one.                    *)
MethodUndefinedPassed ==
    /\ Advance
    /\ Member.key = "method" /\ Member.value \in UndefinedMethod
    /\ returned' = TRUE
    /\ UNCHANGED <<has_result, result, dispatched>>

(* The key "method" without a method: log::fatal, also where unknown       *)
(* messages are allowed.                                                   *)
MethodUndefined ==
    /\ Iterate
    /\ Member.key = "method" /\ Member.value \in UndefinedMethod
    /\ outcome' = "terminated"
    /\ UNCHANGED <<has_result, result, returned, dispatched>>

(* The key "result" with the value "pong".                                 *)
ResultPong ==
    /\ Advance
    /\ Member.key = "result" /\ Member.value = "pong"
    /\ Dispatch("pong")
    /\ returned' = TRUE
    /\ UNCHANGED has_result

(* Mutant of Other: the response waits for the member after the result.    *)
OtherLate ==
    /\ Advance
    /\ Member.key # "method" /\ ~(Member.key = "result" /\ Member.value = "pong")
    /\ has_result' = (has_result \/ Member.key = "result")
    /\ IF has_result THEN Dispatch("response") ELSE UNCHANGED <<dispatched, result>>
    /\ returned' = result'

(* Mutant of Other: has_result is not looked at.                           *)
OtherAny ==
    /\ Advance
    /\ Member.key # "method" /\ ~(Member.key = "result" /\ Member.value = "pong")
    /\ has_result' = (has_result \/ Member.key = "result")
    /\ Dispatch("response")
    /\ returned' = result'

(* Any other result, and any other key: a response, once there was a result*)
Other ==
    /\ Advance
    /\ Member.key # "method" /\ ~(Member.key = "result" /\ Member.value = "pong")
    /\ has_result' = (has_result \/ Member.key = "result")
    /\ IF has_result' THEN Dispatch("response") ELSE UNCHANGED <<dispatched, result>>
    /\ returned' = result'

Ended == position = Len(message) \/ (stops /\ returned)

(* Mutant of Return: the members not recognised are always tolerated.      *)
ReturnTolerant ==
    /\ outcome = "parsing"
    /\ Ended
    /\ outcome' = IF result THEN "true" ELSE "false"
    /\ UNCHANGED <<message, stops, allow_unknown, position, has_result, result, returned, dispatched>>

(* Return, or log::fatal.                                                  *)
Return ==
    /\ outcome = "parsing"
    /\ Ended
    /\ outcome' = IF result THEN "true" ELSE IF allow_unknown THEN "false" ELSE "terminated"
    /\ UNCHANGED <<message, stops, allow_unknown, position, has_result, result, returned, dispatched>>

Next == Method \/ MethodUndefined \/ ResultPong \/ Other \/ Return

Spec == Init /\ [][Next]_vars

-----------------------------------------------------------------------------

(* The event that a message is, by its members, in whatever order.         *)
Has(key, value) == \E p \in DOMAIN message : message[p].key = key /\ message[p].value = value

Event ==
    IF \E m \in KnownMethod : Has("method", m) THEN CHOOSE m \in KnownMethod : Has("method", m)
    ELSE IF \E m \in UndefinedMethod : Has("method", m) THEN "undefined"
    ELSE IF Has("result", "pong") THEN "pong"
    ELSE IF \E p \in DOMAIN message : message[p].key = "result" THEN "response"
    ELSE "unknown"

Events == {dispatched[p] : p \in DOMAIN dispatched}

(* Type invariant of the parser. *)
TypeOK ==
    /\ message \in Message
    /\ position \in 0 .. Len(message)
    /\ has_result \in BOOLEAN /\ result \in BOOLEAN /\ returned \in BOOLEAN
    /\ dispatched \in Seq(KnownMethod \cup {"pong", "response"})
    /\ outcome \in {"parsing", "true", "false", "terminated"}

(***************************************************************************)
(* The order of the members does not matter: a message is dispatched as    *)
(* the event it is and as no other, a response also when its result is the *)
(* last member (the tests have each message in one order only).            *)
(***************************************************************************)
OrderIrrelevant ==
    /\ Events \subseteq {Event}
    /\ outcome # "parsing" /\ Event \notin {"undefined", "unknown"} => Events = {Event}

(***************************************************************************)
(* The caller learns whether there was an event (lines 91-95).  The process*)
(* ends on a message without one, if these are not allowed; and on each    *)
(* message with an undefined method, allowed or not and wherever the member*)
(* is, so that dispatch does not return for one (lines 56-57).             *)
(***************************************************************************)
OutcomeTellsEvent ==
    /\ outcome = "true" => Event \notin {"undefined", "unknown"}
    /\ outcome = "false" => Event = "unknown" /\ allow_unknown
    /\ outcome = "terminated" => Event = "undefined" \/ (Event = "unknown" /\ ~allow_unknown)

(***************************************************************************)
(* No message is handled twice, if the iteration ends when the helper says *)
(* so; otherwise only a response is, whose handler can be repeated.        *)
(***************************************************************************)
DispatchedOnce == Len(dispatched) > 1 => ~stops /\ Event = "response"
=============================================================================
