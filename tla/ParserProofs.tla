---------------------------- MODULE ParserProofs ----------------------------
(***************************************************************************)
(* Proofs about Parser, for every set of messages: of any length, with     *)
(* their members in any order.                                             *)
(*                                                                         *)
(* The invariant relates what the parser remembers (has_result, result,    *)
(* what it dispatched) to the members it has looked at.                    *)
(***************************************************************************)
EXTENDS Parser, TLAPS

Seen == 1 .. position

IsKnown(p) == message[p].key = "method" /\ message[p].value \in KnownMethod
IsUndefined(p) == message[p].key = "method" /\ message[p].value \in UndefinedMethod
IsPong(p) == message[p].key = "result" /\ message[p].value = "pong"
IsResponse(p) == message[p].key = "result" /\ message[p].value # "pong"

(* A member that makes the message an event was dispatched when it was     *)
(* seen, and nothing is dispatched before one was seen.                    *)
DispatchedWhatWasSeen ==
    /\ has_result <=> \E p \in Seen : IsResponse(p)
    /\ result <=> dispatched # <<>>
    /\ result <=> \E p \in Seen : IsKnown(p) \/ IsPong(p) \/ IsResponse(p)
    /\ \A k \in DOMAIN dispatched : dispatched[k] = Event

(* The helper says that it is done after a dispatch, or after a method.    *)
DoneAfterDispatch ==
    /\ result => returned
    /\ returned => result \/ \E p \in Seen : message[p].key = "method"

(* An undefined method ends the process as soon as it is seen.             *)
UndefinedEnds == (\E p \in Seen : IsUndefined(p)) => outcome = "terminated"

(* What the end rests on, otherwise.                                       *)
OutcomeFollowsResult ==
    outcome # "parsing" =>
        \/ \E p \in Seen : IsUndefined(p)
        \/ /\ Ended
           /\ outcome = IF result THEN "true" ELSE IF allow_unknown THEN "false" ELSE "terminated"

IInv ==
    /\ TypeOK /\ DispatchedWhatWasSeen /\ DoneAfterDispatch
    /\ UndefinedEnds /\ OutcomeFollowsResult /\ DispatchedOnce

-----------------------------------------------------------------------------

(* The event of a message, by any member that tells it.                    *)
LEMMA EventOf ==
  ASSUME message \in Message, NEW p \in DOMAIN message
  PROVE  /\ IsKnown(p) => Event = message[p].value
         /\ IsUndefined(p) => Event = "undefined"
         /\ IsPong(p) => Event = "pong"
         /\ IsResponse(p) => Event = "response"
<1>1. \A q \in DOMAIN message : message[q].key = message[p].key => q = p
  BY MessageAssumption
<1>2. ASSUME IsKnown(p) PROVE Event = message[p].value
  <2>1. Has("method", message[p].value)
    BY <1>2 DEF IsKnown, Has
  <2>2. \A m \in KnownMethod : Has("method", m) => m = message[p].value
    BY <1>1, <1>2 DEF IsKnown, Has
  <2>3. (CHOOSE m \in KnownMethod : Has("method", m)) = message[p].value
    BY <1>2, <2>1, <2>2 DEF IsKnown
  <2> QED
    BY <1>2, <2>1, <2>3 DEF Event, IsKnown
<1>3. ASSUME message[p].key = "result" PROVE ~ \E m \in KnownMethod \cup UndefinedMethod : Has("method", m)
  BY <1>3, MessageAssumption DEF Has
<1>6. ASSUME IsUndefined(p) PROVE Event = "undefined"
  <2>1. Has("method", message[p].value)
    BY <1>6 DEF IsUndefined, Has
  <2>2. ~ \E m \in KnownMethod : Has("method", m)
    BY <1>1, <1>6, MethodAssumption DEF IsUndefined, Has
  <2> QED
    BY <1>6, <2>1, <2>2 DEF Event, IsUndefined
<1>4. ASSUME IsPong(p) PROVE Event = "pong"
  <2>1. Has("result", "pong")
    BY <1>4 DEF IsPong, Has
  <2> QED
    BY <1>3, <1>4, <2>1 DEF Event, IsPong
<1>5. ASSUME IsResponse(p) PROVE Event = "response"
  <2>1. ~Has("result", "pong")
    BY <1>1, <1>5 DEF IsResponse, Has
  <2> QED
    BY <1>3, <1>5, <2>1 DEF Event, IsResponse
<1> QED
  BY <1>2, <1>4, <1>5, <1>6

(* A message that is an event has a member that tells so.                  *)
LEMMA EventHasMember ==
  ASSUME message \in Message, Event # "unknown"
  PROVE  \E p \in DOMAIN message : IsKnown(p) \/ IsUndefined(p) \/ IsPong(p) \/ IsResponse(p)
<1>1. CASE \E m \in KnownMethod \cup UndefinedMethod : Has("method", m)
  BY <1>1 DEF Has, IsKnown, IsUndefined
<1>2. CASE ~ \E m \in KnownMethod \cup UndefinedMethod : Has("method", m)
  BY <1>2 DEF Event, Has, IsPong, IsResponse
<1> QED
  BY <1>1, <1>2

-----------------------------------------------------------------------------

LEMMA InitIInv == Init => IInv
<1> SUFFICES ASSUME Init PROVE IInv
  OBVIOUS
<1>1. Len(message) \in Nat
  BY MessageAssumption DEF Init
<1>2. position \in 0 .. Len(message) /\ dispatched \in Seq(KnownMethod \cup {"pong", "response"})
  BY <1>1 DEF Init
<1>3. TypeOK
  BY <1>2 DEF Init, TypeOK
<1> QED
  BY <1>3 DEF Init, IInv, DispatchedWhatWasSeen, DoneAfterDispatch, UndefinedEnds, OutcomeFollowsResult,
              DispatchedOnce, Seen

(* What a step of the iteration knows of its member.                       *)
LEMMA AdvanceFacts ==
  ASSUME IInv, Iterate
  PROVE  /\ position + 1 \in DOMAIN message
         /\ Seen' = Seen \cup {position + 1}
         /\ Seen \subseteq DOMAIN message
         /\ position' \in 0 .. Len(message)
         /\ \A p \in Seen : message[p].key # Member.key
         /\ \A p \in Seen : ~IsUndefined(p)
         /\ ~(stops /\ result)
         /\ Event' = Event
<1>1. Len(message) \in Nat /\ DOMAIN message = 1 .. Len(message) /\ position \in 0 .. Len(message)
  BY MessageAssumption DEF IInv, TypeOK
<1>2. position' = position + 1 /\ position < Len(message) /\ message' = message
  BY DEF Iterate
<1>3. position + 1 \in DOMAIN message /\ Seen' = Seen \cup {position + 1} /\ Seen \subseteq DOMAIN message
      /\ position' \in 0 .. Len(message) /\ position + 1 \notin Seen
  BY <1>1, <1>2 DEF Seen
<1>4. \A p \in Seen : message[p].key # Member.key
  BY <1>3, MessageAssumption DEF Member, IInv, TypeOK
<1>5. ~(stops /\ result)
  BY DEF Iterate, IInv, DoneAfterDispatch
<1>6. Event' = Event
  BY <1>2 DEF Event, Has
<1>7. \A p \in Seen : ~IsUndefined(p)
  BY DEF Iterate, IInv, UndefinedEnds
<1> QED
  BY <1>3, <1>4, <1>5, <1>6, <1>7

(* A step that returns from the helper has seen no undefined method.       *)
LEMMA AdvanceDefined ==
  ASSUME IInv, Advance, ~IsUndefined(position + 1)
  PROVE  UndefinedEnds' /\ OutcomeFollowsResult'
<1>1. Iterate /\ outcome = "parsing" /\ outcome' = outcome /\ message' = message
  BY DEF Advance, Iterate
<1>2. \A p \in Seen' : ~IsUndefined(p)
  BY <1>1, AdvanceFacts
<1> QED
  BY <1>1, <1>2 DEF UndefinedEnds, OutcomeFollowsResult, IsUndefined

LEMMA NextIInv == IInv /\ [Next]_vars => IInv'
<1> SUFFICES ASSUME IInv, [Next]_vars PROVE IInv'
  OBVIOUS
<1> DEFINE here == position + 1
<1>1. CASE Method
  <2>1. Iterate /\ message[here].key = "method" /\ returned' = TRUE /\ has_result' = has_result
        /\ UNCHANGED <<message, stops, allow_unknown, outcome>> /\ outcome = "parsing"
    BY <1>1 DEF Method, Advance, Iterate, Member
  <2>0. UndefinedEnds' /\ OutcomeFollowsResult'
    BY <1>1, AdvanceDefined DEF Method, Member, IsUndefined
  <2>2. here \in DOMAIN message /\ \A p \in DOMAIN message : message[p].key = "method" => p = here
    BY <2>1, AdvanceFacts, MessageAssumption DEF IInv, TypeOK
  <2>3. \A p \in DOMAIN message : message[p].key # "result"
    BY <2>1, <2>2, MessageAssumption DEF IInv, TypeOK
  <2>4. \A p \in Seen : ~IsKnown(p) /\ ~IsPong(p) /\ ~IsResponse(p)
    BY <2>1, <2>3, AdvanceFacts DEF IsKnown, IsPong, IsResponse, Member
  <2>5. ~result /\ dispatched = <<>>
    BY <2>4 DEF IInv, DispatchedWhatWasSeen
  <2>6. ~IsPong(here) /\ ~IsResponse(here)
    BY <2>1 DEF IsPong, IsResponse
  <2>7. CASE IsKnown(here)
    <3>1. dispatched' = <<message[here].value>> /\ result' = TRUE
      BY <1>1, <2>5, <2>7 DEF Method, Dispatch, IsKnown, Member
    <3>2. Event = message[here].value
      BY <2>2, <2>7, EventOf DEF IInv, TypeOK
    <3>3. TypeOK'
      BY <2>1, <2>7, <3>1, AdvanceFacts DEF IInv, TypeOK, IsKnown
    <3>4. DispatchedWhatWasSeen'
      BY <2>1, <2>4, <2>6, <2>7, <3>1, <3>2, AdvanceFacts
         DEF IInv, DispatchedWhatWasSeen, IsKnown, IsPong, IsResponse
    <3>5. DoneAfterDispatch' /\ DispatchedOnce'
      BY <2>1, <3>1 DEF DoneAfterDispatch, DispatchedOnce
    <3> QED
      BY <2>0, <3>3, <3>4, <3>5 DEF IInv
  <2>8. CASE ~IsKnown(here)
    <3>1. dispatched' = <<>> /\ result' = result
      BY <1>1, <2>1, <2>5, <2>8 DEF Method, IsKnown, Member
    <3>2. TypeOK'
      BY <2>1, <3>1, AdvanceFacts DEF IInv, TypeOK
    <3>3. DispatchedWhatWasSeen'
      BY <2>1, <2>4, <2>5, <2>6, <2>8, <3>1, AdvanceFacts
         DEF IInv, DispatchedWhatWasSeen, IsKnown, IsPong, IsResponse
    <3>4. DoneAfterDispatch'
      BY <2>1, AdvanceFacts DEF DoneAfterDispatch
    <3>5. DispatchedOnce'
      BY <3>1 DEF DispatchedOnce
    <3> QED
      BY <2>0, <3>2, <3>3, <3>4, <3>5 DEF IInv
  <2> QED
    BY <2>7, <2>8
<1>2. CASE ResultPong
  <2>0. UndefinedEnds' /\ OutcomeFollowsResult'
    BY <1>2, AdvanceDefined DEF ResultPong, Member, IsUndefined
  <2>1. Iterate /\ IsPong(here) /\ returned' = TRUE /\ has_result' = has_result
        /\ dispatched' = Append(dispatched, "pong") /\ result' = TRUE
        /\ UNCHANGED <<message, stops, allow_unknown, outcome>> /\ outcome = "parsing"
    BY <1>2 DEF ResultPong, Advance, Iterate, Member, Dispatch, IsPong
  <2>2. here \in DOMAIN message /\ \A p \in DOMAIN message : message[p].key # "method"
    BY <2>1, AdvanceFacts, MessageAssumption DEF IInv, TypeOK, IsPong
  <2>3. \A p \in Seen : ~IsKnown(p) /\ ~IsPong(p) /\ ~IsResponse(p)
    BY <2>1, <2>2, AdvanceFacts DEF IsKnown, IsPong, IsResponse, Member
  <2>4. ~IsKnown(here) /\ ~IsResponse(here)
    BY <2>1 DEF IsPong, IsKnown, IsResponse
  <2>5. dispatched' = <<"pong">>
    <3>1. dispatched = <<>>
      BY <2>3 DEF IInv, DispatchedWhatWasSeen
    <3> QED
      BY <2>1, <3>1
  <2>6. Event = "pong"
    BY <2>1, <2>2, EventOf DEF IInv, TypeOK
  <2>7. TypeOK'
    BY <2>1, <2>5, AdvanceFacts DEF IInv, TypeOK
  <2>8. DispatchedWhatWasSeen'
    BY <2>1, <2>3, <2>4, <2>5, <2>6, AdvanceFacts
       DEF IInv, DispatchedWhatWasSeen, IsKnown, IsPong, IsResponse
  <2>9. DoneAfterDispatch'
    BY <2>1 DEF DoneAfterDispatch
  <2>10. DispatchedOnce'
    BY <2>5 DEF DispatchedOnce
  <2> QED
    BY <2>0, <2>7, <2>8, <2>9, <2>10 DEF IInv
<1>3. CASE Other
  <2>0. UndefinedEnds' /\ OutcomeFollowsResult'
    BY <1>3, AdvanceDefined DEF Other, Member, IsUndefined
  <2>1. Iterate /\ ~IsKnown(here) /\ ~IsPong(here) /\ message[here].key # "method"
        /\ has_result' = (has_result \/ IsResponse(here)) /\ returned' = result'
        /\ UNCHANGED <<message, stops, allow_unknown, outcome>> /\ outcome = "parsing"
    BY <1>3 DEF Other, Advance, Iterate, Member, IsKnown, IsPong, IsResponse
  <2>2. here \in DOMAIN message /\ Seen' = Seen \cup {here}
    BY <2>1, AdvanceFacts
  <2>3. has_result' <=> \E p \in Seen' : IsResponse(p)
    BY <2>1, <2>2 DEF IInv, DispatchedWhatWasSeen
  <2>4. CASE has_result'
    <3>1. dispatched' = Append(dispatched, "response") /\ result' = TRUE
      BY <1>3, <2>4 DEF Other, Dispatch
    <3>2. Event = "response"
      BY <2>1, <2>2, <2>3, <2>4, AdvanceFacts, EventOf DEF IInv, TypeOK
    <3>3. TypeOK'
      BY <2>1, <2>4, <3>1, AdvanceFacts DEF IInv, TypeOK
    <3>4. dispatched' # <<>> /\ \A k \in DOMAIN dispatched' : dispatched'[k] = "response"
      BY <3>1, <3>2 DEF IInv, TypeOK, DispatchedWhatWasSeen
    <3>5. DispatchedWhatWasSeen'
      BY <2>1, <2>3, <2>4, <3>1, <3>2, <3>4, AdvanceFacts
         DEF DispatchedWhatWasSeen, IsKnown, IsPong, IsResponse
    <3>6. DoneAfterDispatch'
      BY <2>1, <3>1 DEF DoneAfterDispatch
    <3>7. DispatchedOnce'
      <4>1. CASE stops
        <5>1. dispatched = <<>>
          BY <2>1, <4>1, AdvanceFacts DEF IInv, DispatchedWhatWasSeen
        <5>2. dispatched' = <<"response">>
          BY <3>1, <5>1
        <5> QED
          BY <5>2 DEF DispatchedOnce
      <4>2. CASE ~stops
        BY <2>1, <3>2, <4>2, AdvanceFacts DEF DispatchedOnce
      <4> QED
        BY <4>1, <4>2
    <3> QED
      BY <2>0, <3>3, <3>5, <3>6, <3>7 DEF IInv
  <2>5. CASE ~has_result'
    <3>1. UNCHANGED <<dispatched, result>>
      BY <1>3, <2>5 DEF Other
    <3>2. TypeOK'
      BY <2>1, <2>5, <3>1, AdvanceFacts DEF IInv, TypeOK
    <3>3. ~IsResponse(here)
      BY <2>1, <2>5
    <3>4. DispatchedWhatWasSeen'
      BY <2>1, <2>2, <2>3, <3>1, <3>3, AdvanceFacts
         DEF IInv, DispatchedWhatWasSeen, IsKnown, IsPong, IsResponse
    <3>5. DoneAfterDispatch' /\ DispatchedOnce'
      BY <2>1, <3>1, AdvanceFacts DEF IInv, DoneAfterDispatch, DispatchedOnce
    <3> QED
      BY <2>0, <3>2, <3>4, <3>5 DEF IInv
  <2> QED
    BY <2>4, <2>5
<1>4. CASE Return \/ UNCHANGED vars
  <2>1. UNCHANGED <<message, stops, allow_unknown, position, has_result, result, returned, dispatched>>
    BY <1>4 DEF Return, vars
  <2>2. Seen' = Seen /\ Event' = Event /\ Ended' = Ended
    BY <2>1 DEF Seen, Event, Has, Ended
  <2>3. TypeOK'
    BY <1>4 DEF IInv, TypeOK, Return, vars
  <2>4. DispatchedWhatWasSeen' /\ DoneAfterDispatch' /\ DispatchedOnce'
    BY <2>1, <2>2 DEF IInv, DispatchedWhatWasSeen, DoneAfterDispatch, DispatchedOnce,
                      IsKnown, IsPong, IsResponse
  <2>5. UndefinedEnds' /\ OutcomeFollowsResult'
    BY <1>4, <2>1, <2>2 DEF IInv, UndefinedEnds, OutcomeFollowsResult, IsUndefined, Return, vars
  <2> QED
    BY <2>3, <2>4, <2>5 DEF IInv
<1>5. CASE MethodUndefined
  <2>1. /\ Iterate /\ IsUndefined(here) /\ outcome' = "terminated"
        /\ UNCHANGED <<message, stops, allow_unknown, has_result, result, returned, dispatched>>
    BY <1>5 DEF MethodUndefined, Iterate, Member, IsUndefined
  <2>2. /\ here \in DOMAIN message /\ here \in Seen' /\ Seen' = Seen \cup {here}
        /\ Event' = Event /\ position' \in 0 .. Len(message)
    BY <2>1, AdvanceFacts
  <2>3. ~IsKnown(here) /\ ~IsPong(here) /\ ~IsResponse(here)
    BY <2>1, MethodAssumption DEF IsUndefined, IsKnown, IsPong, IsResponse
  <2>4. TypeOK'
    BY <2>1, <2>2 DEF IInv, TypeOK
  <2>5. DispatchedWhatWasSeen' /\ DoneAfterDispatch' /\ DispatchedOnce'
    BY <2>1, <2>2, <2>3 DEF IInv, DispatchedWhatWasSeen, DoneAfterDispatch, DispatchedOnce,
                            IsKnown, IsPong, IsResponse
  <2>6. UndefinedEnds' /\ OutcomeFollowsResult'
    BY <2>1, <2>2 DEF UndefinedEnds, OutcomeFollowsResult, IsUndefined
  <2> QED
    BY <2>4, <2>5, <2>6 DEF IInv
<1> QED
  BY <1>1, <1>2, <1>3, <1>4, <1>5 DEF Next

(* The invariant of the parser.                                            *)
THEOREM ParserInvariant == Spec => []IInv
  BY InitIInv, NextIInv, PTL DEF Spec

-----------------------------------------------------------------------------

(* What ends without an event was a message without one: either all its    *)
(* members were seen, or a method that is not known ended the search.      *)
LEMMA NothingOverlooked ==
  ASSUME IInv, Ended, ~result, \A p \in Seen : ~IsUndefined(p)
  PROVE  Event = "unknown"
<1> SUFFICES ASSUME Event # "unknown" PROVE FALSE
  OBVIOUS
<1>1. PICK p \in DOMAIN message : IsKnown(p) \/ IsUndefined(p) \/ IsPong(p) \/ IsResponse(p)
  BY EventHasMember DEF IInv, TypeOK
<1>2. p \notin Seen
  BY <1>1 DEF IInv, DispatchedWhatWasSeen
<1>3. CASE position = Len(message)
  BY <1>2, <1>3, MessageAssumption DEF IInv, TypeOK, Seen
<1>4. CASE returned
  <2>1. PICK q \in Seen : message[q].key = "method"
    BY <1>4 DEF IInv, DoneAfterDispatch
  <2>2. q \in DOMAIN message
    BY <2>1, MessageAssumption DEF Seen, IInv, TypeOK
  <2>3. q # p
    BY <1>2, <2>1
  <2> QED
    BY <1>1, <2>1, <2>2, <2>3, MessageAssumption DEF IInv, TypeOK, IsKnown, IsUndefined, IsPong, IsResponse
<1> QED
  BY <1>3, <1>4 DEF Ended

(* What was dispatched was the event, and the message has one.             *)
LEMMA DispatchedIsEvent ==
  ASSUME IInv, result
  PROVE  Event \notin {"undefined", "unknown"} /\ Events = {Event}
<1>1. 1 \in DOMAIN dispatched
  BY DEF IInv, TypeOK, DispatchedWhatWasSeen
<1>2. Events = {Event}
  BY <1>1 DEF IInv, DispatchedWhatWasSeen, Events
<1>3. dispatched[1] \in KnownMethod \cup {"pong", "response"} /\ dispatched[1] = Event
  BY <1>1 DEF IInv, TypeOK, DispatchedWhatWasSeen
<1> QED
  BY <1>2, <1>3, MethodAssumption

(* An undefined method that was seen is what the message is.               *)
LEMMA UndefinedIsEvent ==
  ASSUME IInv, NEW p \in Seen, IsUndefined(p)
  PROVE  Event = "undefined" /\ outcome = "terminated"
<1>1. p \in DOMAIN message
  BY MessageAssumption DEF Seen, IInv, TypeOK
<1> QED
  BY <1>1, EventOf DEF IInv, TypeOK, UndefinedEnds

(* The order of the members does not matter (lines 49-90).                 *)
THEOREM ParserOrderIrrelevant == Spec => []OrderIrrelevant
<1>1. ASSUME IInv PROVE OrderIrrelevant
  <2>1. CASE result
    BY <1>1, <2>1, DispatchedIsEvent DEF OrderIrrelevant
  <2>2. CASE ~result
    <3>1. Events = {}
      BY <1>1, <2>2 DEF IInv, DispatchedWhatWasSeen, Events
    <3>2. outcome # "parsing" => Event \in {"undefined", "unknown"}
      BY <1>1, <2>2, NothingOverlooked, UndefinedIsEvent DEF IInv, OutcomeFollowsResult
    <3> QED
      BY <3>1, <3>2 DEF OrderIrrelevant
  <2> QED
    BY <2>1, <2>2
<1> QED
  BY <1>1, ParserInvariant, PTL

(* The caller learns whether there was an event; the process ends on a     *)
(* message without one that is not allowed, and on every undefined method  *)
(* (lines 56-57 and 91-95).                                                *)
THEOREM ParserOutcomeTellsEvent == Spec => []OutcomeTellsEvent
<1>1. ASSUME IInv PROVE OutcomeTellsEvent
  <2>1. CASE \E p \in Seen : IsUndefined(p)
    BY <1>1, <2>1, UndefinedIsEvent DEF OutcomeTellsEvent
  <2>2. CASE result /\ \A p \in Seen : ~IsUndefined(p)
    BY <1>1, <2>2, DispatchedIsEvent DEF OutcomeTellsEvent, IInv, OutcomeFollowsResult
  <2>3. CASE ~result /\ \A p \in Seen : ~IsUndefined(p)
    BY <1>1, <2>3, NothingOverlooked DEF OutcomeTellsEvent, IInv, OutcomeFollowsResult
  <2> QED
    BY <2>1, <2>2, <2>3
<1> QED
  BY <1>1, ParserInvariant, PTL

(* No message but a response is handled twice (lines 49-90).               *)
THEOREM ParserDispatchedOnce == Spec => []DispatchedOnce
  BY ParserInvariant, PTL DEF IInv

(* The variables of the parser keep their types.                           *)
THEOREM ParserTypeCorrect == Spec => []TypeOK
  BY ParserInvariant, PTL DEF IInv
=============================================================================
