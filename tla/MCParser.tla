------------------------------ MODULE MCParser ------------------------------
(* TLC instance of Parser: every message of the tests, in every order.     *)
EXTENDS Parser, SequencesExt

MCKnownMethod == {"bookTicker", "depth"}

MCUndefinedMethod == {"null"}

Of(key, value) == [key |-> key, value |-> value]

(* Updates, also of a method that is not known and of none; answers, with  *)
(* and without a result.                                                   *)
MCMembers ==
    {{Of("method", m), Of("params", "some"), Of("id", "null")} : m \in MCKnownMethod \cup MCUndefinedMethod \cup {"other"}}
    \cup {{Of("error", "some"), Of("result", r), Of("id", "some")} : r \in {"pong", "object", "null"}}
    \cup {{Of("error", "some"), Of("id", "some")}}

MCMessage == UNION {SetToSeqs(members) : members \in MCMembers}
=============================================================================
