----------------------------- MODULE SymbolFeed -----------------------------
(***************************************************************************)
(* What the gateway promises about symbols, without the REST download, the *)
(* list of symbols, requests and counters: a symbol is given to one stream,*)
(* for good, no stream has more than MaxPerStream of them, and exactly the *)
(* symbols of the streams that are up are live.                            *)
(***************************************************************************)
EXTENDS Integers, FiniteSets

CONSTANTS Symbol, MaxPerStream

VARIABLES
    assigned,   \* the stream of each symbol that is registered
    up,         \* the streams that are up
    live        \* the symbols that are subscribed

vars == <<assigned, up, live>>

Registered == DOMAIN assigned

On(i) == {s \in Registered : assigned[s] = i}

Init ==
    /\ assigned = [s \in {} |-> 0]
    /\ up = {}
    /\ live = {}

(* New symbols get a stream, which may be up already.                      *)
Register(S) ==
    /\ S \cap Registered = {}
    /\ DOMAIN assigned' = Registered \cup S
    /\ \A s \in Registered : assigned'[s] = assigned[s]
    /\ \A s \in S : assigned'[s] \in Nat \ {0}
    /\ \A s \in S : Cardinality({t \in Registered \cup S : assigned'[t] = assigned'[s]}) <= MaxPerStream
    /\ live' = live \cup {s \in S : assigned'[s] \in up}
    /\ UNCHANGED up

(* A stream comes up with all of its symbols, and goes down with them.     *)
StreamUp(i) ==
    /\ i \notin up
    /\ up' = up \cup {i}
    /\ live' = live \cup On(i)
    /\ UNCHANGED assigned

StreamDown(i) ==
    /\ i \in up
    /\ up' = up \ {i}
    /\ live' = live \ On(i)
    /\ UNCHANGED assigned

AllDown ==
    /\ up' = {}
    /\ live' = {}
    /\ UNCHANGED assigned

Next ==
    \/ \E S \in SUBSET Symbol : Register(S)
    \/ \E i \in {assigned[s] : s \in Registered} : StreamUp(i) \/ StreamDown(i)
    \/ AllDown

Spec == Init /\ [][Next]_vars
=============================================================================
