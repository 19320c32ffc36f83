------------------------------ MODULE BookFeed ------------------------------
(***************************************************************************)
(* What the order books that are published promise, without subscriptions, *)
(* messages and connections: the published book of a symbol is at any time *)
(* one that the exchange had, whole, and never an earlier one than the one *)
(* before it, whatever happened in between.  It may be gone for a while.   *)
(***************************************************************************)
EXTENDS Integers, Sequences

CONSTANTS Symbol, Level, Quantity

VARIABLES
    history,    \* the order books of the exchange so far, the present ones last
    shown,      \* for each symbol, which of them was published last; 0: none
    books       \* the order books that are published

vars == <<history, shown, books>>

Book == [Level -> Quantity]

Init ==
    /\ \E first \in [Symbol -> Book] : history = <<first>>
    /\ shown = [s \in Symbol |-> 0]
    /\ books = << >>

Change(s, book) ==
    /\ history' = Append(history, [history[Len(history)] EXCEPT ![s] = book])
    /\ UNCHANGED <<shown, books>>

Show(s, n) ==
    /\ shown[s] <= n
    /\ shown' = [shown EXCEPT ![s] = n]
    /\ books' = [r \in DOMAIN books \cup {s} |-> IF r = s THEN history[n][s] ELSE books[r]]
    /\ UNCHANGED history

Drop ==
    /\ books' = << >>
    /\ UNCHANGED <<history, shown>>

Next ==
    \/ \E s \in Symbol, book \in Book : Change(s, book)
    \/ \E s \in Symbol : \E n \in 1 .. Len(history) : Show(s, n)
    \/ Drop

Spec == Init /\ [][Next]_vars
=============================================================================
