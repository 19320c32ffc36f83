--------------------------- MODULE MCSubscriptions ---------------------------
(* TLC instance of Subscriptions.                                          *)
EXTENDS Subscriptions, TLC

CONSTANTS a, b, c

(* Enough for two streams, one with two symbols.                           *)
MCSymbol == {a, b, c}

MCSymmetry == Permutations(Symbol)

(* One method that takes a request per symbol, one that lists them.        *)
MCReplaces == {"depth", "trades"}
=============================================================================
