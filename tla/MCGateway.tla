----------------------------- MODULE MCGateway ------------------------------
(* TLC instance of Gateway.                                                *)
EXTENDS Gateway

CONSTANTS a, b, c, d

MCSymbol == {a, b, c, d}

(* Enough for two streams.                                                 *)
MCFewSymbols == {a, b, c}
=============================================================================
