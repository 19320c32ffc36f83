---------------------------- MODULE SymbolSlices ----------------------------
(***************************************************************************)
(* core::Symbols, an external class, as the gateway uses it: an ordered    *)
(* list of symbols cut into slices of max_subscriptions_per_stream, one    *)
(* slice per market-data stream (shared.cpp line 15, controller.cpp lines  *)
(* 168-169, market_data.cpp line 165).  Slices and positions count from 1. *)
(***************************************************************************)
EXTENDS Integers, Sequences, FiniteSets, Functions

CONSTANT MaxPerStream   \* settings.ws.max_subscriptions_per_stream

ASSUME MaxPerStreamAssumption == MaxPerStream \in Nat \ {0}

(* The slice of the symbol at a position of the list.                      *)
SliceOf(position) == ((position - 1) \div MaxPerStream) + 1

(* The number of slices: "size" of shared_.symbols(...).                   *)
Size(symbols) == IF symbols = <<>> THEN 0 ELSE SliceOf(Len(symbols))

(* get_slice(index, start_from): what slice i holds beyond position start. *)
GetSlice(symbols, i, start) ==
    {symbols[p] : p \in {q \in DOMAIN symbols : q > start /\ SliceOf(q) = i}}

(* The slice of a symbol of the list: that of its place there.             *)
StreamOf(list, s) == SliceOf(CHOOSE p \in DOMAIN list : list[p] = s)

(* The lists of each element of S once.                                    *)
Orders(S) == Bijection(1 .. Cardinality(S), S)
=============================================================================
