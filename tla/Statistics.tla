----------------------------- MODULE Statistics -----------------------------
(***************************************************************************)
(* The statistics that are published for a market update (market_data.cpp  *)
(* lines 346-395): an array of five, each with its type and its value.     *)
(***************************************************************************)
EXTENDS Integers

CONSTANT Price

(* What the exchange sends: prices and the volume of the last day.         *)
MarketUpdates == {d \in [open : Price, high : Price, low : Price, close : Price, volume : Price] :
                     d.low <= d.open /\ d.open <= d.high /\ d.low <= d.close /\ d.close <= d.high}

VARIABLES
    data,         \* the last market update received, or none
    statistics    \* what was published for it: a value for each type

vars == <<data, statistics>>

None == [received |-> FALSE]

Init == data = None /\ statistics = None

MarketUpdate(update) ==
    /\ data' = update
    /\ statistics' = [OPEN_PRICE           |-> update.high,
                      HIGHEST_TRADED_PRICE |-> update.high,
                      LOWEST_TRADED_PRICE  |-> update.low,
                      CLOSE_PRICE          |-> update.close,
                      TRADE_VOLUME         |-> update.volume]

Next == \E update \in MarketUpdates : MarketUpdate(update)

Spec == Init /\ [][Next]_vars

-----------------------------------------------------------------------------

(***************************************************************************)
(* The statistic of each type has the value that the exchange sent under   *)
(* that name; test/json_market_update.cpp has an open price (63170) that   *)
(* is not the high one (64022.6).  The code publishes the high price as    *)
(* OPEN_PRICE.                                                             *)
(***************************************************************************)
StatisticsTruthful ==
    data \in MarketUpdates =>
        /\ statistics.OPEN_PRICE = data.open
        /\ statistics.HIGHEST_TRADED_PRICE = data.high
        /\ statistics.LOWEST_TRADED_PRICE = data.low
        /\ statistics.CLOSE_PRICE = data.close
        /\ statistics.TRADE_VOLUME = data.volume
=============================================================================
