----------------------------- MODULE MarketData -----------------------------
(***************************************************************************)
(* gateway::MarketData (src/roq/whitebit/gateway/market_data.cpp): the web *)
(* socket streams, each of which subscribes to one slice of the symbols.   *)
(* This module has the connection and the subscriptions of the streams.    *)
(*                                                                         *)
(* A stream is a record: link is the state of the (external) web socket    *)
(* client, status is connection_status_, and requested counts how often    *)
(* each symbol was asked for on the present connection.                    *)
(***************************************************************************)
EXTENDS SymbolSlices

CONSTANT Symbol      \* the names of the markets

ASSUME SymbolAssumption == IsFiniteSet(Symbol)

VARIABLES
    symbols,         \* shared_.symbols: the list of all registered symbols
    market_data      \* market_data_: the streams of the controller

Links == {"stopped", "down", "connected", "ready"}
Statuses == {"UNDEFINED", "DISCONNECTED", "READY"}

Stream == [link : Links, status : Statuses, requested : [Symbol -> Nat]]

NotRequested == [s \in Symbol |-> 0]

(* Mutant of Started: the new stream is not dispatched the Start event.    *)
Constructed == [link |-> "stopped", status |-> "UNDEFINED", requested |-> NotRequested]

(* A stream just constructed and started.                                  *)
Started == [link |-> "down", status |-> "UNDEFINED", requested |-> NotRequested]

(* subscribe(span): request each of the five feeds for all of the symbols. *)
Send(stream, slice) ==
    [stream EXCEPT !.requested = [s \in Symbol |-> IF s \in slice THEN @[s] + 1 ELSE @[s]]]

(* Mutant of SubscribeFrom: ready() is not tested.                         *)
SubscribeFromUnready(stream, list, i, start) == Send(stream, GetSlice(list, i, start))

(* subscribe(start_from), given the list of symbols: only a READY stream.  *)
SubscribeFrom(stream, list, i, start) ==
    IF stream.status = "READY" THEN Send(stream, GetSlice(list, i, start)) ELSE stream

(* The exchange forgets the subscriptions of a connection that is gone.    *)
Cut(stream, link, status) ==
    [link |-> link, status |-> status, requested |-> NotRequested]

-----------------------------------------------------------------------------

MarketDataInit == symbols = <<>> /\ market_data = <<>>

(* Connected: the handler does nothing, the web socket handshake begins.   *)
MarketDataConnected(i) ==
    /\ market_data[i].link = "down"
    /\ market_data' = [market_data EXCEPT ![i].link = "connected"]
    /\ UNCHANGED symbols

(* Mutant of MarketDataReady: subscribe before READY is published.         *)
MarketDataReadyLate(i) ==
    /\ market_data[i].link = "connected"
    /\ market_data' = [market_data EXCEPT ![i] =
           [SubscribeFrom(@, symbols, i, 0) EXCEPT !.link = "ready", !.status = "READY"]]
    /\ UNCHANGED symbols

(* Ready: publish READY, subscribe to the whole slice.                     *)
MarketDataReady(i) ==
    /\ market_data[i].link = "connected"
    /\ market_data' = [market_data EXCEPT ![i] =
           SubscribeFrom([@ EXCEPT !.link = "ready", !.status = "READY"], symbols, i, 0)]
    /\ UNCHANGED symbols

(* Mutant of MarketDataDisconnected: the status stays what it was.         *)
MarketDataDisconnectedSilently(i) ==
    /\ market_data[i].link \in {"connected", "ready"}
    /\ market_data' = [market_data EXCEPT ![i] = Cut(@, "down", @.status)]
    /\ UNCHANGED symbols

(* Disconnected: by the exchange, a timeout or a failed handshake.         *)
MarketDataDisconnected(i) ==
    /\ market_data[i].link \in {"connected", "ready"}
    /\ market_data' = [market_data EXCEPT ![i] = Cut(@, "down", "DISCONNECTED")]
    /\ UNCHANGED symbols

(* Stop, dispatched to every stream: the client closes, no handler is run. *)
MarketDataStop ==
    /\ market_data' = [i \in DOMAIN market_data |->
                          Cut(market_data[i], "stopped", market_data[i].status)]
    /\ UNCHANGED symbols

(* Mutant of SymbolsUpdate: "if" for "while", one stream at most is added. *)
SymbolsUpdateOne(new) ==
    /\ symbols' = symbols \o new
    /\ LET size == Size(symbols')
           all  == DOMAIN market_data \cup (IF Len(market_data) < size THEN {size} ELSE {})
       IN  market_data' = [i \in all |->
              IF i \in DOMAIN market_data
              THEN SubscribeFrom(market_data[i], symbols', i, Len(symbols))
              ELSE Started]

(* Mutant of SymbolsUpdate: the slices are counted before the new symbols. *)
SymbolsUpdateEarly(new) ==
    /\ symbols' = symbols \o new
    /\ LET size == Size(symbols)
           all  == DOMAIN market_data \cup 1 .. size
       IN  market_data' = [i \in all |->
              IF i \in DOMAIN market_data
              THEN SubscribeFrom(market_data[i], symbols', i, Len(symbols))
              ELSE Started]

(***************************************************************************)
(* Controller::operator()(SymbolsUpdate) with its loop ensure_symbol_slices*)
(* (controller.cpp lines 166-185): append the new symbols, create and start*)
(* the streams that are missing, and have every stream that is READY       *)
(* subscribe to what was added to its slice.                               *)
(***************************************************************************)
SymbolsUpdate(new) ==
    /\ symbols' = symbols \o new
    /\ LET size == Size(symbols')
           all  == DOMAIN market_data \cup 1 .. size
       IN  market_data' = [i \in all |->
              IF i \in DOMAIN market_data
              THEN SubscribeFrom(market_data[i], symbols', i, Len(symbols))
              ELSE Started]
=============================================================================
