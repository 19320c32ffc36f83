------------------------------ MODULE Gateway -------------------------------
(***************************************************************************)
(* The gateway: gateway::Controller (gateway/controller.cpp) with its REST *)
(* stream (Rest), its market-data streams (MarketData) and the state they  *)
(* share (gateway/shared.hpp).  Everything runs on one thread, so each     *)
(* event of a connection, of the server or of the timer is one step.       *)
(***************************************************************************)
EXTENDS Rest, MarketData

CONSTANT Discarded   \* the symbols that dispatcher.discard_symbol filters out

ASSUME DiscardedAssumption == Discarded \subseteq Symbol

VARIABLES
    all_symbols,       \* shared_.all_symbols: what was ever seen
    thrown             \* history: the symbols seen by processing that threw

sharedVars == <<symbols, all_symbols, thrown>>
vars == <<restVars, sharedVars, market_data>>

(* A stream: its place in market_data_ is the index_ of its slice.         *)
Streams == DOMAIN market_data

-----------------------------------------------------------------------------

Init ==
    /\ RestInit
    /\ MarketDataInit
    /\ all_symbols = {}
    /\ thrown = {}

Start ==
    /\ RestStart
    /\ UNCHANGED <<sharedVars, market_data>>

Stop ==
    /\ RestStop
    /\ MarketDataStop
    /\ UNCHANGED <<all_symbols, thrown>>

(* Mutant of Subscribe: symbols that were seen before are added again.     *)
SubscribeAll(names) ==
    /\ Running
    /\ all_symbols' = all_symbols \cup names
    /\ \E new \in Orders(names) : SymbolsUpdate(new)
    /\ UNCHANGED <<restVars, thrown>>

(* Event<Subscribe>: symbols a client asks for; the ones seen before are   *)
(* only warned about, and the update is sent even if none is left.         *)
Subscribe(names) ==
    /\ Running
    /\ all_symbols' = all_symbols \cup names
    /\ \E new \in Orders(names \ all_symbols) : SymbolsUpdate(new)
    /\ UNCHANGED <<restVars, thrown>>

(* Mutant of MarketInfoAck: each download adds all that it lists.          *)
MarketInfoAckAll(sequence, listed) ==
    LET admitted == listed \ Discarded
    IN  /\ MarketInfoProcessed(sequence)
        /\ all_symbols' = all_symbols \cup admitted
        /\ \E new \in Orders(admitted) :
              IF new = <<>> THEN UNCHANGED <<symbols, market_data>>
                            ELSE SymbolsUpdate(new)
        /\ UNCHANGED thrown

(* Mutant of MarketInfoAck: recorded as seen before it is discarded.       *)
MarketInfoAckRecordsDiscarded(sequence, listed) ==
    LET admitted == listed \ Discarded
    IN  /\ MarketInfoProcessed(sequence)
        /\ all_symbols' = all_symbols \cup listed
        /\ \E new \in Orders(admitted \ all_symbols) :
              IF new = <<>> THEN UNCHANGED <<symbols, market_data>>
                            ELSE SymbolsUpdate(new)
        /\ UNCHANGED thrown

(* The market info lists some symbols: register those that are not seen    *)
(* before and not discarded, and send the update if there are any.         *)
MarketInfoAck(sequence, listed) ==
    LET admitted == listed \ Discarded
    IN  /\ MarketInfoProcessed(sequence)
        /\ all_symbols' = all_symbols \cup admitted
        /\ \E new \in Orders(admitted \ all_symbols) :
              IF new = <<>> THEN UNCHANGED <<symbols, market_data>>
                            ELSE SymbolsUpdate(new)
        /\ UNCHANGED thrown

(* ... and the loop over its items throws after some of them (a dispatcher *)
(* that rejects the reference data of an item, say): they are in           *)
(* all_symbols already, but no update is sent.  Exceptions while the update*)
(* is dispatched (line 300) are left out.                                  *)
MarketInfoAckThrows(sequence, done) ==
    /\ MarketInfoThrows(sequence)
    /\ all_symbols' = all_symbols \cup (done \ Discarded)
    /\ thrown' = thrown \cup ((done \ Discarded) \ all_symbols)
    /\ UNCHANGED <<symbols, market_data>>

(* The rest of what happens to the REST stream has no effect outside it.   *)
RestStep ==
    /\ \/ RestConnected
       \/ RestDisconnected
       \/ DownloadRetry
       \/ \E sequence \in Sequences :
             \/ MarketInfoError(sequence)
             \/ MarketInfoRedirected(sequence)
             \/ MarketInfoSkipped(sequence)
    /\ UNCHANGED <<sharedVars, market_data>>

Connected(i)    == Running /\ MarketDataConnected(i)    /\ UNCHANGED <<restVars, all_symbols, thrown>>
Ready(i)        == Running /\ MarketDataReady(i)        /\ UNCHANGED <<restVars, all_symbols, thrown>>
Disconnected(i) == Running /\ MarketDataDisconnected(i) /\ UNCHANGED <<restVars, all_symbols, thrown>>

Next ==
    \/ Start
    \/ Stop
    \/ \E names \in SUBSET Symbol : Subscribe(names)
    \/ \E sequence \in Sequences, listed \in SUBSET Symbol :
          \/ MarketInfoAck(sequence, listed)
          \/ MarketInfoAckThrows(sequence, listed)
    \/ RestStep
    \/ \E i \in Streams : Connected(i) \/ Ready(i) \/ Disconnected(i)

Spec == Init /\ [][Next]_vars

(***************************************************************************)
(* Fairness: the web socket client reconnects (always_reconnect = true,    *)
(* market_data.cpp line 60), and of infinitely many handshakes one is      *)
(* completed.  Index i ranges over what the number of streams can reach.   *)
(***************************************************************************)
Fairness ==
    \A i \in 1 .. Cardinality(Symbol) :
        /\ WF_vars(i \in Streams /\ Connected(i))
        /\ SF_vars(i \in Streams /\ Ready(i))

FairSpec == Spec /\ Fairness

-----------------------------------------------------------------------------

(* Type invariant of the state the controller and its streams share.       *)
TypeOK ==
    /\ RestTypeOK
    /\ symbols \in Seq(Symbol)
    /\ market_data \in Seq(Stream)
    /\ all_symbols \subseteq Symbol /\ thrown \subseteq Symbol

(***************************************************************************)
(* The list of symbols names no symbol twice, so no two streams compete for*)
(* one, and every name in it was recorded in all_symbols.  Clients         *)
(* (controller.cpp line 97) and each round of the download (rest.cpp line  *)
(* 291) add to both, in any order, and discover the same symbols.          *)
(***************************************************************************)
SymbolsDistinct ==
    /\ IsInjective(symbols)
    /\ Range(symbols) \subseteq all_symbols

(***************************************************************************)
(* No symbol that was recorded as seen is missing from the list, but for   *)
(* those that a round of the download saw before it threw: the next        *)
(* discovery leaves it out ("only include new"), so it would never be      *)
(* subscribed (rest.cpp lines 291-301, controller.cpp lines 97-102).       *)
(***************************************************************************)
NoSymbolForgotten == all_symbols \subseteq Range(symbols) \cup thrown

(* Every registered symbol has the stream of its slice, and there is no    *)
(* stream without a symbol (ensure_symbol_slices, controller.cpp line 178).*)
EverySymbolHasStream == Streams = {SliceOf(p) : p \in DOMAIN symbols}

(***************************************************************************)
(* The symbols of a slice are requested exactly once on a connection that  *)
(* is ready, others never, and nothing is sent on any other connection:    *)
(* whether the symbol was registered before the stream was created, while  *)
(* it was down or connecting, or after it was READY, and after any number  *)
(* of reconnects (market_data.cpp lines 163-184, controller.cpp 170-172).  *)
(***************************************************************************)
SubscribedExactlyOnce ==
    \A i \in Streams, s \in Symbol :
        market_data[i].requested[s] =
            IF market_data[i].link = "ready" /\ s \in GetSlice(symbols, i, 0) THEN 1 ELSE 0

(***************************************************************************)
(* index.rst line 466: "API market data subscription requires re-          *)
(* subscription of all symbols": a stream that is up and asks for symbols  *)
(* asks for all the symbols of its slice.  The code asks for the new ones. *)
(***************************************************************************)
ResubscribesAll ==
    [][\A i \in Streams, s \in Symbol :
          LET before == market_data[i].requested
              after  == market_data'[i].requested
          IN  /\ market_data'[i].link = "ready"
              /\ before # after
              /\ s \in GetSlice(symbols', i, 0)
              => after[s] > before[s]]_vars

(* A symbol is served: it was requested on a stream that is up.            *)
Served(s) == \E i \in Streams : market_data[i].link = "ready" /\ market_data[i].requested[s] > 0

(* Every symbol that is registered is served in the end, and again after   *)
(* each disconnect, unless the gateway is stopped.                         *)
EventuallyServed ==
    \A s \in Symbol : s \in Range(symbols) ~> Served(s) \/ ~Running

-----------------------------------------------------------------------------

(* The state that SymbolFeed speaks of.                                    *)
Assigned == [s \in Range(symbols) |-> StreamOf(symbols, s)]
StreamsUp == {i \in Streams : market_data[i].link = "ready"}
Live == {s \in Symbol : \E i \in Streams : market_data[i].requested[s] > 0}

(***************************************************************************)
(* The gateway implements SymbolFeed: each handler of a stream, and each   *)
(* discovery of symbols, moves the subscriptions as promised there.        *)
(***************************************************************************)
Feed == INSTANCE SymbolFeed WITH assigned <- Assigned, up <- StreamsUp, live <- Live

ImplementsFeed == Feed!Spec
=============================================================================
