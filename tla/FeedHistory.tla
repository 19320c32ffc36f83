---------------------------- MODULE FeedHistory ----------------------------
(***************************************************************************)
(* Feed with the history that says which order book of the exchange is the *)
(* one that was published.  The history never keeps a step of Feed from    *)
(* being taken: it only records.                                           *)
(***************************************************************************)
EXTENDS Feed

VARIABLES
    history,    \* history: the order books of the exchange, the present ones last
    versions,   \* history: of each message under way, which of them it leads to
    shown       \* history: of each symbol, which was published last; 0: none

historyVars == <<vars, history, versions, shown>>

HistoryInit ==
    /\ Init
    /\ history = <<exchange>>
    /\ versions = <<>>
    /\ shown = [s \in Symbol |-> 0]

(* A message that is sent leads to the books that there are then.          *)
Stamp(version) ==
    versions' = IF Len(channel') = Len(channel) THEN versions ELSE Append(versions, version)

HistoryNext ==
    \/ Ready /\ UNCHANGED <<history, versions, shown>>
    \/ Disconnected /\ versions' = <<>> /\ UNCHANGED <<history, shown>>
    \/ /\ \E method \in Method, s \in Symbol : ExchangeSubscribe(method, s)
       /\ Stamp(Len(history)) /\ UNCHANGED <<history, shown>>
    \/ /\ \E s \in Symbol, l \in Level, q \in Quantity : ExchangeChange(s, l, q)
       /\ history' = Append(history, exchange')
       /\ Stamp(Len(history')) /\ UNCHANGED shown
    \/ /\ \E s \in Symbol : ExchangeTrade(s)
       /\ Stamp(Len(history)) /\ UNCHANGED <<history, shown>>
    \/ /\ DepthUpdate
       /\ versions' = Tail(versions)
       /\ shown' = [shown EXCEPT ![Head(channel).name] = Head(versions)]
       /\ UNCHANGED history
    \/ TradesUpdate /\ versions' = Tail(versions) /\ UNCHANGED <<history, shown>>

HistorySpec == HistoryInit /\ [][HistoryNext]_historyVars

-----------------------------------------------------------------------------

(***************************************************************************)
(* The handler of the order books implements BookFeed: no interleaving of  *)
(* changes, snapshots, other symbols and reconnects publishes a book that  *)
(* the exchange did not have, or one older than what was published before  *)
(* (market_data.cpp lines 256-307; the books that the dispatcher keeps over*)
(* a reconnect included).                                                  *)
(***************************************************************************)
Published == INSTANCE BookFeed

ImplementsBookFeed == Published!Spec
=============================================================================
