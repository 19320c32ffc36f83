-------------------------------- MODULE Feed --------------------------------
(***************************************************************************)
(* What the market-data handlers publish (market_data.cpp lines 256-344)   *)
(* from what the exchange sends on one web socket stream: order books and  *)
(* trades.  The streams share the buffers of Shared and handle one message *)
(* at a time: one stream stands for all.                                   *)
(*                                                                         *)
(* External: the exchange, which answers each subscription by a snapshot   *)
(* and sends changes from then on; the dispatcher, which applies the order *)
(* books, refuses a change of a book that it does not have (BadState) and  *)
(* may or may not drop the books of a stream that is disconnected.         *)
(***************************************************************************)
EXTENDS Integers, Sequences, FiniteSets, Functions

CONSTANTS
    Symbol,
    Level,            \* a price on one side of the book
    Quantity,         \* quantities of a level, 0 when it is gone
    MaxChannel,       \* bound on the messages under way
    MaxConnections,   \* bound on the connections
    MaxChanges        \* bound on the changes of books and on the trades

ASSUME QuantityAssumption == Quantity \subseteq Nat /\ 0 \in Quantity
ASSUME BoundsAssumption == {MaxChannel, MaxConnections, MaxChanges} \subseteq Nat

VARIABLES
    process,       \* "running" or "terminated" (log::fatal)
    ready,         \* is the stream READY?
    connections,   \* the number of connections so far
    requested,     \* external: the subscriptions <<method, symbol>> not answered yet
    subscribed,    \* external: those that were answered by a snapshot
    channel,       \* external: the messages under way
    exchange,      \* external: the order books of the exchange
    traded,        \* external: the symbols of the trades, by their id
    changes,       \* the number of changes of the books so far
    levels,        \* shared_.bids and shared_.asks
    books,         \* external: the dispatcher's order books
    published      \* history: the trades that were published, <<symbol, id>>

feedVars == <<process, ready, connections, requested, subscribed, channel>>
vars == <<feedVars, exchange, traded, changes, levels, books, published>>

Running == process = "running"

Method == {"depth", "trades"}

EmptyBook == [l \in Level |-> 0]

Depth(symbol, snapshot, update) ==
    [method |-> "depth", name |-> symbol, snapshot |-> snapshot, levels |-> update]

Trades(symbol, ids) == [method |-> "trades", name |-> symbol, ids |-> ids]

-----------------------------------------------------------------------------

Init ==
    /\ process = "running"
    /\ ready = FALSE
    /\ connections = 0
    /\ requested = {} /\ subscribed = {}
    /\ channel = <<>>
    /\ exchange = [s \in Symbol |-> EmptyBook]
    /\ traded = <<>>
    /\ changes = 0
    /\ levels = << >>
    /\ books = << >>
    /\ published = <<>>

(* Ready: the stream subscribes to both feeds for all of its symbols.      *)
Ready ==
    /\ Running /\ ~ready
    /\ connections < MaxConnections
    /\ ready' = TRUE
    /\ connections' = connections + 1
    /\ requested' = Method \X Symbol
    /\ UNCHANGED <<process, subscribed, channel, exchange, traded, changes, levels, books, published>>

(* Disconnected: what is under way is lost; the dispatcher may keep the    *)
(* books or drop them.                                                     *)
Disconnected ==
    /\ Running /\ ready
    /\ ready' = FALSE
    /\ requested' = {} /\ subscribed' = {}
    /\ channel' = <<>>
    /\ books' \in {books, << >>}
    /\ UNCHANGED <<process, connections, exchange, traded, changes, levels, published>>

-----------------------------------------------------------------------------
(* The exchange *)

Send(m) == channel' = Append(channel, m) /\ Len(channel) < MaxChannel

TradesOf(s) == {id \in DOMAIN traded : traded[id] = s}

(* The levels with a quantity, or all trades, in some order.               *)
Snapshots(method, s) ==
    IF method = "depth"
    THEN {Depth(s, TRUE, Restrict(exchange[s], {l \in Level : exchange[s][l] # 0}))}
    ELSE {Trades(s, ids) : ids \in {o \in [1 .. Cardinality(TradesOf(s)) -> TradesOf(s)] :
                                        Range(o) = TradesOf(s)}}

ExchangeSubscribe(method, s) ==
    /\ <<method, s>> \in requested
    /\ requested' = requested \ {<<method, s>>}
    /\ subscribed' = subscribed \cup {<<method, s>>}
    /\ \E m \in Snapshots(method, s) : Send(m)
    /\ UNCHANGED <<process, ready, connections, exchange, traded, changes, levels, books, published>>

ExchangeChange(s, l, q) ==
    /\ changes < MaxChanges
    /\ q # exchange[s][l]
    /\ changes' = changes + 1
    /\ exchange' = [exchange EXCEPT ![s][l] = q]
    /\ IF <<"depth", s>> \in subscribed THEN Send(Depth(s, FALSE, [k \in {l} |-> q]))
                                       ELSE UNCHANGED channel
    /\ UNCHANGED <<process, ready, connections, requested, subscribed, traded, levels, books, published>>

ExchangeTrade(s) ==
    /\ Len(traded) < MaxChanges
    /\ traded' = Append(traded, s)
    /\ IF <<"trades", s>> \in subscribed THEN Send(Trades(s, <<Len(traded')>>))
                                        ELSE UNCHANGED channel
    /\ UNCHANGED <<process, ready, connections, requested, subscribed, exchange, changes, levels, books, published>>

-----------------------------------------------------------------------------
(* The handlers *)

Receive(method) ==
    /\ Running /\ ready
    /\ channel # <<>>
    /\ Head(channel).method = method
    /\ channel' = Tail(channel)

(* External: the dispatcher's book after an update.                        *)
Applied(book, snapshot, update) ==
    [l \in Level |-> IF l \in DOMAIN update THEN update[l] ELSE IF snapshot THEN 0 ELSE book[l]]

(* Mutant of Publish: each update is INCREMENTAL.                          *)
PublishIncremental(name, snapshot, update) ==
    IF name \in DOMAIN books
    THEN /\ books' = [books EXCEPT ![name] = Applied(@, FALSE, update)]
         /\ UNCHANGED process
    ELSE process' = "terminated" /\ UNCHANGED books

(* Mutant of Publish: a snapshot of a book that is there is laid over it.  *)
PublishMerged(name, snapshot, update) ==
    IF snapshot \/ name \in DOMAIN books
    THEN /\ books' = [s \in DOMAIN books \cup {name} |->
                         IF s # name THEN books[s]
                         ELSE Applied(IF s \in DOMAIN books THEN books[s] ELSE EmptyBook, FALSE, update)]
         /\ UNCHANGED process
    ELSE process' = "terminated" /\ UNCHANGED books

(* The dispatch of MarketByPriceUpdate: BadState is fatal.                 *)
Publish(name, snapshot, update) ==
    IF snapshot \/ name \in DOMAIN books
    THEN /\ books' = [s \in DOMAIN books \cup {name} |->
                         IF s # name THEN books[s]
                         ELSE Applied(IF snapshot THEN EmptyBook ELSE books[s], snapshot, update)]
         /\ UNCHANGED process
    ELSE process' = "terminated" /\ UNCHANGED books

(* Mutant of DepthUpdate: the shared buffers are not cleared.              *)
DepthUpdateUncleared ==
    /\ Receive("depth")
    /\ LET m == Head(channel)
           all == DOMAIN m.levels \cup DOMAIN levels
       IN  /\ levels' = [l \in all |-> IF l \in DOMAIN m.levels THEN m.levels[l] ELSE levels[l]]
           /\ Publish(m.name, m.snapshot, levels')
    /\ UNCHANGED <<ready, connections, requested, subscribed, exchange, traded, changes, published>>

DepthUpdate ==
    /\ Receive("depth")
    /\ LET m == Head(channel)
       IN  /\ levels' = m.levels
           /\ Publish(m.name, m.snapshot, levels')
    /\ UNCHANGED <<ready, connections, requested, subscribed, exchange, traded, changes, published>>

(* Mutant of TradesUpdate: the position in the message for the id.         *)
TradesUpdateIndexed ==
    /\ Receive("trades")
    /\ LET m == Head(channel)
       IN  published' = published \o [k \in DOMAIN m.ids |-> <<m.name, k - 1>>]
    /\ UNCHANGED <<process, ready, connections, requested, subscribed, exchange, traded, changes, levels, books>>

(* Mutant of TradesUpdate: what looks like a snapshot is dropped.          *)
TradesUpdateDropped ==
    /\ Receive("trades")
    /\ LET m == Head(channel)
       IN  published' = IF Len(m.ids) > 1 THEN published
                        ELSE published \o [k \in DOMAIN m.ids |-> <<m.name, m.ids[k]>>]
    /\ UNCHANGED <<process, ready, connections, requested, subscribed, exchange, traded, changes, levels, books>>

(* Trades are published as they come, if there are any.  Their buffer is   *)
(* cleared before and after, so that nothing is left in it.                *)
TradesUpdate ==
    /\ Receive("trades")
    /\ LET m == Head(channel)
       IN  published' = published \o [k \in DOMAIN m.ids |-> <<m.name, m.ids[k]>>]
    /\ UNCHANGED <<process, ready, connections, requested, subscribed, exchange, traded, changes, levels, books>>

Next ==
    \/ Ready
    \/ Disconnected
    \/ \E method \in Method, s \in Symbol : ExchangeSubscribe(method, s)
    \/ \E s \in Symbol, l \in Level, q \in Quantity : ExchangeChange(s, l, q)
    \/ \E s \in Symbol : ExchangeTrade(s)
    \/ DepthUpdate
    \/ TradesUpdate

Spec == Init /\ [][Next]_vars

-----------------------------------------------------------------------------

Book == [Level -> Quantity]
Update == UNION {[told -> Quantity] : told \in SUBSET Level}

Message ==
    [method : {"depth"}, name : Symbol, snapshot : BOOLEAN, levels : Update]
    \cup [method : {"trades"}, name : Symbol, ids : Seq(1 .. MaxChanges)]

(* Type invariant of the feed. *)
TypeOK ==
    /\ process \in {"running", "terminated"}
    /\ ready \in BOOLEAN
    /\ connections \in Nat /\ changes \in Nat
    /\ requested \cup subscribed \subseteq Method \X Symbol
    /\ channel \in Seq(Message)
    /\ exchange \in [Symbol -> Book]
    /\ traded \in Seq(Symbol) /\ Len(traded) <= MaxChanges
    /\ levels \in Update
    /\ DOMAIN books \subseteq Symbol
    /\ \A s \in DOMAIN books : books[s] \in Book
    /\ published \in Seq(Symbol \X (1 .. MaxChanges))

(* What a message tells of a level; a snapshot tells of all.               *)
Tells(m, s, l) ==
    /\ m.method = "depth" /\ m.name = s
    /\ m.snapshot \/ l \in DOMAIN m.levels

Told(m, l) == IF l \in DOMAIN m.levels THEN m.levels[l] ELSE 0

(***************************************************************************)
(* The published book is the exchange's but for what is under way: levels  *)
(* of one symbol do not get into the book of another through the shared    *)
(* buffers, and a book kept over a reconnect holds no level that is gone   *)
(* (market_data.cpp lines 274-281, 282-287).                               *)
(***************************************************************************)
BooksConverge ==
    Running => \A s \in Symbol, l \in Level : <<"depth", s>> \in subscribed =>
        /\ \A p \in DOMAIN channel :
              Tells(channel[p], s, l) /\ (\A q \in DOMAIN channel : q > p => ~Tells(channel[q], s, l))
              => Told(channel[p], l) = exchange[s][l]
        /\ (\A p \in DOMAIN channel : ~Tells(channel[p], s, l))
              => s \in DOMAIN books /\ books[s][l] = exchange[s][l]

(***************************************************************************)
(* log::fatal("HERE") (line 303) is not reached: the dispatcher has a book *)
(* before the first change of it is published, on each connection, if the  *)
(* exchange begins each subscription with a snapshot.                      *)
(***************************************************************************)
NeverBadState == process # "terminated"

Delivers(m, s, id) == m.method = "trades" /\ m.name = s /\ id \in Range(m.ids)

(***************************************************************************)
(* Each trade of a symbol is published, or under way, while the symbol is  *)
(* subscribed, also one made during an outage, and each under its symbol:  *)
(* the snapshot cannot just be dropped (lines 308-344).                    *)
(***************************************************************************)
TradesDelivered ==
    /\ \A s \in Symbol : <<"trades", s>> \in subscribed =>
          \A id \in TradesOf(s) :
              <<s, id>> \in Range(published) \/ \E p \in DOMAIN channel : Delivers(channel[p], s, id)
    /\ \A trade \in Range(published) : trade[2] \in TradesOf(trade[1])

(***************************************************************************)
(* The comment at line 308, "drop snapshot": the trades in the snapshot    *)
(* after a reconnect were published before.  The code publishes them again.*)
(***************************************************************************)
TradesPublishedOnce == IsInjective(published)
=============================================================================
