---------------------------- MODULE Subscriptions ----------------------------
(***************************************************************************)
(* The requests by which the market-data streams subscribe to their feeds  *)
(* (gateway/market_data.cpp lines 163-167, 180-184, 219-228 and 407-454):  *)
(* what is sent, under which id, and what becomes of it.  MarketData has   *)
(* the same streams with the requests left out.                            *)
(*                                                                         *)
(* External: the exchange, which handles the requests of a connection in   *)
(* the order of their ids, accepts or refuses each, and forgets all of     *)
(* them with the connection.                                               *)
(***************************************************************************)
EXTENDS SymbolSlices

CONSTANTS
    Symbol,
    REQUEST_ID,       \* the ids that each stream has for itself: 1 000 000
    REPLACES,         \* external: the methods of which a request replaces what
                      \*   there is, unless it is "added"
    MaxConnections    \* bound on the connections of a stream

ASSUME SymbolAssumption == IsFiniteSet(Symbol)
ASSUME RequestIdAssumption == REQUEST_ID \in Nat \ {0}

VARIABLES
    symbols,          \* shared_.symbols
    streams           \* market_data_: see Stream

Method == {"bookTicker", "depth", "trades", "market", "marketToday"}

ASSUME ReplacesAssumption == REPLACES \subseteq Method

(* added: the last parameter of a depth request; the others have none.     *)
Request == [id : Nat, method : Method, symbols : SUBSET Symbol, added : BOOLEAN]

Feed == Method \X Symbol

(* A stream; connections, under way (sent) and what the exchange made of   *)
(* the requests of this connection are external.  History: since, from     *)
(* which position of the list on the stream has subscribed last.           *)
Stream == [ready : BOOLEAN, request_id : Nat, since : Nat, connections : Nat,
           sent : SUBSET Request, live : SUBSET Feed, refused : SUBSET Feed]

Streams == DOMAIN streams

(* The first stream_id of the controller is the one of the REST stream.    *)
StreamId(i) == i + 1

(* Mutant of Constructed: the ids of each stream begin in the same place.  *)
ConstructedAlike(i) ==
    [ready |-> FALSE, request_id |-> REQUEST_ID, since |-> 0, connections |-> 0,
     sent |-> {}, live |-> {}, refused |-> {}]

(* The constructor of stream i.                                            *)
Constructed(i) ==
    [ready |-> FALSE, request_id |-> StreamId(i) * REQUEST_ID, since |-> 0, connections |-> 0,
     sent |-> {}, live |-> {}, refused |-> {}]

-----------------------------------------------------------------------------
(* subscribe(...): the symbols in the positions first .. last of list are  *)
(* asked for by one request per method, and one per symbol for the depth.  *)

(* Mutant of Requests: a depth request is not added to the ones before it. *)
RequestsNotAdded(id, list, first, last) ==
    LET n == last - first + 1
        Listing(k, method) ==
            [id |-> id + k, method |-> method, symbols |-> {list[p] : p \in first .. last}, added |-> FALSE]
        Depth(p) ==
            [id |-> id + 2 + p - first, method |-> "depth", symbols |-> {list[p]}, added |-> FALSE]
    IN  {Listing(1, "bookTicker"), Listing(n + 2, "trades"),
         Listing(n + 3, "market"), Listing(n + 4, "marketToday")} \cup {Depth(p) : p \in first .. last}

(* Mutant of Requests: the trades are asked for one symbol at a time, too. *)
RequestsTradesEach(id, list, first, last) ==
    LET n == last - first + 1
        Listing(k, method) ==
            [id |-> id + k, method |-> method, symbols |-> {list[p] : p \in first .. last}, added |-> FALSE]
        Each(k, method) ==
            {[id |-> id + k + p - first, method |-> method, symbols |-> {list[p]}, added |-> method = "depth"] :
                p \in first .. last}
    IN  {Listing(1, "bookTicker"), Listing(n + 3, "market"), Listing(n + 4, "marketToday")}
            \cup Each(2, "depth") \cup Each(n + 2, "trades")

Requests(id, list, first, last) ==
    LET n == last - first + 1
        Listing(k, method) ==
            [id |-> id + k, method |-> method, symbols |-> {list[p] : p \in first .. last}, added |-> FALSE]
        Depth(p) ==
            [id |-> id + 2 + p - first, method |-> "depth", symbols |-> {list[p]}, added |-> TRUE]
    IN  {Listing(1, "bookTicker"), Listing(n + 2, "trades"),
         Listing(n + 3, "market"), Listing(n + 4, "marketToday")} \cup {Depth(p) : p \in first .. last}

(* Mutant of First: start_from counts from the beginning of the slice.     *)
FirstWithin(i, start) == (i - 1) * MaxPerStream + start + 1

(* Mutant of Last: the span goes on beyond the slice.                      *)
LastUncut(list, i) == Len(list)

(* What get_slice(index_, start) spans: positions of the list.             *)
First(i, start) == IF start > (i - 1) * MaxPerStream THEN start + 1 ELSE (i - 1) * MaxPerStream + 1
Last(list, i) == IF Len(list) < i * MaxPerStream THEN Len(list) ELSE i * MaxPerStream

(* subscribe(start_from): only when READY, only if there is something.     *)
SubscribeFrom(stream, list, i, start) ==
    LET first == First(i, start)
        last == Last(list, i)
    IN  IF stream.ready /\ first <= last
        THEN [stream EXCEPT !.request_id = @ + last - first + 5, !.since = start,
                            !.sent = @ \cup Requests(stream.request_id, list, first, last)]
        ELSE stream

-----------------------------------------------------------------------------

Init == symbols = <<>> /\ streams = <<>>

(* SymbolsUpdate: new symbols are appended, streams that are missing are   *)
(* constructed, and the others subscribe to what was added to their slice. *)
SymbolsUpdate(new) ==
    /\ symbols' = symbols \o new
    /\ streams' = [i \in Streams \cup 1 .. Size(symbols') |->
                      IF i \in Streams THEN SubscribeFrom(streams[i], symbols', i, Len(symbols))
                                       ELSE Constructed(i)]

(* A new connection.                                                       *)
Up(stream) == [stream EXCEPT !.ready = TRUE, !.connections = @ + 1]

(* Ready: subscribe to the whole slice.                                    *)
Ready(i) ==
    /\ ~streams[i].ready
    /\ streams' = [streams EXCEPT ![i] = SubscribeFrom(Up(@), symbols, i, 0)]
    /\ UNCHANGED symbols

(* Mutant of Disconnected: the next connection counts from the start.      *)
DisconnectedReset(i) ==
    /\ streams[i].ready
    /\ streams[i].connections < MaxConnections
    /\ streams' = [streams EXCEPT ![i] = [Constructed(i) EXCEPT !.connections = streams[i].connections]]
    /\ UNCHANGED symbols

(* Disconnected: request_id_ goes on from where it is.                     *)
Disconnected(i) ==
    /\ streams[i].ready
    /\ streams[i].connections < MaxConnections
    /\ streams' = [streams EXCEPT ![i] =
           [@ EXCEPT !.ready = FALSE, !.sent = {}, !.live = {}, !.refused = {}]]
    /\ UNCHANGED symbols

(* What the exchange has live once it has accepted a request.              *)
Accepted(live, r) ==
    (IF r.method \in REPLACES /\ ~r.added THEN {f \in live : f[1] # r.method} ELSE live)
        \cup ({r.method} \X r.symbols)

(* Mutant of Answered: the symbols for the feeds that were refused.        *)
AnsweredBySymbol(stream, r, accepted) ==
    IF accepted
    THEN [stream EXCEPT !.sent = @ \ {r}, !.live = Accepted(@, r)]
    ELSE [stream EXCEPT !.sent = @ \ {r}, !.refused = @ \cup r.symbols]

Answered(stream, r, accepted) ==
    IF accepted
    THEN [stream EXCEPT !.sent = @ \ {r}, !.live = Accepted(@, r)]
    ELSE [stream EXCEPT !.sent = @ \ {r}, !.refused = @ \cup ({r.method} \X r.symbols)]

(* Response to the oldest request: an error is logged, and that is all.    *)
Response(i, accepted) ==
    \E r \in streams[i].sent :
        /\ \A other \in streams[i].sent : r.id <= other.id
        /\ streams' = [streams EXCEPT ![i] = Answered(@, r, accepted)]
        /\ UNCHANGED symbols

Next ==
    \/ \E S \in (SUBSET (Symbol \ Range(symbols))) \ {{}} :
          \E new \in Orders(S) : SymbolsUpdate(new)
    \/ \E i \in Streams :
          \/ Ready(i)
          \/ Disconnected(i)
          \/ \E accepted \in BOOLEAN : Response(i, accepted)

vars == <<symbols, streams>>

Spec == Init /\ [][Next]_vars

-----------------------------------------------------------------------------

(* Type invariant of the subscriptions. *)
TypeOK ==
    /\ symbols \in Seq(Symbol)
    /\ streams \in Seq(Stream)

(***************************************************************************)
(* An id under way tells the request: no two requests of a stream have the *)
(* same id, and none has the id of a request of another stream, as long as *)
(* the stream before has not used up its REQUEST_ID ids (line 84).         *)
(***************************************************************************)
IdsDistinct ==
    \A i, j \in Streams : \A r \in streams[i].sent, q \in streams[j].sent :
        /\ r.id = q.id
        /\ i <= j
        /\ i < j => streams[i].request_id <= (StreamId(i) + 1) * REQUEST_ID
        => i = j /\ r = q

(***************************************************************************)
(* Each stream never uses an id again: an answer to a request of an earlier*)
(* connection cannot be taken for one of this connection.                  *)
(***************************************************************************)
IdsNotReused ==
    [][\A i \in Streams :
          /\ streams[i].request_id <= streams'[i].request_id
          /\ \A r \in streams'[i].sent \ streams[i].sent :
                streams[i].request_id < r.id /\ r.id <= streams'[i].request_id]_vars

Pending(i) == UNION {{r.method} \X r.symbols : r \in streams[i].sent}

(* What the exchange has, was asked for, or has refused on this connection.*)
Requested(i, method, s) == <<method, s>> \in streams[i].live \cup streams[i].refused \cup Pending(i)

(* A method whose feeds the exchange does not drop for a later request.    *)
Kept(method) == method = "depth" \/ method \notin REPLACES

(* The symbols of the slice for which a stream can count on a method: all, *)
(* or those that it has subscribed last, where each request replaces the   *)
(* one before.                                                             *)
Lasting(i, method) == GetSlice(symbols, i, IF Kept(method) THEN 0 ELSE streams[i].since)

(***************************************************************************)
(* While a stream is READY, the depth and each other method of which the   *)
(* exchange adds up the requests is live, asked for, or was refused on this*)
(* very connection for each symbol of the slice; registrations, reconnects *)
(* and answers in any order lose none.  A method of which a request        *)
(* replaces the one before is so for the symbols subscribed last only:     *)
(* all of the slice until a registration adds to it, then just those added,*)
(* and the feeds of the older ones are lost (lines 163-167, 180-184,       *)
(* 219-228).  What was refused is asked for again with the next connection.*)
(***************************************************************************)
FeedsServed ==
    \A i \in Streams : streams[i].ready =>
        \A method \in Method : \A s \in Lasting(i, method) : Requested(i, method, s)

-----------------------------------------------------------------------------

(* A symbol of which a stream has each feed that is kept, or asked for it, *)
(* or was refused it on this very connection.                              *)
InService(i, s) == \A method \in Method : Kept(method) => Requested(i, method, s)

(* The state that SymbolFeed speaks of.                                    *)
Assigned == [s \in Range(symbols) |-> StreamOf(symbols, s)]
StreamsUp == {i \in Streams : streams[i].ready}
SymbolsServed == {s \in Symbol : \E i \in Streams : InService(i, s)}

(***************************************************************************)
(* The requests that the streams send implement SymbolFeed: whatever is    *)
(* registered, lost or answered, a symbol is in service on the one stream  *)
(* that it is given to, from the moment this is READY or the symbol is     *)
(* registered, and on no other stream (lines 163-167, 180-184, 407-454).   *)
(* In service are feeds asked for or refused, too; and nothing is said of  *)
(* the methods that the exchange replaces, see FeedsServed.                *)
(***************************************************************************)
Promise == INSTANCE SymbolFeed WITH assigned <- Assigned, up <- StreamsUp, live <- SymbolsServed

ImplementsPromise == Promise!Spec
=============================================================================
