------------------------- MODULE SubscriptionsProofs -------------------------
(***************************************************************************)
(* Proofs about the subscriptions, for every set of symbols, every size of *)
(* the slices, every range of ids, and an exchange that does or does not   *)
(* replace what was subscribed before.                                     *)
(***************************************************************************)
EXTENDS Subscriptions, SliceProofs

USE MaxPerStreamAssumption, RequestIdAssumption, ReplacesAssumption

(* The ids of a stream are those between its start and its counter, and    *)
(* one id is one request.                                                  *)
IdsInRange(i, stream) ==
    /\ StreamId(i) * REQUEST_ID <= stream.request_id
    /\ \A r \in stream.sent :
          StreamId(i) * REQUEST_ID < r.id /\ r.id <= stream.request_id
    /\ \A r, q \in stream.sent : r.id = q.id => r = q

(* Only a stream that is READY has requests under way; the depth requests  *)
(* are added.                                                              *)
SentSensible(stream) ==
    /\ ~stream.ready => stream.sent = {}
    /\ \A r \in stream.sent : r.method = "depth" => r.added

(* A feed of a stream is live, refused or asked for.                       *)
Served(stream, feed) ==
    \/ feed \in stream.live
    \/ feed \in stream.refused
    \/ \E r \in stream.sent : feed[1] = r.method /\ feed[2] \in r.symbols

SliceServed(stream, slice) ==
    stream.ready =>
        \A method \in Method, s \in slice : Kept(method) => Served(stream, <<method, s>>)

(* A stream has to do with the symbols of its slice only, and with none as *)
(* long as it is not READY.                                                *)
OwnFeeds(stream, slice) ==
    /\ ~stream.ready => stream.sent = {} /\ stream.live = {} /\ stream.refused = {}
    /\ \A f \in stream.live \cup stream.refused : f[2] \in slice
    /\ \A r \in stream.sent : r.symbols \subseteq slice

(* The last request of a method but the depth has not been undone: it is   *)
(* under way with none after it, or was refused, or is live with none under*)
(* way that would replace it.                                              *)
LastServed(stream, slice) ==
    stream.ready =>
        \A method \in Method \ {"depth"}, s \in slice :
            \/ <<method, s>> \in stream.refused
            \/ <<method, s>> \in stream.live /\ \A q \in stream.sent : q.method # method
            \/ \E r \in stream.sent :
                  /\ r.method = method /\ s \in r.symbols
                  /\ \A q \in stream.sent : q.method = method => q.id <= r.id

StreamInv(i, stream, list) ==
    /\ IdsInRange(i, stream) /\ SentSensible(stream)
    /\ SliceServed(stream, GetSlice(list, i, 0)) /\ OwnFeeds(stream, GetSlice(list, i, 0))
    /\ LastServed(stream, GetSlice(list, i, stream.since))

(* There is no stream without a symbol.                                    *)
SlicesFilled == \A i \in Streams : \E p \in DOMAIN symbols : SliceOf(p) = i

(* The inductive invariant.                                                *)
IInv ==
    /\ TypeOK
    /\ IsInjective(symbols)
    /\ SlicesFilled
    /\ \A i \in Streams : StreamInv(i, streams[i], symbols)

-----------------------------------------------------------------------------
(* Slices *)

(* get_slice spans the positions First .. Last.                            *)
LEMMA SliceSpan ==
  ASSUME NEW list \in Seq(Symbol), NEW i \in Nat \ {0}, NEW start \in Nat
  PROVE  /\ First(i, start) \in Nat \ {0}
         /\ Last(list, i) \in Nat
         /\ Last(list, i) <= Len(list)
         /\ GetSlice(list, i, start) = {list[p] : p \in First(i, start) .. Last(list, i)}
<1>0. Len(list) \in Nat /\ DOMAIN list = 1 .. Len(list)
  OBVIOUS
<1>1. (i - 1) * MaxPerStream \in Nat /\ i * MaxPerStream \in Nat
  OBVIOUS
<1>2. First(i, start) \in Nat \ {0} /\ Last(list, i) \in Nat /\ Last(list, i) <= Len(list)
  BY <1>0, <1>1 DEF First, Last
<1>3. ASSUME NEW q \in Nat \ {0}
      PROVE  q \in First(i, start) .. Last(list, i) <=> q \in 1 .. Len(list) /\ q > start /\ SliceOf(q) = i
  BY <1>0, <1>1, SliceBounds DEF First, Last
<1>4. First(i, start) .. Last(list, i) = {q \in DOMAIN list : q > start /\ SliceOf(q) = i}
  BY <1>0, <1>2, <1>3
<1> QED
  BY <1>2, <1>4 DEF GetSlice

(* Of a slice of the longer list, what is not new was there before.        *)
LEMMA SliceAppendFrom ==
  ASSUME NEW T, NEW old \in Seq(T), NEW new \in Seq(T), NEW i, NEW k
  PROVE  GetSlice(old \o new, i, k) \subseteq
            GetSlice(old, i, k) \cup GetSlice(old \o new, i, Len(old))
<1> DEFINE list == old \o new
<1>1. /\ Len(old) \in Nat /\ Len(list) \in Nat
      /\ DOMAIN old = 1 .. Len(old) /\ DOMAIN list = 1 .. Len(list)
      /\ \A p \in DOMAIN old : list[p] = old[p]
  BY ConcatProperties
<1> HIDE DEF list
<1>2. GetSlice(list, i, k) \subseteq GetSlice(old, i, k) \cup GetSlice(list, i, Len(old))
  BY <1>1 DEF GetSlice
<1> QED
  BY <1>2 DEF list

-----------------------------------------------------------------------------
(* Requests *)

(* Requests that have ids of their own, right after the last id, and name  *)
(* each symbol of the span for each method.                                *)
NewRequests(requests, id, list, first, last) ==
    /\ requests \subseteq Request
    /\ \A r \in requests : id < r.id /\ r.id <= id + last - first + 5
    /\ \A r, q \in requests : r.id = q.id => r = q
    /\ \A r \in requests : r.method = "depth" => r.added
    /\ \A r, q \in requests : r.method = q.method /\ r.method # "depth" => r = q
    /\ \A r \in requests : r.symbols \subseteq {list[p] : p \in first .. last}
    /\ \A method \in Method, p \in first .. last :
          \E r \in requests : r.method = method /\ list[p] \in r.symbols

(* The requests made at once are so.                                       *)
LEMMA RequestsFacts ==
  ASSUME NEW id \in Nat, NEW list \in Seq(Symbol), NEW first \in Nat \ {0}, NEW last \in Nat,
         first <= last, last <= Len(list)
  PROVE  NewRequests(Requests(id, list, first, last), id, list, first, last)
<1> DEFINE n == last - first + 1
           all == {list[p] : p \in first .. last}
           Listing(k, method) == [id |-> id + k, method |-> method, symbols |-> all, added |-> FALSE]
           Depth(p) == [id |-> id + 2 + p - first, method |-> "depth", symbols |-> {list[p]}, added |-> TRUE]
           lists == {Listing(1, "bookTicker"), Listing(n + 2, "trades"),
                     Listing(n + 3, "market"), Listing(n + 4, "marketToday")}
           depths == {Depth(p) : p \in first .. last}
           requests == lists \cup depths
<1>1. Requests(id, list, first, last) = requests
  BY DEF Requests
<1>2. n \in Nat \ {0} /\ (first .. last) \subseteq DOMAIN list
  OBVIOUS
<1>3. all \subseteq Symbol /\ \A p \in first .. last : list[p] \in all /\ list[p] \in Symbol
  BY <1>2
<1>4. lists \subseteq Request /\ depths \subseteq Request
  <2>1. \A k \in Nat, method \in Method : Listing(k, method) \in Request
    <3> HIDE DEF all
    <3> QED
      BY <1>3 DEF Request
  <2>2. lists \subseteq Request
    <3> HIDE DEF Listing
    <3> QED
      BY <1>2, <2>1 DEF Method
  <2>3. \A p \in first .. last : Depth(p) \in Request
    BY <1>2, <1>3 DEF Request, Method
  <2> QED
    BY <2>2, <2>3
<1>5. \A r \in lists : /\ r.id = id + 1 \/ (id + n + 2 <= r.id /\ r.id <= id + n + 4)
                       /\ r.method # "depth"
  BY <1>2
<1>6. \A r \in depths : id + 2 <= r.id /\ r.id <= id + n + 1 /\ r.added
  BY <1>2
<1>7. \A r, q \in lists : r.id = q.id => r = q
  <2> HIDE DEF n
  <2>2. /\ Listing(1, "bookTicker").id = id + 1 /\ Listing(n + 2, "trades").id = id + n + 2
        /\ Listing(n + 3, "market").id = id + n + 3 /\ Listing(n + 4, "marketToday").id = id + n + 4
    BY <1>2
  <2> HIDE DEF Listing
  <2> QED
    BY <1>2, <2>2
<1>8. \A r, q \in depths : r.id = q.id => r = q
  <2> SUFFICES ASSUME NEW p \in first .. last, NEW o \in first .. last, Depth(p).id = Depth(o).id
               PROVE  p = o
    OBVIOUS
  <2> QED
    OBVIOUS
<1>9. ASSUME NEW method \in Method, NEW p \in first .. last
      PROVE  \E r \in requests : r.method = method /\ list[p] \in r.symbols
  <2>1. CASE method = "depth"
    <3>1. Depth(p) \in requests /\ Depth(p).method = "depth" /\ list[p] \in Depth(p).symbols
      OBVIOUS
    <3> QED
      BY <2>1, <3>1
  <2>2. CASE method # "depth"
    <3>1. \A k \in Nat : Listing(k, method).method = method /\ list[p] \in Listing(k, method).symbols
      BY <1>3
    <3> HIDE DEF Listing, n
    <3>2. \E k \in Nat : Listing(k, method) \in lists
      BY <2>2, <1>2 DEF Method
    <3> HIDE DEF lists, depths
    <3> QED
      BY <3>1, <3>2
  <2> QED
    BY <2>1, <2>2
<1>10. \A r \in requests : id < r.id /\ r.id <= id + last - first + 5
  <2> HIDE DEF lists, depths
  <2> QED
    BY <1>2, <1>4, <1>5, <1>6 DEF Request
<1>11. \A r, q \in requests : r.id = q.id => r = q
  <2> HIDE DEF lists, depths
  <2> QED
    BY <1>2, <1>4, <1>5, <1>6, <1>7, <1>8 DEF Request
<1>12. requests \subseteq Request /\ \A r \in requests : r.method = "depth" => r.added
  <2> HIDE DEF lists, depths
  <2> QED
    BY <1>4, <1>5, <1>6
<1>13. \A r \in requests : r.symbols \subseteq all
  <2>1. (\A r \in lists : r.symbols = all) /\ (\A r \in depths : r.symbols \subseteq all)
    OBVIOUS
  <2> HIDE DEF lists, depths
  <2> QED
    BY <2>1
<1>14. \A r, q \in requests : r.method = q.method /\ r.method # "depth" => r = q
  <2>1. /\ Listing(1, "bookTicker").method = "bookTicker" /\ Listing(n + 2, "trades").method = "trades"
        /\ Listing(n + 3, "market").method = "market"
        /\ Listing(n + 4, "marketToday").method = "marketToday"
    OBVIOUS
  <2>2. \A r \in depths : r.method = "depth"
    OBVIOUS
  <2>3. \A r, q \in lists : r.method = q.method => r = q
    <3> HIDE DEF Listing
    <3> QED
      BY <2>1
  <2> HIDE DEF lists, depths
  <2> QED
    BY <2>2, <2>3
<1> HIDE DEF requests
<1> QED
  BY <1>1, <1>9, <1>10, <1>11, <1>12, <1>13, <1>14 DEF NewRequests

(* subscribe(start_from) keeps what there is, with new ids for what it     *)
(* adds, and asks for each feed of the symbols from start on.              *)
LEMMA SubscribeFromFacts ==
  ASSUME NEW stream \in Stream, NEW list \in Seq(Symbol), NEW i \in Nat \ {0}, NEW start \in Nat,
         IdsInRange(i, stream), SentSensible(stream)
  PROVE  LET new == SubscribeFrom(stream, list, i, start)
         IN  /\ new \in Stream
             /\ IdsInRange(i, new)
             /\ SentSensible(new)
             /\ new.ready = stream.ready /\ new.live = stream.live /\ new.refused = stream.refused
             /\ stream.sent \subseteq new.sent
             /\ stream.request_id <= new.request_id
             /\ \A r \in new.sent \ stream.sent :
                   stream.request_id < r.id /\ r.id <= new.request_id
             /\ \A r \in new.sent \ stream.sent : r.symbols \subseteq GetSlice(list, i, start)
             /\ ~stream.ready => new.sent = stream.sent
             /\ SliceServed(new, GetSlice(list, i, start))
             /\ \/ new = stream /\ (stream.ready => GetSlice(list, i, start) = {})
                \/ new.since = start /\ LastServed(new, GetSlice(list, i, start))
<1> DEFINE first == First(i, start)
           last == Last(list, i)
           new == SubscribeFrom(stream, list, i, start)
           requests == Requests(stream.request_id, list, first, last)
<1>1. /\ first \in Nat \ {0} /\ last \in Nat /\ last <= Len(list)
      /\ GetSlice(list, i, start) = {list[p] : p \in first .. last}
  BY SliceSpan
<1> HIDE DEF first, last
<1>2. CASE ~(stream.ready /\ first <= last)
  <2>1. new = stream
    BY <1>2 DEF SubscribeFrom, first, last
  <2>2. ASSUME stream.ready
        PROVE  GetSlice(list, i, start) = {}
    BY <1>1, <1>2, <2>2
  <2>3. SliceServed(stream, GetSlice(list, i, start))
    BY <2>2 DEF SliceServed
  <2> HIDE DEF new
  <2>4. stream.request_id \in Nat
    BY DEF Stream
  <2> QED
    BY <2>1, <2>2, <2>3, <2>4 DEF new
<1>4. CASE stream.ready /\ first <= last
  <2>1. new = [stream EXCEPT !.request_id = @ + last - first + 5, !.since = start,
                             !.sent = @ \cup requests]
    BY <1>4 DEF SubscribeFrom, first, last
  <2>2. /\ requests \subseteq Request
        /\ \A r \in requests : stream.request_id < r.id /\ r.id <= stream.request_id + last - first + 5
        /\ \A r, q \in requests : r.id = q.id => r = q
        /\ \A r \in requests : r.method = "depth" => r.added
        /\ \A r, q \in requests : r.method = q.method /\ r.method # "depth" => r = q
        /\ \A r \in requests : r.symbols \subseteq GetSlice(list, i, start)
        /\ \A method \in Method, p \in first .. last :
              \E r \in requests : r.method = method /\ list[p] \in r.symbols
    <3>1. stream.request_id \in Nat
      BY DEF Stream
    <3>2. first \in Nat \ {0} /\ last \in Nat /\ first <= last /\ last <= Len(list)
      BY <1>1, <1>4
    <3>3. NewRequests(requests, stream.request_id, list, first, last)
      BY <3>1, <3>2, RequestsFacts
    <3> QED
      BY <1>1, <3>3 DEF NewRequests
  <2> HIDE DEF requests, new
  <2>3. /\ new \in Stream
        /\ new.ready = stream.ready /\ new.live = stream.live /\ new.refused = stream.refused
        /\ new.request_id = stream.request_id + last - first + 5 /\ new.since = start
        /\ new.sent = stream.sent \cup requests
    <3>1. /\ stream.request_id + last - first + 5 \in Nat
          /\ stream.sent \cup requests \in SUBSET Request
      BY <1>1, <1>4, <2>2 DEF Stream
    <3> QED
      BY <2>1, <3>1 DEF Stream
  <2>4. stream.request_id \in Nat /\ StreamId(i) * REQUEST_ID \in Nat
        /\ \A r \in stream.sent \cup requests : r.id \in Nat
    BY <2>2 DEF Stream, Request, StreamId
  <2>5. IdsInRange(i, new)
    BY <1>1, <1>4, <2>2, <2>3, <2>4 DEF IdsInRange
  <2>6. SentSensible(new)
    BY <1>4, <2>2, <2>3 DEF SentSensible
  <2>7. SliceServed(new, GetSlice(list, i, start))
    BY <1>1, <2>2, <2>3 DEF SliceServed, Served
  <2>8. LastServed(new, GetSlice(list, i, start))
    <3> SUFFICES ASSUME NEW method \in Method \ {"depth"}, NEW s \in GetSlice(list, i, start)
                 PROVE  \E r \in new.sent :
                           /\ r.method = method /\ s \in r.symbols
                           /\ \A q \in new.sent : q.method = method => q.id <= r.id
      BY DEF LastServed
    <3>1. PICK r \in requests : r.method = method /\ s \in r.symbols
      BY <1>1, <2>2
    <3>2. \A q \in requests : q.method = method => q = r
      BY <2>2, <3>1
    <3>3. \A q \in stream.sent : q.id <= r.id
      BY <2>2, <2>4, <3>1 DEF IdsInRange
    <3>4. r.id <= r.id
      BY <2>4, <3>1
    <3> QED
      BY <2>3, <3>1, <3>2, <3>3, <3>4
  <2> QED
    BY <1>1, <1>4, <2>2, <2>3, <2>4, <2>5, <2>6, <2>7, <2>8 DEF new
<1> QED
  BY <1>2, <1>4

-----------------------------------------------------------------------------
(* The inductive invariant *)

(* A step of stream i that leaves it in order keeps the invariant.         *)
LEMMA StreamStepIInv ==
  ASSUME IInv, NEW i \in Streams, NEW new \in Stream,
         StreamInv(i, new, symbols),
         streams' = [streams EXCEPT ![i] = new], UNCHANGED symbols
  PROVE  IInv'
<1>1. /\ streams' \in Seq(Stream) /\ DOMAIN streams' = Streams
      /\ \A j \in Streams : streams'[j] = IF j = i THEN new ELSE streams[j]
  BY DEF IInv, TypeOK, Streams
<1>2. \A j \in Streams : StreamInv(j, streams'[j], symbols')
  BY <1>1 DEF IInv
<1> QED
  BY <1>1, <1>2 DEF IInv, TypeOK, Streams, SlicesFilled

(* What the invariant says of one stream.                                  *)
LEMMA StreamFacts ==
  ASSUME IInv, NEW i \in Streams
  PROVE  /\ i \in Nat \ {0}
         /\ symbols \in Seq(Symbol)
         /\ streams[i] \in Stream
         /\ IdsInRange(i, streams[i])
         /\ SentSensible(streams[i])
         /\ SliceServed(streams[i], GetSlice(symbols, i, 0))
         /\ OwnFeeds(streams[i], GetSlice(symbols, i, 0))
         /\ LastServed(streams[i], GetSlice(symbols, i, streams[i].since))
BY DEF IInv, TypeOK, Streams, StreamInv

(* What holds of a slice holds of a part of it.                            *)
LEMMA LastServedSubset ==
  ASSUME NEW stream, NEW T, NEW S, LastServed(stream, T), stream.ready => S \subseteq T
  PROVE  LastServed(stream, S)
BY DEF LastServed

(* A stream that has just been constructed.                                *)
LEMMA ConstructedFacts ==
  ASSUME NEW i \in Nat \ {0}, NEW list
  PROVE  Constructed(i) \in Stream /\ StreamInv(i, Constructed(i), list)
<1>1. StreamId(i) * REQUEST_ID \in Nat
  BY DEF StreamId
<1>2. /\ Constructed(i) \in Stream
      /\ Constructed(i).request_id = StreamId(i) * REQUEST_ID
      /\ Constructed(i).sent = {} /\ ~Constructed(i).ready
      /\ Constructed(i).live = {} /\ Constructed(i).refused = {}
  BY <1>1 DEF Constructed, Stream
<1> QED
  BY <1>1, <1>2 DEF StreamInv, IdsInRange, SentSensible, SliceServed, OwnFeeds, LastServed

(* The streams after an update of the symbols.                             *)
LEMMA SymbolsUpdateFacts ==
  ASSUME IInv, NEW S \in SUBSET Symbol, S \cap Range(symbols) = {},
         NEW new \in Orders(S), SymbolsUpdate(new)
  PROVE  /\ symbols' \in Seq(Symbol)
         /\ IsInjective(symbols')
         /\ SlicesFilled'
         /\ streams' \in Seq(Stream)
         /\ Streams \subseteq Streams'
         /\ \A i \in Streams : streams'[i] = SubscribeFrom(streams[i], symbols', i, Len(symbols))
         /\ \A i \in Streams' : StreamInv(i, streams'[i], symbols')
<1> DEFINE size == Size(symbols')
           all == Streams \cup 1 .. size
<1>0. symbols \in Seq(Symbol) /\ IsInjective(symbols) /\ symbols' = symbols \o new
  BY DEF IInv, TypeOK, SymbolsUpdate
<1>1. new \in Seq(Symbol)
  <2>1. IsFiniteSet(S)
    BY SymbolAssumption, FS_Subset
  <2>2. new \in Seq(S)
    BY <2>1, OrdersFacts
  <2> QED
    BY <1>0, <2>2, SeqMonotonic
<1>2. symbols' \in Seq(Symbol) /\ Len(symbols) \in Nat
  BY <1>0, <1>1
<1>3. size \in Nat
  BY <1>2, SizeType
<1>4. Streams = 1 .. Len(streams) /\ Len(streams) \in Nat
  BY DEF IInv, TypeOK, Streams
<1>5. streams' = [i \in all |-> IF i \in Streams THEN SubscribeFrom(streams[i], symbols', i, Len(symbols))
                                                 ELSE Constructed(i)]
  BY DEF SymbolsUpdate
<1> HIDE DEF size
<1>6. PICK k \in Nat : all = 1 .. k
  <2>1. CASE size <= Len(streams)
    BY <1>3, <1>4, <2>1
  <2>2. CASE ~(size <= Len(streams))
    BY <1>3, <1>4, <2>2
  <2> QED
    BY <2>1, <2>2
<1>7. Streams' = all
  BY <1>5 DEF Streams
<1>8. ASSUME NEW i \in all
      PROVE  streams'[i] \in Stream /\ StreamInv(i, streams'[i], symbols')
  <2>1. i \in Nat \ {0}
    BY <1>6
  <2>2. CASE i \notin Streams
    BY <1>5, <2>1, <2>2, ConstructedFacts
  <2>3. CASE i \in Streams
    <3> DEFINE sub == SubscribeFrom(streams[i], symbols', i, Len(symbols))
    <3>1. streams'[i] = sub
      BY <1>5, <2>3
    <3>2. /\ sub \in Stream /\ IdsInRange(i, sub) /\ SentSensible(sub)
          /\ sub.ready = streams[i].ready /\ sub.live = streams[i].live
          /\ sub.refused = streams[i].refused /\ streams[i].sent \subseteq sub.sent
          /\ \A r \in sub.sent \ streams[i].sent : r.symbols \subseteq GetSlice(symbols', i, Len(symbols))
          /\ ~streams[i].ready => sub.sent = streams[i].sent
          /\ SliceServed(sub, GetSlice(symbols', i, Len(symbols)))
          /\ \/ sub = streams[i] /\ (streams[i].ready => GetSlice(symbols', i, Len(symbols)) = {})
             \/ sub.since = Len(symbols) /\ LastServed(sub, GetSlice(symbols', i, Len(symbols)))
      <4>1. streams[i] \in Stream /\ IdsInRange(i, streams[i]) /\ SentSensible(streams[i])
        BY <2>3, StreamFacts
      <4> QED
        BY <1>2, <2>1, <4>1, SubscribeFromFacts
    <3>3. /\ SliceServed(streams[i], GetSlice(symbols, i, 0)) /\ OwnFeeds(streams[i], GetSlice(symbols, i, 0))
          /\ LastServed(streams[i], GetSlice(symbols, i, streams[i].since))
      BY <2>3, StreamFacts
    <3>4. GetSlice(symbols', i, 0) = GetSlice(symbols, i, 0) \cup GetSlice(symbols', i, Len(symbols))
      BY <1>0, <1>1, <2>1, SliceAppend
    <3> HIDE DEF sub
    <3>5. SliceServed(sub, GetSlice(symbols', i, 0))
      BY <3>2, <3>3, <3>4 DEF SliceServed, Served
    <3>6. OwnFeeds(sub, GetSlice(symbols', i, 0))
      BY <3>2, <3>3, <3>4 DEF OwnFeeds
    <3>7. LastServed(sub, GetSlice(symbols', i, sub.since))
      <4>1. CASE sub = streams[i] /\ (streams[i].ready => GetSlice(symbols', i, Len(symbols)) = {})
        <5>1. GetSlice(symbols', i, sub.since)
                 \subseteq GetSlice(symbols, i, sub.since) \cup GetSlice(symbols', i, Len(symbols))
          BY <1>0, <1>1, SliceAppendFrom
        <5>2. streams[i].ready =>
                 GetSlice(symbols', i, sub.since) \subseteq GetSlice(symbols, i, streams[i].since)
          BY <4>1, <5>1
        <5>3. LastServed(streams[i], GetSlice(symbols', i, sub.since))
          BY <3>3, <5>2, LastServedSubset
        <5> QED
          BY <4>1, <5>3
      <4> QED
        BY <3>2, <4>1
    <3> QED
      BY <3>1, <3>2, <3>5, <3>6, <3>7 DEF StreamInv
  <2> QED
    BY <2>2, <2>3
<1>9. streams' \in Seq(Stream)
  <2>1. DOMAIN streams' = 1 .. k /\ streams' = [i \in 1 .. k |-> streams'[i]]
    BY <1>5, <1>6
  <2>2. streams' \in [1 .. k -> Stream]
    BY <2>1, <1>6, <1>8
  <2> QED
    BY <2>2, SeqDef
<1>10. IsInjective(symbols') /\ DOMAIN symbols \subseteq DOMAIN symbols'
  BY <1>0, SymbolAssumption, AppendFacts
<1>11. SlicesFilled'
  <2>1. \A i \in 1 .. size : \E p \in DOMAIN symbols' : SliceOf(p) = i
    BY <1>2, SlicesInUse DEF size
  <2> QED
    BY <1>7, <1>10, <2>1 DEF IInv, SlicesFilled
<1> QED
  BY <1>2, <1>5, <1>7, <1>8, <1>9, <1>10, <1>11

(* A connection gets READY and subscribes to all of its slice.             *)
LEMMA ReadyFacts ==
  ASSUME IInv, NEW i \in Streams, Ready(i)
  PROVE  LET new == SubscribeFrom(Up(streams[i]), symbols, i, 0)
         IN  /\ new \in Stream
             /\ StreamInv(i, new, symbols)
             /\ streams' = [streams EXCEPT ![i] = new]
             /\ UNCHANGED symbols
             /\ new.ready
             /\ streams[i].request_id <= new.request_id
             /\ \A r \in new.sent \ streams[i].sent :
                   streams[i].request_id < r.id /\ r.id <= new.request_id
<1> DEFINE up == Up(streams[i])
<1>1. /\ i \in Nat \ {0} /\ symbols \in Seq(Symbol) /\ streams[i] \in Stream
      /\ IdsInRange(i, streams[i]) /\ SentSensible(streams[i])
      /\ OwnFeeds(streams[i], GetSlice(symbols, i, 0))
  BY StreamFacts
<1>2. /\ up \in Stream /\ up.ready
      /\ up.live = streams[i].live /\ up.refused = streams[i].refused
      /\ up.sent = streams[i].sent /\ up.request_id = streams[i].request_id
  <2>1. streams[i].connections + 1 \in Nat
    BY <1>1 DEF Stream
  <2> QED
    BY <1>1, <2>1 DEF Stream, Up
<1>3. streams' = [streams EXCEPT ![i] = SubscribeFrom(up, symbols, i, 0)] /\ UNCHANGED symbols
  BY DEF Ready
<1> HIDE DEF up
<1>4. IdsInRange(i, up) /\ SentSensible(up)
  BY <1>1, <1>2 DEF IdsInRange, SentSensible
<1>5. StreamInv(i, SubscribeFrom(up, symbols, i, 0), symbols)
  <2> DEFINE new == SubscribeFrom(up, symbols, i, 0)
  <2>1. /\ IdsInRange(i, new) /\ SentSensible(new) /\ new.ready
        /\ new.live = streams[i].live /\ new.refused = streams[i].refused
        /\ \A r \in new.sent \ streams[i].sent : r.symbols \subseteq GetSlice(symbols, i, 0)
        /\ SliceServed(new, GetSlice(symbols, i, 0))
        /\ \/ new = up /\ GetSlice(symbols, i, 0) = {}
           \/ new.since = 0 /\ LastServed(new, GetSlice(symbols, i, 0))
    BY <1>1, <1>2, <1>4, SubscribeFromFacts
  <2>3. up.since \in Nat
    BY <1>2 DEF Stream
  <2> HIDE DEF new
  <2>4. LastServed(new, GetSlice(symbols, i, new.since))
    <3>1. CASE new = up /\ GetSlice(symbols, i, 0) = {}
      <4>1. GetSlice(symbols, i, new.since) \subseteq GetSlice(symbols, i, 0)
        BY <1>1, <2>3, <3>1 DEF GetSlice
      <4> QED
        BY <3>1, <4>1 DEF LastServed
    <3> QED
      BY <2>1, <3>1
  <2>2. OwnFeeds(new, GetSlice(symbols, i, 0))
    BY <1>1, <2>1 DEF OwnFeeds
  <2> QED
    BY <2>1, <2>2, <2>4 DEF StreamInv, new
<1> QED
  BY <1>1, <1>2, <1>3, <1>4, <1>5, SubscribeFromFacts DEF up

(* An answer, whichever it is, moves a feed from asked for to live or      *)
(* refused, and takes away no feed that is kept.                           *)
LEMMA ResponseFacts ==
  ASSUME IInv, NEW i \in Streams, NEW accepted \in BOOLEAN, Response(i, accepted)
  PROVE  \E new \in Stream :
             /\ StreamInv(i, new, symbols)
             /\ streams' = [streams EXCEPT ![i] = new]
             /\ UNCHANGED symbols
             /\ new.ready = streams[i].ready
             /\ streams[i].request_id = new.request_id
             /\ new.sent \subseteq streams[i].sent
<1>1. PICK r \in streams[i].sent :
         /\ \A other \in streams[i].sent : r.id <= other.id
         /\ streams' = [streams EXCEPT ![i] = Answered(@, r, accepted)] /\ UNCHANGED symbols
  BY DEF Response
<1> DEFINE old == streams[i]
           asked == {r.method} \X r.symbols
           live == IF accepted THEN Accepted(old.live, r) ELSE old.live
           refused == IF accepted THEN old.refused ELSE old.refused \cup asked
           new == Answered(old, r, accepted)
<1>2. /\ old \in Stream /\ IdsInRange(i, old) /\ SentSensible(old)
      /\ SliceServed(old, GetSlice(symbols, i, 0)) /\ OwnFeeds(old, GetSlice(symbols, i, 0))
      /\ LastServed(old, GetSlice(symbols, i, old.since))
  BY StreamFacts
<1>3. r \in Request
  BY <1>2 DEF Stream
<1>4. asked \subseteq Feed
  BY <1>3 DEF Request, Feed
<1>5. live \subseteq Feed /\ refused \subseteq Feed
  BY <1>2, <1>4 DEF Accepted, Stream
<1>6. streams' = [streams EXCEPT ![i] = new]
  BY <1>1
<1>7. /\ new \in Stream /\ new.ready = old.ready /\ new.request_id = old.request_id
      /\ new.since = old.since
      /\ new.sent = old.sent \ {r} /\ new.live = live /\ new.refused = refused
  <2>1. CASE accepted
    BY <1>2, <1>5, <2>1 DEF Stream, Answered
  <2>2. CASE ~accepted
    BY <1>2, <1>5, <2>2 DEF Stream, Answered
  <2> QED
    BY <2>1, <2>2
<1>8. \A method \in Method, s \in Symbol :
         Kept(method) /\ Served(old, <<method, s>>) =>
            \/ <<method, s>> \in live
            \/ <<method, s>> \in refused
            \/ \E q \in old.sent \ {r} : method = q.method /\ s \in q.symbols
  <2> SUFFICES ASSUME NEW method \in Method, NEW s \in Symbol, Kept(method),
                      Served(old, <<method, s>>),
                      ~\E q \in old.sent \ {r} : method = q.method /\ s \in q.symbols
               PROVE  <<method, s>> \in live \/ <<method, s>> \in refused
    OBVIOUS
  <2>1. \/ <<method, s>> \in old.live
        \/ <<method, s>> \in old.refused
        \/ <<method, s>> \in asked
    BY DEF Served
  <2>2. r.method = "depth" => r.added
    BY <1>2 DEF SentSensible
  <2>3. CASE <<method, s>> \in old.live
    BY <2>2, <2>3 DEF Accepted, Kept
  <2>4. CASE <<method, s>> \in asked
    BY <2>4 DEF Accepted
  <2> QED
    BY <2>1, <2>3, <2>4
<1>14. ASSUME NEW method \in Method \ {"depth"}, NEW s,
               \/ <<method, s>> \in old.refused
               \/ <<method, s>> \in old.live /\ \A q \in old.sent : q.method # method
               \/ \E latest \in old.sent :
                     /\ latest.method = method /\ s \in latest.symbols
                     /\ \A q \in old.sent : q.method = method => q.id <= latest.id
        PROVE  \/ <<method, s>> \in refused
               \/ <<method, s>> \in live /\ \A q \in old.sent \ {r} : q.method # method
               \/ \E latest \in old.sent \ {r} :
                     /\ latest.method = method /\ s \in latest.symbols
                     /\ \A q \in old.sent \ {r} : q.method = method => q.id <= latest.id
  <2>1. CASE <<method, s>> \in old.refused
    BY <2>1
  <2>2. CASE <<method, s>> \in old.live /\ \A q \in old.sent : q.method # method
    <3>1. <<method, s>> \in live
      BY <2>2 DEF Accepted
    <3> QED
      BY <2>2, <3>1
  <2>3. ASSUME NEW latest \in old.sent,
               latest.method = method, s \in latest.symbols,
               \A q \in old.sent : q.method = method => q.id <= latest.id
        PROVE  \/ <<method, s>> \in refused
               \/ <<method, s>> \in live /\ \A q \in old.sent \ {r} : q.method # method
               \/ latest \in old.sent \ {r}
    <3>1. CASE latest = r
      <4>1. \A q \in old.sent : q.id \in Nat
        BY <1>2 DEF Stream, Request
      <4>2. \A q \in old.sent : q.method = method => q.id = r.id
        BY <1>1, <2>3, <3>1, <4>1
      <4>3. \A q \in old.sent \ {r} : q.method # method
        BY <1>2, <4>2 DEF IdsInRange
      <4>4. <<method, s>> \in asked
        BY <2>3, <3>1
      <4> QED
        BY <4>3, <4>4 DEF Accepted
    <3> QED
      BY <3>1
  <2> QED
    BY <1>14, <2>1, <2>2, <2>3
<1>9. \A f \in live \cup refused : f \in old.live \cup old.refused \/ f[2] \in r.symbols
  BY <1>4 DEF Accepted
<1> HIDE DEF new, live, refused
<1>10. OwnFeeds(new, GetSlice(symbols, i, 0))
  BY <1>2, <1>7, <1>9 DEF OwnFeeds
<1>11. IdsInRange(i, new) /\ SentSensible(new)
  BY <1>2, <1>7 DEF IdsInRange, SentSensible
<1>12. GetSlice(symbols, i, 0) \subseteq Symbol
  BY DEF GetSlice, IInv, TypeOK
<1>13. SliceServed(new, GetSlice(symbols, i, 0))
  <2> SUFFICES ASSUME new.ready, NEW method \in Method, NEW s \in GetSlice(symbols, i, 0), Kept(method)
               PROVE  Served(new, <<method, s>>)
    BY DEF SliceServed
  <2>1. Served(old, <<method, s>>)
    BY <1>2, <1>7 DEF SliceServed
  <2> QED
    BY <2>1, <1>7, <1>8, <1>12 DEF Served
<1>15. LastServed(new, GetSlice(symbols, i, new.since))
  <2> DEFINE sent == new.sent
             slice == GetSlice(symbols, i, new.since)
  <2>1. sent = old.sent \ {r} /\ new.live = live /\ new.refused = refused /\ new.ready = old.ready
    BY <1>7
  <2>2. LastServed(old, slice)
    BY <1>2, <1>7
  <2> HIDE DEF old, sent, slice
  <2>3. ASSUME new.ready, NEW method \in Method \ {"depth"}, NEW s \in slice
        PROVE  \/ <<method, s>> \in refused
               \/ <<method, s>> \in live /\ \A q \in sent : q.method # method
               \/ \E latest \in sent :
                     /\ latest.method = method /\ s \in latest.symbols
                     /\ \A q \in sent : q.method = method => q.id <= latest.id
    <3>1. \/ <<method, s>> \in old.refused
          \/ <<method, s>> \in old.live /\ \A q \in old.sent : q.method # method
          \/ \E latest \in old.sent :
                /\ latest.method = method /\ s \in latest.symbols
                /\ \A q \in old.sent : q.method = method => q.id <= latest.id
      BY <2>1, <2>2, <2>3 DEF LastServed
    <3> QED
      BY <1>14, <2>1, <3>1
  <2>4. ASSUME new.ready, NEW method \in Method \ {"depth"}, NEW s \in slice
        PROVE  \/ <<method, s>> \in new.refused
               \/ <<method, s>> \in new.live /\ \A q \in new.sent : q.method # method
               \/ \E latest \in new.sent :
                     /\ latest.method = method /\ s \in latest.symbols
                     /\ \A q \in new.sent : q.method = method => q.id <= latest.id
    BY <2>1, <2>3, <2>4 DEF sent
  <2>5. LastServed(new, slice)
    BY <2>4, Zenon DEF LastServed
  <2> QED
    BY <2>5 DEF slice
<1> QED
  BY <1>1, <1>6, <1>7, <1>11, <1>13, <1>10, <1>15 DEF StreamInv

(* A connection that is lost takes all of its subscriptions with it.       *)
LEMMA DisconnectedFacts ==
  ASSUME IInv, NEW i \in Streams, Disconnected(i)
  PROVE  \E new \in Stream :
             /\ StreamInv(i, new, symbols)
             /\ streams' = [streams EXCEPT ![i] = new]
             /\ UNCHANGED symbols
             /\ ~new.ready
             /\ streams[i].request_id = new.request_id
             /\ new.sent \subseteq streams[i].sent
<1> DEFINE new == [streams[i] EXCEPT !.ready = FALSE, !.sent = {}, !.live = {}, !.refused = {}]
<1>1. streams[i] \in Stream /\ IdsInRange(i, streams[i])
  BY StreamFacts
<1>2. /\ new \in Stream /\ ~new.ready /\ new.sent = {} /\ new.live = {} /\ new.refused = {}
      /\ new.request_id = streams[i].request_id
  BY <1>1 DEF Stream
<1>3. streams' = [streams EXCEPT ![i] = new] /\ UNCHANGED symbols
  BY DEF Disconnected
<1> HIDE DEF new
<1>4. StreamInv(i, new, symbols)
  BY <1>1, <1>2 DEF StreamInv, IdsInRange, SentSensible, SliceServed, OwnFeeds, LastServed
<1> QED
  BY <1>2, <1>3, <1>4

(* There are no streams before the first symbols.                          *)
LEMMA InitIInv == Init => IInv
BY DEF Init, IInv, TypeOK, Streams, SlicesFilled, IsInjective

LEMMA NextIInv == IInv /\ [Next]_vars => IInv'
<1> SUFFICES ASSUME IInv, [Next]_vars PROVE IInv'
  OBVIOUS
<1>1. ASSUME NEW S \in SUBSET Symbol, S \cap Range(symbols) = {},
             NEW new \in Orders(S), SymbolsUpdate(new)
      PROVE  IInv'
  BY <1>1, SymbolsUpdateFacts DEF IInv, TypeOK
<1>2. ASSUME NEW i \in Streams, Ready(i)
      PROVE  IInv'
  BY <1>2, ReadyFacts, StreamStepIInv
<1>3. ASSUME NEW i \in Streams, Disconnected(i)
      PROVE  IInv'
  BY <1>3, DisconnectedFacts, StreamStepIInv
<1>4. ASSUME NEW i \in Streams, NEW accepted \in BOOLEAN, Response(i, accepted)
      PROVE  IInv'
  BY <1>4, ResponseFacts, StreamStepIInv
<1>5. CASE UNCHANGED vars
  BY <1>5 DEF vars, IInv, TypeOK, Streams, SlicesFilled
<1>6. \A S \in (SUBSET (Symbol \ Range(symbols))) \ {{}} : S \in SUBSET Symbol /\ S \cap Range(symbols) = {}
  OBVIOUS
<1> QED
  BY <1>1, <1>2, <1>3, <1>4, <1>5, <1>6 DEF Next

-----------------------------------------------------------------------------
(* The subscriptions implement SymbolFeed *)

(* The symbols in service are those that the streams that are READY were   *)
(* given.                                                                  *)
ServedTold == SymbolsServed = {s \in Range(symbols) : StreamOf(symbols, s) \in StreamsUp}

(* What a stream has, asked for or was refused is what Served says.        *)
LEMMA InServiceServed ==
  ASSUME NEW i \in Streams, NEW s
  PROVE  /\ \A method : Requested(i, method, s) <=> Served(streams[i], <<method, s>>)
         /\ InService(i, s) <=> \A method \in Method : Kept(method) => Served(streams[i], <<method, s>>)
<1>1. \A method : <<method, s>> \in Pending(i) <=>
                   \E r \in streams[i].sent : method = r.method /\ s \in r.symbols
  BY DEF Pending
<1>2. \A method : Requested(i, method, s) <=> Served(streams[i], <<method, s>>)
  BY <1>1 DEF Requested, Served
<1> QED
  BY <1>2 DEF InService

(* They are: a READY stream serves its slice, and no stream serves others. *)
LEMMA ServedIsTold == IInv => ServedTold
<1> SUFFICES ASSUME IInv PROVE ServedTold
  OBVIOUS
<1>1. symbols \in Seq(Symbol) /\ IsInjective(symbols) /\ Range(symbols) \subseteq Symbol
  BY DEF IInv, TypeOK, Range
<1>2. \A i, s : s \in GetSlice(symbols, i, 0) => s \in Range(symbols)
  BY DEF GetSlice, Range
<1>3. \A i, s : s \in Range(symbols) => (s \in GetSlice(symbols, i, 0) <=> StreamOf(symbols, s) = i)
  BY <1>1, StreamOfFacts
<1>4. ASSUME NEW i \in Streams, NEW s, InService(i, s)
      PROVE  i \in StreamsUp /\ s \in GetSlice(symbols, i, 0)
  <2>1. Served(streams[i], <<"depth", s>>)
    BY <1>4, InServiceServed DEF Method, Kept
  <2>2. OwnFeeds(streams[i], GetSlice(symbols, i, 0))
    BY StreamFacts
  <2> QED
    BY <2>1, <2>2 DEF Served, OwnFeeds, StreamsUp
<1>5. ASSUME NEW i \in StreamsUp, NEW s \in GetSlice(symbols, i, 0)
      PROVE  i \in Streams /\ InService(i, s)
  <2>1. i \in Streams /\ streams[i].ready
    BY DEF StreamsUp
  <2>2. SliceServed(streams[i], GetSlice(symbols, i, 0))
    BY <2>1, StreamFacts
  <2> QED
    BY <2>1, <2>2, InServiceServed DEF SliceServed
<1> QED
  BY <1>1, <1>2, <1>3, <1>4, <1>5 DEF ServedTold, SymbolsServed

(* The instance has a copy of the definition.                              *)
LEMMA PromiseCardinality == \A T : Promise!Cardinality(T) = Cardinality(T)
  BY Zenon DEF Promise!Cardinality, Cardinality

(* New symbols are registered, and served where the stream is READY.       *)
LEMMA SymbolsUpdateRegisters ==
  ASSUME IInv, ServedTold, ServedTold',
         NEW S \in SUBSET Symbol, S \cap Range(symbols) = {},
         NEW new \in Orders(S), SymbolsUpdate(new)
  PROVE  Promise!Register(S)
<1>1. /\ symbols \in Seq(Symbol) /\ IsInjective(symbols) /\ IsFiniteSet(Symbol)
      /\ symbols' = symbols \o new
  BY SymbolAssumption DEF IInv, TypeOK, SymbolsUpdate
<1>2. /\ symbols' \in Seq(Symbol) /\ IsInjective(symbols')
      /\ Range(symbols') = Range(symbols) \cup S
  BY <1>1, AppendFacts
<1>3. /\ DOMAIN Assigned = Range(symbols) /\ DOMAIN Assigned' = Range(symbols) \cup S
      /\ \A s \in Range(symbols) : Assigned[s] = StreamOf(symbols, s)
      /\ \A s \in Range(symbols) \cup S : Assigned'[s] = StreamOf(symbols', s)
  BY <1>2 DEF Assigned
<1>4. \A s \in Range(symbols) : StreamOf(symbols', s) = StreamOf(symbols, s)
  BY <1>1, StreamOfAppend
<1>5. \A s \in S : Assigned'[s] \in Nat \ {0}
  BY <1>2, <1>3, StreamOfFacts
<1>6. ASSUME NEW s \in S
      PROVE  Cardinality({t \in DOMAIN Assigned \cup S : Assigned'[t] = Assigned'[s]}) <= MaxPerStream
  <2> DEFINE i == StreamOf(symbols', s)
  <2>1. {t \in DOMAIN Assigned \cup S : Assigned'[t] = Assigned'[s]}
          = {t \in Range(symbols') : StreamOf(symbols', t) = i}
    BY <1>2, <1>3
  <2> HIDE DEF i
  <2> QED
    BY <2>1, <1>2, SliceCardinality
<1>7. StreamsUp' = StreamsUp
  <2>1. /\ Streams \subseteq Streams'
        /\ \A i \in Streams' : streams'[i] =
               IF i \in Streams THEN SubscribeFrom(streams[i], symbols', i, Len(symbols)) ELSE Constructed(i)
    BY DEF SymbolsUpdate, Streams
  <2>2. ASSUME NEW i \in Streams
        PROVE  streams'[i].ready = streams[i].ready
    <3>1. /\ i \in Nat \ {0} /\ streams[i] \in Stream
          /\ IdsInRange(i, streams[i]) /\ SentSensible(streams[i])
      BY StreamFacts
    <3>2. Len(symbols) \in Nat
      BY <1>1
    <3> QED
      BY <1>2, <2>1, <3>1, <3>2, SubscribeFromFacts
  <2>3. \A i : ~Constructed(i).ready
    BY DEF Constructed
  <2> QED
    BY <2>1, <2>2, <2>3 DEF StreamsUp
<1>8. SymbolsServed' = SymbolsServed \cup {s \in S : Assigned'[s] \in StreamsUp}
  BY <1>1, <1>2, <1>3, <1>4, <1>7 DEF ServedTold
<1>9. /\ S \cap DOMAIN Assigned = {}
      /\ DOMAIN Assigned' = DOMAIN Assigned \cup S
      /\ \A s \in DOMAIN Assigned : Assigned'[s] = Assigned[s]
  BY <1>1, <1>3, <1>4
<1> QED
  BY <1>5, <1>6, <1>7, <1>8, <1>9, PromiseCardinality DEF Promise!Register, Promise!Registered

(* A step of one stream moves it up, down or not at all.                   *)
LEMMA StreamMoves ==
  ASSUME IInv, ServedTold, ServedTold', NEW i \in Streams, NEW new \in Stream,
         streams' = [streams EXCEPT ![i] = new], UNCHANGED symbols
  PROVE  Promise!Next \/ UNCHANGED Promise!vars
<1>1. symbols' = symbols /\ Assigned' = Assigned
  BY DEF Assigned
<1>2. /\ Streams' = Streams /\ streams'[i] = new
      /\ \A j \in Streams : j # i => streams'[j] = streams[j]
      /\ new.ready \in BOOLEAN /\ streams[i] \in Stream /\ streams[i].ready \in BOOLEAN
  BY StreamFacts DEF Streams, Stream
<1>3. StreamsUp' = IF new.ready THEN StreamsUp \cup {i} ELSE StreamsUp \ {i}
  BY <1>2 DEF StreamsUp
<1>4. i \in StreamsUp <=> streams[i].ready
  BY DEF StreamsUp
<1>5. /\ DOMAIN Assigned = Range(symbols)
      /\ \A s \in Range(symbols) : Assigned[s] = StreamOf(symbols, s)
  BY DEF Assigned
<1>6. Promise!On(i) = {s \in Range(symbols) : StreamOf(symbols, s) = i}
  BY <1>5 DEF Promise!On, Promise!Registered
<1>7. i \in {Assigned[s] : s \in Promise!Registered}
  <2>1. PICK p \in DOMAIN symbols : SliceOf(p) = i
    BY DEF IInv, SlicesFilled
  <2>2. p > 0 /\ symbols \in Seq(Symbol) /\ IsInjective(symbols)
    BY DEF IInv, TypeOK
  <2>3. symbols[p] \in GetSlice(symbols, i, 0) /\ symbols[p] \in Range(symbols)
    BY <2>1, <2>2 DEF GetSlice, Range
  <2>4. StreamOf(symbols, symbols[p]) = i
    BY <2>2, <2>3, StreamOfFacts
  <2> QED
    BY <1>5, <2>3, <2>4 DEF Promise!Registered
<1>8. CASE new.ready = streams[i].ready
  <2>1. StreamsUp' = StreamsUp
    BY <1>3, <1>4, <1>8
  <2> QED
    BY <1>1, <2>1 DEF ServedTold, Promise!vars
<1>9. CASE ~streams[i].ready /\ new.ready
  <2>1. i \notin StreamsUp /\ StreamsUp' = StreamsUp \cup {i}
    BY <1>3, <1>4, <1>9
  <2>2. SymbolsServed' = SymbolsServed \cup Promise!On(i)
    BY <1>1, <1>6, <2>1 DEF ServedTold
  <2> QED
    BY <1>1, <1>7, <2>1, <2>2 DEF Promise!Next, Promise!StreamUp
<1>10. CASE streams[i].ready /\ ~new.ready
  <2>1. i \in StreamsUp /\ StreamsUp' = StreamsUp \ {i}
    BY <1>3, <1>4, <1>10
  <2>2. SymbolsServed' = SymbolsServed \ Promise!On(i)
    BY <1>1, <1>6, <2>1 DEF ServedTold
  <2> QED
    BY <1>1, <1>7, <2>1, <2>2 DEF Promise!Next, Promise!StreamDown
<1> QED
  BY <1>2, <1>8, <1>9, <1>10

(* Before the first symbols nothing is registered.                         *)
LEMMA PromiseInit == Init => Promise!Init
<1> SUFFICES ASSUME Init PROVE Promise!Init
  OBVIOUS
<1>1. symbols = <<>> /\ Streams = {} /\ Range(symbols) = {}
  BY DEF Init, Streams, Range
<1>2. Assigned = [s \in {} |-> 0]
  BY <1>1 DEF Assigned
<1> QED
  BY <1>1, <1>2 DEF Promise!Init, StreamsUp, SymbolsServed

(* Every step of the streams is one of SymbolFeed, or none.                *)
LEMMA PromiseStep == IInv /\ ServedTold /\ ServedTold' /\ [Next]_vars => [Promise!Next]_(Promise!vars)
<1> SUFFICES ASSUME IInv, ServedTold, ServedTold', [Next]_vars
             PROVE  Promise!Next \/ UNCHANGED Promise!vars
  OBVIOUS
<1>1. CASE UNCHANGED vars
  <2>1. symbols' = symbols /\ streams' = streams
    BY <1>1 DEF vars
  <2>2. Assigned' = Assigned /\ StreamsUp' = StreamsUp
    BY <2>1 DEF Assigned, StreamsUp, Streams
  <2> QED
    BY <2>1, <2>2 DEF ServedTold, Promise!vars
<1>2. ASSUME NEW S \in SUBSET Symbol, S \cap Range(symbols) = {},
             NEW new \in Orders(S), SymbolsUpdate(new)
      PROVE  Promise!Next
  BY <1>2, SymbolsUpdateRegisters DEF Promise!Next
<1>3. ASSUME NEW i \in Streams, Ready(i)
      PROVE  Promise!Next \/ UNCHANGED Promise!vars
  BY <1>3, ReadyFacts, StreamMoves
<1>4. ASSUME NEW i \in Streams, Disconnected(i)
      PROVE  Promise!Next \/ UNCHANGED Promise!vars
  BY <1>4, DisconnectedFacts, StreamMoves
<1>5. ASSUME NEW i \in Streams, NEW accepted \in BOOLEAN, Response(i, accepted)
      PROVE  Promise!Next \/ UNCHANGED Promise!vars
  BY <1>5, ResponseFacts, StreamMoves
<1>6. \A S \in (SUBSET (Symbol \ Range(symbols))) \ {{}} : S \in SUBSET Symbol /\ S \cap Range(symbols) = {}
  OBVIOUS
<1> QED
  BY <1>1, <1>2, <1>3, <1>4, <1>5, <1>6 DEF Next

-----------------------------------------------------------------------------
(* The theorems *)

(* The inductive invariant holds.                                          *)
THEOREM SubscriptionsInvariant == Spec => []IInv
BY InitIInv, NextIInv, PTL DEF Spec

(* The state of the subscriptions is of its type.                          *)
THEOREM SubscriptionsTypeCorrect == Spec => []TypeOK
<1>1. IInv => TypeOK
  BY DEF IInv
<1> QED
  BY <1>1, SubscriptionsInvariant, PTL

(* An id under way is the id of one request, of all streams that are in    *)
(* the range of ids that line 84 gives them.                               *)
THEOREM SubscriptionsIdsDistinct == Spec => []IdsDistinct
<1>1. IInv => IdsDistinct
  <2> SUFFICES ASSUME IInv, NEW i \in Streams, NEW j \in Streams,
                      NEW r \in streams[i].sent, NEW q \in streams[j].sent,
                      r.id = q.id, i <= j,
                      i < j => streams[i].request_id <= (StreamId(i) + 1) * REQUEST_ID
               PROVE  i = j /\ r = q
    BY DEF IdsDistinct
  <2>1. /\ i \in Nat \ {0} /\ j \in Nat \ {0}
        /\ streams[i] \in Stream /\ streams[j] \in Stream
        /\ IdsInRange(i, streams[i]) /\ IdsInRange(j, streams[j])
    BY StreamFacts
  <2>2. r.id \in Nat /\ q.id \in Nat /\ streams[i].request_id \in Nat
    BY <2>1 DEF Stream, Request
  <2>3. CASE i = j
    BY <2>1, <2>3 DEF IdsInRange
  <2>4. CASE i < j
    <3>1. r.id <= streams[i].request_id /\ StreamId(j) * REQUEST_ID < q.id
      BY <2>1 DEF IdsInRange
    <3>2. StreamId(i) + 1 <= StreamId(j) /\ StreamId(i) \in Nat /\ StreamId(j) \in Nat
      BY <2>1, <2>4 DEF StreamId
    <3>3. /\ (StreamId(i) + 1) * REQUEST_ID <= StreamId(j) * REQUEST_ID
          /\ (StreamId(i) + 1) * REQUEST_ID \in Nat /\ StreamId(j) * REQUEST_ID \in Nat
      BY <3>2
    <3> QED
      BY <2>2, <2>4, <3>1, <3>3
  <2> QED
    BY <2>1, <2>3, <2>4
<1> QED
  BY <1>1, SubscriptionsInvariant, PTL

(* No stream uses an id twice, over all of its connections.                *)
THEOREM SubscriptionsIdsNotReused == Spec => IdsNotReused
<1> DEFINE Fresh == \A i \in Streams :
                       /\ streams[i].request_id <= streams'[i].request_id
                       /\ \A r \in streams'[i].sent \ streams[i].sent :
                             streams[i].request_id < r.id /\ r.id <= streams'[i].request_id
<1>1. IInv /\ [Next]_vars => [Fresh]_vars
  <2> SUFFICES ASSUME IInv, Next PROVE Fresh
    OBVIOUS
  <2>0. \A S \in (SUBSET (Symbol \ Range(symbols))) \ {{}} :
           S \in SUBSET Symbol /\ S \cap Range(symbols) = {}
    OBVIOUS
  <2>1. ASSUME NEW S \in SUBSET Symbol, S \cap Range(symbols) = {},
               NEW new \in Orders(S), SymbolsUpdate(new)
        PROVE  Fresh
    <3>1. \A i \in Streams : streams'[i] = SubscribeFrom(streams[i], symbols', i, Len(symbols))
      BY <2>1, SymbolsUpdateFacts
    <3>2. symbols' \in Seq(Symbol) /\ Len(symbols) \in Nat
      BY <2>1, SymbolsUpdateFacts DEF IInv, TypeOK
    <3>3. ASSUME NEW i \in Streams
          PROVE  /\ streams[i].request_id <= streams'[i].request_id
                 /\ \A r \in streams'[i].sent \ streams[i].sent :
                       streams[i].request_id < r.id /\ r.id <= streams'[i].request_id
      <4>1. /\ i \in Nat \ {0} /\ streams[i] \in Stream
            /\ IdsInRange(i, streams[i]) /\ SentSensible(streams[i])
        BY StreamFacts
      <4> QED
        BY <3>1, <3>2, <4>1, SubscribeFromFacts
    <3> QED
      BY <3>3
  <2>2. ASSUME NEW i \in Streams, NEW new,
               streams' = [streams EXCEPT ![i] = new],
               streams[i].request_id <= new.request_id,
               \A r \in new.sent \ streams[i].sent :
                  streams[i].request_id < r.id /\ r.id <= new.request_id
        PROVE  Fresh
    <3>1. \A j \in Streams : streams[j].request_id \in Nat /\ streams'[j] = IF j = i THEN new ELSE streams[j]
      BY <2>2, StreamFacts DEF Stream, IInv, TypeOK, Streams
    <3> QED
      BY <2>2, <3>1
  <2>3. ASSUME NEW i \in Streams, Ready(i)
        PROVE  Fresh
    BY <2>2, <2>3, ReadyFacts
  <2>4. ASSUME NEW i \in Streams, Disconnected(i) \/ \E accepted \in BOOLEAN : Response(i, accepted)
        PROVE  Fresh
    <3>1. streams[i].request_id \in Nat
      BY StreamFacts DEF Stream
    <3> QED
      BY <2>2, <2>4, <3>1, DisconnectedFacts, ResponseFacts
  <2> QED
    BY <2>0, <2>1, <2>3, <2>4 DEF Next
<1>2. [][Fresh]_vars => IdsNotReused
  BY PTL DEF IdsNotReused
<1> QED
  BY <1>1, <1>2, SubscriptionsInvariant, PTL DEF Spec

(* A stream that is READY has lost no feed of a method of which the        *)
(* exchange adds up the requests, and of the others none since it          *)
(* subscribed last (lines 163-167, 180-184, 219-228).                      *)
THEOREM SubscriptionsFeedsServed == Spec => []FeedsServed
<1>1. IInv => FeedsServed
  <2> SUFFICES ASSUME IInv, NEW i \in Streams, streams[i].ready,
                      NEW method \in Method, NEW s \in Lasting(i, method)
               PROVE  Served(streams[i], <<method, s>>)
    BY InServiceServed DEF FeedsServed
  <2>1. CASE Kept(method)
    BY <2>1, StreamFacts DEF Lasting, SliceServed
  <2>2. CASE ~Kept(method)
    <3>1. method # "depth" /\ s \in GetSlice(symbols, i, streams[i].since)
      BY <2>2 DEF Lasting, Kept
    <3> QED
      BY <3>1, StreamFacts DEF LastServed, Served
  <2> QED
    BY <2>1, <2>2
<1> QED
  BY <1>1, SubscriptionsInvariant, PTL

(* The requests of the streams keep what SymbolFeed promises: each symbol  *)
(* is in service on the stream that it was given to, for good, while this  *)
(* is READY, and on no other.                                              *)
THEOREM SubscriptionsImplementPromise == Spec => ImplementsPromise
<1>1. IInv' => ServedTold'
  BY ServedIsTold, PTL
<1> QED
  BY <1>1, PromiseInit, PromiseStep, ServedIsTold, SubscriptionsInvariant, PTL
     DEF Spec, ImplementsPromise, Promise!Spec
=============================================================================
