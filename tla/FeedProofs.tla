----------------------------- MODULE FeedProofs -----------------------------
(***************************************************************************)
(* Proofs about Feed, for any symbols, levels, quantities and bounds.      *)
(*                                                                         *)
(* The channel is what makes the properties inductive: a change under way  *)
(* has a snapshot ahead of it or a book that it applies to, and messages   *)
(* name only trades that were made.  With the history of FeedHistory: each *)
(* message leads from one book of the exchange to a later one, with no     *)
(* change of that symbol in between.                                       *)
(***************************************************************************)
EXTENDS FeedHistory, SequenceTheorems, FiniteSetTheorems, TLAPS

IsSnapshot(m, s) == m.method = "depth" /\ m.name = s /\ m.snapshot

(* No change is handled before a snapshot of its book.                     *)
SnapshotAhead ==
    /\ \A s \in Symbol : <<"depth", s>> \in subscribed =>
          s \in DOMAIN books \/ \E p \in DOMAIN channel : IsSnapshot(channel[p], s)
    /\ \A p \in DOMAIN channel : channel[p].method = "depth" =>
          \/ channel[p].name \in DOMAIN books
          \/ \E q \in 1 .. p : IsSnapshot(channel[q], channel[p].name)

(* A message of trades names trades of its symbol.                         *)
TradesTrue ==
    \A p \in DOMAIN channel : channel[p].method = "trades" =>
        Range(channel[p].ids) \subseteq TradesOf(channel[p].name)

(* Without a connection nothing is subscribed or under way.                *)
QuietWhenDown == ~ready => requested = {} /\ subscribed = {} /\ channel = <<>>

IInv ==
    TypeOK /\ SnapshotAhead /\ TradesTrue /\ QuietWhenDown /\ BooksConverge /\ NeverBadState /\ TradesDelivered

-----------------------------------------------------------------------------
(* The channel *)

(* A message that is sent is the last one under way.                       *)
LEMMA SendFacts ==
  ASSUME TypeOK, NEW m \in Message, Send(m)
  PROVE  \E last \in Nat :
           /\ channel' \in Seq(Message) /\ DOMAIN channel' = DOMAIN channel \cup {last} /\ channel'[last] = m
           /\ \A p \in DOMAIN channel : p < last /\ channel'[p] = channel[p] /\ 1 .. p \subseteq DOMAIN channel
           /\ last \in 1 .. last
<1>1. /\ channel' \in Seq(Message)
      /\ DOMAIN channel' = DOMAIN channel \cup {Len(channel) + 1}
      /\ DOMAIN channel = 1 .. Len(channel) /\ Len(channel) \in Nat
      /\ \A p \in DOMAIN channel : channel'[p] = channel[p]
      /\ channel'[Len(channel) + 1] = m
  BY DEF TypeOK, Send
<1>2. /\ \A p \in DOMAIN channel : p < Len(channel) + 1 /\ 1 .. p \subseteq DOMAIN channel
      /\ Len(channel) + 1 \in Nat /\ Len(channel) + 1 \in 1 .. (Len(channel) + 1)
  BY <1>1
<1> QED
  BY <1>1, <1>2

(* The message that is handled is the first one; the others move up.       *)
LEMMA ReceiveFacts ==
  ASSUME TypeOK, NEW method, Receive(method)
  PROVE  /\ channel' \in Seq(Message)
         /\ 1 \in DOMAIN channel /\ Head(channel) = channel[1] /\ channel[1] \in Message
         /\ channel[1].method = method
         /\ DOMAIN channel \subseteq Nat \ {0}
         /\ \A p \in DOMAIN channel' : p + 1 \in DOMAIN channel /\ channel'[p] = channel[p + 1]
         /\ \A p \in DOMAIN channel : p = 1 \/ (p - 1 \in DOMAIN channel' /\ channel'[p - 1] = channel[p])
  BY DEF TypeOK, Receive

(* A function on an interval is a sequence.                                *)
LEMMA IntervalSeq ==
  ASSUME NEW S, NEW n \in Nat, NEW f \in [1 .. n -> S]
  PROVE  f \in Seq(S) /\ DOMAIN f = 1 .. n
  BY SeqDef

(* What is published of a message of trades.                               *)
LEMMA PublishedFacts ==
  ASSUME TypeOK, NEW name \in Symbol, NEW ids \in Seq(1 .. MaxChanges),
         published' = published \o [k \in DOMAIN ids |-> <<name, ids[k]>>]
  PROVE  /\ published' \in Seq(Symbol \X (1 .. MaxChanges))
         /\ Range(published') = Range(published) \cup {<<name, id>> : id \in Range(ids)}
<1> DEFINE new == [k \in DOMAIN ids |-> <<name, ids[k]>>]
<1>1. new \in Seq(Symbol \X (1 .. MaxChanges)) /\ DOMAIN new = DOMAIN ids
  <2>1. Len(ids) \in Nat /\ DOMAIN ids = 1 .. Len(ids) /\ \A k \in 1 .. Len(ids) : ids[k] \in 1 .. MaxChanges
    BY LenProperties, ElementOfSeq
  <2>2. new \in [1 .. Len(ids) -> Symbol \X (1 .. MaxChanges)]
    BY <2>1
  <2> HIDE DEF new
  <2> QED
    BY <2>1, <2>2, IntervalSeq
<1>2. published \in Seq(Symbol \X (1 .. MaxChanges))
  BY DEF TypeOK
<1>3. Range(published \o new) = Range(published) \cup Range(new)
  <2> HIDE DEF new
  <2> QED
    BY <1>1, <1>2, RangeConcatenation
<1>4. Range(new) = {<<name, id>> : id \in Range(ids)}
  BY DEF Range
<1>5. published \o new \in Seq(Symbol \X (1 .. MaxChanges))
  BY <1>1, <1>2
<1> QED
  BY <1>3, <1>4, <1>5

-----------------------------------------------------------------------------

(* The invariant holds at first.                                           *)
LEMMA InitIInv == Init => IInv
<1> SUFFICES ASSUME Init PROVE IInv
  OBVIOUS
<1>1. channel = <<>> /\ published = <<>> /\ traded = <<>> /\ DOMAIN channel = {} /\ DOMAIN books = {}
  BY DEF Init
<1>2. exchange \in [Symbol -> Book]
  BY QuantityAssumption DEF Init, EmptyBook, Book
<1>3. levels \in Update
  <2>1. levels \in [{} -> Quantity]
    BY DEF Init
  <2> QED
    BY <2>1 DEF Update
<1>4. TypeOK
  <2>1. /\ channel \in Seq(Message)
        /\ published \in Seq(Symbol \X (1 .. MaxChanges))
        /\ traded \in Seq(Symbol) /\ Len(traded) = 0
    BY <1>1, EmptySeq
  <2>2. Len(traded) <= MaxChanges
    BY <2>1, BoundsAssumption
  <2>3. requested \cup subscribed = {} /\ connections = 0 /\ changes = 0 /\ ready = FALSE /\ process = "running"
    BY DEF Init
  <2> QED
    BY <1>1, <1>2, <1>3, <2>1, <2>2, <2>3 DEF TypeOK
<1>5. Range(published) = {}
  BY <1>1 DEF Range
<1> QED
  BY <1>1, <1>4, <1>5 DEF Init, IInv, SnapshotAhead, TradesTrue, QuietWhenDown, BooksConverge,
                          NeverBadState, TradesDelivered

(* A trade that is made is new.                                            *)
LEMMA TradeFacts ==
  ASSUME TypeOK, NEW s \in Symbol, traded' = Append(traded, s)
  PROVE  /\ traded' \in Seq(Symbol) /\ Len(traded') = Len(traded) + 1 /\ Len(traded) \in Nat
         /\ \A r : TradesOf(r)' = TradesOf(r) \cup (IF r = s THEN {Len(traded)'} ELSE {})
<1>1. traded \in Seq(Symbol)
  BY DEF TypeOK
<1>2. /\ traded' \in Seq(Symbol) /\ Len(traded') = Len(traded) + 1 /\ Len(traded) \in Nat
      /\ DOMAIN traded' = DOMAIN traded \cup {Len(traded')}
      /\ traded'[Len(traded')] = s
      /\ \A k \in DOMAIN traded : traded'[k] = traded[k]
  BY <1>1
<1>3. ASSUME NEW r PROVE TradesOf(r)' = TradesOf(r) \cup (IF r = s THEN {Len(traded')} ELSE {})
  BY <1>2 DEF TradesOf
<1> QED
  BY <1>2, <1>3

(* What a snapshot of the exchange tells: the whole book, or all trades.   *)
LEMMA SnapshotType ==
  ASSUME TypeOK, NEW method \in Method, NEW s \in Symbol, NEW m \in Snapshots(method, s)
  PROVE  /\ m \in Message
         /\ method = "depth" => /\ m.method = "depth" /\ m.name = s /\ m.snapshot
                                /\ \A l \in Level : exchange[s][l] =
                                      IF l \in DOMAIN m.levels THEN m.levels[l] ELSE 0
         /\ method # "depth" => m.method = "trades" /\ m.name = s /\ Range(m.ids) = TradesOf(s)
<1>1. CASE method = "depth"
  <2> DEFINE kept == {l \in Level : exchange[s][l] # 0}
             u == [l \in kept |-> exchange[s][l]]
  <2>1. exchange[s] \in [Level -> Quantity]
    BY DEF TypeOK, Book
  <2>2. u \in [kept -> Quantity] /\ kept \in SUBSET Level
    BY <2>1
  <2>3. u \in Update
    BY <2>2 DEF Update
  <2>4. m = [method |-> "depth", name |-> s, snapshot |-> TRUE, levels |-> u]
    BY <1>1 DEF Snapshots, Depth, Restrict
  <2>5. \A l \in Level : exchange[s][l] = IF l \in DOMAIN u THEN u[l] ELSE 0
    OBVIOUS
  <2> HIDE DEF u
  <2> QED
    BY <1>1, <2>3, <2>4, <2>5 DEF Message
<1>2. CASE method # "depth"
  <2>1. PICK o \in [1 .. Cardinality(TradesOf(s)) -> TradesOf(s)] :
               Range(o) = TradesOf(s) /\ m = Trades(s, o)
    BY <1>2 DEF Snapshots
  <2>2. DOMAIN traded = 1 .. Len(traded) /\ Len(traded) \in 0 .. MaxChanges /\ MaxChanges \in Nat
    BY BoundsAssumption DEF TypeOK
  <2>3. TradesOf(s) \subseteq 1 .. MaxChanges
    BY <2>2 DEF TradesOf
  <2>4. IsFiniteSet(TradesOf(s))
    <3>1. IsFiniteSet(1 .. MaxChanges)
      BY <2>2, FS_Interval
    <3> QED
      BY <2>3, <3>1, FS_Subset
  <2>5. Cardinality(TradesOf(s)) \in Nat
    BY <2>4, FS_CardinalityType
  <2>6. o \in Seq(1 .. MaxChanges)
    <3>1. o \in [1 .. Cardinality(TradesOf(s)) -> 1 .. MaxChanges]
      BY <2>1, <2>3
    <3> QED
      BY <2>5, <3>1, IntervalSeq
  <2>7. m = [method |-> "trades", name |-> s, ids |-> o]
    BY <2>1 DEF Trades
  <2> QED
    BY <1>2, <2>1, <2>6, <2>7 DEF Message
<1> QED
  BY <1>1, <1>2

(* Handling a message that leaves the books alone.                         *)
LEMMA TailSnapshots ==
  ASSUME IInv, NEW method, Receive(method), UNCHANGED <<subscribed, books>>,
         \A r : ~IsSnapshot(channel[1], r)
  PROVE  SnapshotAhead'
<1>1. /\ 1 \in DOMAIN channel /\ DOMAIN channel \subseteq Nat \ {0}
      /\ \A p \in DOMAIN channel' : p + 1 \in DOMAIN channel /\ channel'[p] = channel[p + 1]
      /\ \A p \in DOMAIN channel : p = 1 \/ (p - 1 \in DOMAIN channel' /\ channel'[p - 1] = channel[p])
      /\ DOMAIN channel' \subseteq Nat \ {0}
  <2>1. channel' \in Seq(Message)
    BY ReceiveFacts DEF IInv
  <2> QED
    BY <2>1, ReceiveFacts DEF IInv
<1>2. ASSUME NEW r \in Symbol, <<"depth", r>> \in subscribed'
      PROVE  r \in DOMAIN books' \/ \E p \in DOMAIN channel' : IsSnapshot(channel'[p], r)
  BY <1>1, <1>2 DEF IInv, SnapshotAhead
<1>3. ASSUME NEW p \in DOMAIN channel', channel'[p].method = "depth"
      PROVE  \/ channel'[p].name \in DOMAIN books'
             \/ \E k \in 1 .. p : IsSnapshot(channel'[k], channel'[p].name)
  <2>1. \/ channel'[p].name \in DOMAIN books
        \/ \E k \in 1 .. (p + 1) : IsSnapshot(channel[k], channel'[p].name)
    BY <1>1, <1>3 DEF IInv, SnapshotAhead
  <2>2. ASSUME NEW k \in 1 .. (p + 1), IsSnapshot(channel[k], channel'[p].name)
        PROVE  \E o \in 1 .. p : IsSnapshot(channel'[o], channel'[p].name)
    <3>1. k # 1 /\ p \in Nat \ {0}
      BY <1>1, <2>2
    <3>2. k - 1 \in 1 .. p /\ k \in DOMAIN channel
      BY <1>1, <3>1 DEF IInv, TypeOK
    <3> QED
      BY <1>1, <2>2, <3>1, <3>2
  <2> QED
    BY <2>1, <2>2
<1> QED
  BY <1>2, <1>3 DEF SnapshotAhead

(* Handling a message that tells nothing of books keeps BooksConverge.     *)
LEMMA TailBooks ==
  ASSUME IInv, NEW method, Receive(method), UNCHANGED <<process, subscribed, books, exchange>>,
         \A r, l : ~Tells(channel[1], r, l)
  PROVE  BooksConverge'
<1>1. /\ 1 \in DOMAIN channel /\ DOMAIN channel \subseteq Nat \ {0}
      /\ \A p \in DOMAIN channel' : p + 1 \in DOMAIN channel /\ channel'[p] = channel[p + 1]
      /\ \A p \in DOMAIN channel : p = 1 \/ (p - 1 \in DOMAIN channel' /\ channel'[p - 1] = channel[p])
      /\ DOMAIN channel' \subseteq Nat \ {0}
  <2>1. channel' \in Seq(Message)
    BY ReceiveFacts DEF IInv
  <2> QED
    BY <2>1, ReceiveFacts DEF IInv
<1>2. ASSUME Running', NEW r \in Symbol, NEW l \in Level, <<"depth", r>> \in subscribed',
             NEW p \in DOMAIN channel', Tells(channel'[p], r, l),
             \A q \in DOMAIN channel' : q > p => ~Tells(channel'[q], r, l)
      PROVE  Told(channel'[p], l) = exchange'[r][l]
  <2>1. \A q \in DOMAIN channel : q > p + 1 => ~Tells(channel[q], r, l)
    BY <1>1, <1>2
  <2> QED
    BY <1>1, <1>2, <2>1 DEF IInv, BooksConverge, Running
<1>3. ASSUME Running', NEW r \in Symbol, NEW l \in Level, <<"depth", r>> \in subscribed',
             \A p \in DOMAIN channel' : ~Tells(channel'[p], r, l)
      PROVE  r \in DOMAIN books' /\ books'[r][l] = exchange'[r][l]
  <2>1. \A q \in DOMAIN channel : ~Tells(channel[q], r, l)
    BY <1>1, <1>3
  <2> QED
    BY <1>3, <2>1 DEF IInv, BooksConverge, Running
<1> QED
  BY <1>2, <1>3 DEF BooksConverge

-----------------------------------------------------------------------------
(* The steps *)

LEMMA ReadyIInv ==
  ASSUME IInv, Ready
  PROVE  IInv'
<1>1. channel = <<>> /\ subscribed = {}
  BY DEF IInv, QuietWhenDown, Ready
<1>2. TypeOK'
  BY DEF IInv, TypeOK, Ready
<1>3. SnapshotAhead' /\ TradesTrue' /\ QuietWhenDown' /\ BooksConverge' /\ NeverBadState' /\ TradesDelivered'
  BY <1>1 DEF IInv, Ready, SnapshotAhead, IsSnapshot, TradesTrue, QuietWhenDown, BooksConverge,
              NeverBadState, TradesDelivered, TradesOf
<1> QED
  BY <1>2, <1>3 DEF IInv

LEMMA DisconnectedIInv ==
  ASSUME IInv, Disconnected
  PROVE  IInv'
<1>1. DOMAIN << >> = {} /\ channel' = <<>> /\ subscribed' = {} /\ requested' = {}
  BY DEF Disconnected
<1>2. DOMAIN books' \subseteq Symbol /\ \A s \in DOMAIN books' : books'[s] \in Book
  BY <1>1 DEF IInv, TypeOK, Disconnected
<1>3. channel' \in Seq(Message)
  BY <1>1, EmptySeq
<1>4. TypeOK'
  BY <1>1, <1>2, <1>3 DEF IInv, TypeOK, Disconnected
<1>5. SnapshotAhead' /\ TradesTrue' /\ QuietWhenDown' /\ BooksConverge' /\ NeverBadState' /\ TradesDelivered'
  BY <1>1 DEF IInv, Disconnected, SnapshotAhead, IsSnapshot, TradesTrue, QuietWhenDown, BooksConverge,
              NeverBadState, TradesDelivered, TradesOf
<1> QED
  BY <1>4, <1>5 DEF IInv

LEMMA ExchangeSubscribeIInv ==
  ASSUME IInv, NEW method \in Method, NEW s \in Symbol, ExchangeSubscribe(method, s)
  PROVE  IInv'
<1>1. PICK m \in Snapshots(method, s) : Send(m)
  BY DEF ExchangeSubscribe
<1>2. m \in Message
  BY SnapshotType DEF IInv
<1>3. PICK last \in Nat :
        /\ channel' \in Seq(Message) /\ DOMAIN channel' = DOMAIN channel \cup {last} /\ channel'[last] = m
        /\ \A p \in DOMAIN channel : p < last /\ channel'[p] = channel[p] /\ 1 .. p \subseteq DOMAIN channel
        /\ last \in 1 .. last
  BY <1>1, <1>2, SendFacts DEF IInv
<1>4. /\ UNCHANGED <<process, ready, connections, exchange, traded, changes, levels, books, published>>
      /\ <<method, s>> \in requested
      /\ requested' = requested \ {<<method, s>>}
      /\ subscribed' = subscribed \cup {<<method, s>>}
  BY DEF ExchangeSubscribe
<1>5. ready
  BY <1>4 DEF IInv, QuietWhenDown
<1>6. TypeOK'
  BY <1>3, <1>4 DEF IInv, TypeOK
<1>7. QuietWhenDown' /\ NeverBadState'
  BY <1>4, <1>5 DEF IInv, QuietWhenDown, NeverBadState
<1>8. \A r : TradesOf(r)' = TradesOf(r)
  BY <1>4 DEF TradesOf
<1>9. CASE method = "depth"
  <2>1. /\ m.method = "depth" /\ m.name = s /\ m.snapshot
        /\ \A l \in Level : exchange[s][l] = IF l \in DOMAIN m.levels THEN m.levels[l] ELSE 0
    BY <1>9, SnapshotType DEF IInv
  <2>2. /\ IsSnapshot(m, s)
        /\ \A r, l : Tells(m, r, l) <=> r = s
        /\ \A l \in Level : Told(m, l) = exchange[s][l]
    BY <2>1 DEF IsSnapshot, Tells, Told
  <2>3. SnapshotAhead'
    <3>1. ASSUME NEW r \in Symbol, <<"depth", r>> \in subscribed'
          PROVE  r \in DOMAIN books' \/ \E p \in DOMAIN channel' : IsSnapshot(channel'[p], r)
      BY <1>3, <1>4, <2>2, <3>1 DEF IInv, SnapshotAhead
    <3>2. ASSUME NEW p \in DOMAIN channel', channel'[p].method = "depth"
          PROVE  \/ channel'[p].name \in DOMAIN books'
                 \/ \E q \in 1 .. p : IsSnapshot(channel'[q], channel'[p].name)
      <4>1. CASE p = last
        BY <1>3, <2>1, <2>2, <4>1
      <4>2. CASE p \in DOMAIN channel
        BY <1>3, <1>4, <3>2, <4>2 DEF IInv, SnapshotAhead
      <4> QED
        BY <1>3, <4>1, <4>2
    <3> QED
      BY <3>1, <3>2 DEF SnapshotAhead
  <2>4. TradesTrue'
    BY <1>3, <1>8, <2>1 DEF IInv, TradesTrue
  <2>5. BooksConverge'
    <3>1. ASSUME Running', NEW r \in Symbol, NEW l \in Level, <<"depth", r>> \in subscribed',
                 NEW p \in DOMAIN channel', Tells(channel'[p], r, l),
                 \A q \in DOMAIN channel' : q > p => ~Tells(channel'[q], r, l)
          PROVE  Told(channel'[p], l) = exchange'[r][l]
      <4>1. CASE p = last
        BY <1>3, <1>4, <2>2, <3>1, <4>1
      <4>2. CASE p \in DOMAIN channel
        <5>1. r # s
          BY <1>3, <2>2, <3>1, <4>2
        <5> QED
          BY <1>3, <1>4, <3>1, <4>2, <5>1 DEF IInv, BooksConverge, Running
      <4> QED
        BY <1>3, <4>1, <4>2
    <3>2. ASSUME Running', NEW r \in Symbol, NEW l \in Level, <<"depth", r>> \in subscribed',
                 \A p \in DOMAIN channel' : ~Tells(channel'[p], r, l)
          PROVE  r \in DOMAIN books' /\ books'[r][l] = exchange'[r][l]
      <4>1. r # s
        BY <1>3, <2>2, <3>2
      <4> QED
        BY <1>3, <1>4, <3>2, <4>1 DEF IInv, BooksConverge, Running
    <3> QED
      BY <3>1, <3>2 DEF BooksConverge
  <2>6. TradesDelivered'
    BY <1>3, <1>4, <1>8, <1>9 DEF IInv, TradesDelivered
  <2> QED
    BY <1>6, <1>7, <2>3, <2>4, <2>5, <2>6 DEF IInv
<1>10. CASE method # "depth"
  <2>1. m.method = "trades" /\ m.name = s /\ Range(m.ids) = TradesOf(s)
    BY <1>10, SnapshotType DEF IInv
  <2>2. /\ \A r, l : ~Tells(m, r, l)
        /\ \A id \in TradesOf(s) : Delivers(m, s, id)
    BY <2>1 DEF Tells, Delivers
  <2>3. \A r : <<"depth", r>> \in subscribed' <=> <<"depth", r>> \in subscribed
    BY <1>4, <1>10
  <2>4. SnapshotAhead'
    BY <1>3, <1>4, <2>1, <2>3 DEF IInv, SnapshotAhead
  <2>5. TradesTrue'
    BY <1>3, <1>8, <2>1 DEF IInv, TradesTrue
  <2>6. BooksConverge'
    <3>1. ASSUME Running', NEW r \in Symbol, NEW l \in Level, <<"depth", r>> \in subscribed',
                 NEW p \in DOMAIN channel', Tells(channel'[p], r, l),
                 \A q \in DOMAIN channel' : q > p => ~Tells(channel'[q], r, l)
          PROVE  Told(channel'[p], l) = exchange'[r][l]
      BY <1>3, <1>4, <2>2, <2>3, <3>1 DEF IInv, BooksConverge, Running
    <3>2. ASSUME Running', NEW r \in Symbol, NEW l \in Level, <<"depth", r>> \in subscribed',
                 \A p \in DOMAIN channel' : ~Tells(channel'[p], r, l)
          PROVE  r \in DOMAIN books' /\ books'[r][l] = exchange'[r][l]
      BY <1>3, <1>4, <2>3, <3>2 DEF IInv, BooksConverge, Running
    <3> QED
      BY <3>1, <3>2 DEF BooksConverge
  <2>7. TradesDelivered'
    BY <1>3, <1>4, <1>8, <2>2 DEF IInv, TradesDelivered
  <2> QED
    BY <1>6, <1>7, <2>4, <2>5, <2>6, <2>7 DEF IInv
<1> QED
  BY <1>9, <1>10

LEMMA ExchangeChangeIInv ==
  ASSUME IInv, NEW s \in Symbol, NEW l \in Level, NEW q \in Quantity, ExchangeChange(s, l, q)
  PROVE  IInv'
<1> DEFINE m == Depth(s, FALSE, [k \in {l} |-> q])
<1>1. /\ UNCHANGED <<process, ready, connections, requested, subscribed, traded, levels, books, published>>
      /\ changes' = changes + 1
      /\ exchange' = [exchange EXCEPT ![s][l] = q]
  BY DEF ExchangeChange
<1>2. exchange' \in [Symbol -> Book] /\ exchange'[s][l] = q
      /\ \A r \in Symbol, k \in Level : r # s \/ k # l => exchange'[r][k] = exchange[r][k]
  BY <1>1 DEF IInv, TypeOK, Book
<1>3. changes' \in Nat
  BY <1>1 DEF IInv, TypeOK
<1>4. \A r : TradesOf(r)' = TradesOf(r)
  BY <1>1 DEF TradesOf
<1>5. CASE <<"depth", s>> \notin subscribed
  <2>1. channel' = channel
    BY <1>5 DEF ExchangeChange
  <2>2. TypeOK'
    BY <1>1, <1>2, <1>3, <2>1 DEF IInv, TypeOK
  <2>3. SnapshotAhead' /\ TradesTrue' /\ QuietWhenDown' /\ NeverBadState' /\ TradesDelivered'
    BY <1>1, <1>4, <2>1 DEF IInv, SnapshotAhead, TradesTrue, QuietWhenDown, NeverBadState, TradesDelivered
  <2>4. BooksConverge'
    BY <1>1, <1>2, <1>5, <2>1 DEF IInv, BooksConverge, Running
  <2> QED
    BY <2>2, <2>3, <2>4 DEF IInv
<1>6. CASE <<"depth", s>> \in subscribed
  <2>1. Send(m)
    BY <1>6 DEF ExchangeChange
  <2>2. m = [method |-> "depth", name |-> s, snapshot |-> FALSE, levels |-> [k \in {l} |-> q]]
    BY DEF Depth
  <2>3. [k \in {l} |-> q] \in Update
    <3>1. [k \in {l} |-> q] \in [{l} -> Quantity]
      OBVIOUS
    <3> QED
      BY <3>1 DEF Update
  <2> HIDE DEF m
  <2> DEFINE u == [k \in {l} |-> q]
  <2>3a. DOMAIN u = {l} /\ u[l] = q
    OBVIOUS
  <2> HIDE DEF u
  <2>3b. m.method = "depth" /\ m.name = s /\ m.snapshot = FALSE /\ m.levels = u
    BY <2>2 DEF u
  <2>4. m \in Message
    BY <2>2, <2>3 DEF Message, u
  <2>5. /\ m.method = "depth" /\ m.name = s
        /\ \A r, k : Tells(m, r, k) <=> r = s /\ k = l
        /\ Told(m, l) = q
    BY <2>3b, <2>3a DEF Tells, Told
  <2>6. PICK last \in Nat :
        /\ channel' \in Seq(Message) /\ DOMAIN channel' = DOMAIN channel \cup {last} /\ channel'[last] = m
        /\ \A p \in DOMAIN channel : p < last /\ channel'[p] = channel[p] /\ 1 .. p \subseteq DOMAIN channel
        /\ last \in 1 .. last
    BY <2>1, <2>4, SendFacts DEF IInv
  <2>7. ready
    BY <1>6 DEF IInv, QuietWhenDown
  <2>8. TypeOK'
    BY <1>1, <1>2, <1>3, <2>6 DEF IInv, TypeOK
  <2>9. QuietWhenDown' /\ NeverBadState' /\ TradesTrue' /\ TradesDelivered'
    BY <1>1, <1>4, <2>5, <2>6, <2>7 DEF IInv, QuietWhenDown, NeverBadState, TradesTrue, TradesDelivered
  <2>10. SnapshotAhead'
    <3>1. ASSUME NEW r \in Symbol, <<"depth", r>> \in subscribed'
          PROVE  r \in DOMAIN books' \/ \E p \in DOMAIN channel' : IsSnapshot(channel'[p], r)
      BY <1>1, <2>6, <3>1 DEF IInv, SnapshotAhead
    <3>2. ASSUME NEW p \in DOMAIN channel', channel'[p].method = "depth"
          PROVE  \/ channel'[p].name \in DOMAIN books'
                 \/ \E k \in 1 .. p : IsSnapshot(channel'[k], channel'[p].name)
      <4>1. CASE p = last
        <5>1. s \in DOMAIN books \/ \E k \in DOMAIN channel : IsSnapshot(channel[k], s)
          BY <1>6 DEF IInv, SnapshotAhead
        <5>2. \A k \in DOMAIN channel : k \in 1 .. last
          BY <2>6 DEF IInv, TypeOK
        <5> QED
          BY <1>1, <2>5, <2>6, <4>1, <5>1, <5>2
      <4>2. CASE p \in DOMAIN channel
        BY <1>1, <2>6, <3>2, <4>2 DEF IInv, SnapshotAhead
      <4> QED
        BY <2>6, <4>1, <4>2
    <3> QED
      BY <3>1, <3>2 DEF SnapshotAhead
  <2>11. BooksConverge'
    <3>1. ASSUME Running', NEW r \in Symbol, NEW k \in Level, <<"depth", r>> \in subscribed',
                 NEW p \in DOMAIN channel', Tells(channel'[p], r, k),
                 \A o \in DOMAIN channel' : o > p => ~Tells(channel'[o], r, k)
          PROVE  Told(channel'[p], k) = exchange'[r][k]
      <4>1. CASE p = last
        BY <1>2, <2>5, <2>6, <3>1, <4>1
      <4>2. CASE p \in DOMAIN channel
        <5>1. r # s \/ k # l
          BY <2>5, <2>6, <3>1, <4>2
        <5> QED
          BY <1>1, <1>2, <2>6, <3>1, <4>2, <5>1 DEF IInv, BooksConverge, Running
      <4> QED
        BY <2>6, <4>1, <4>2
    <3>2. ASSUME Running', NEW r \in Symbol, NEW k \in Level, <<"depth", r>> \in subscribed',
                 \A p \in DOMAIN channel' : ~Tells(channel'[p], r, k)
          PROVE  r \in DOMAIN books' /\ books'[r][k] = exchange'[r][k]
      <4>1. r # s \/ k # l
        BY <2>5, <2>6, <3>2
      <4> QED
        BY <1>1, <1>2, <2>6, <3>2, <4>1 DEF IInv, BooksConverge, Running
    <3> QED
      BY <3>1, <3>2 DEF BooksConverge
  <2> QED
    BY <2>8, <2>9, <2>10, <2>11 DEF IInv
<1> QED
  BY <1>5, <1>6

LEMMA ExchangeTradeIInv ==
  ASSUME IInv, NEW s \in Symbol, ExchangeTrade(s)
  PROVE  IInv'
<1> DEFINE id == Len(traded')
           m == Trades(s, <<id>>)
<1>1. /\ UNCHANGED <<process, ready, connections, requested, subscribed, exchange, changes, levels, books, published>>
      /\ traded' = Append(traded, s) /\ Len(traded) < MaxChanges
  BY DEF ExchangeTrade
<1>2. /\ traded' \in Seq(Symbol) /\ id = Len(traded) + 1 /\ Len(traded) \in Nat
      /\ \A r : TradesOf(r)' = TradesOf(r) \cup (IF r = s THEN {id} ELSE {})
  BY <1>1, TradeFacts DEF IInv
<1>3. id \in 1 .. MaxChanges /\ Len(traded') <= MaxChanges
  BY <1>1, <1>2, BoundsAssumption
<1>4. CASE <<"trades", s>> \notin subscribed
  <2>1. channel' = channel
    BY <1>4 DEF ExchangeTrade
  <2>2. TypeOK'
    BY <1>1, <1>2, <1>3, <2>1 DEF IInv, TypeOK
  <2>3. SnapshotAhead' /\ QuietWhenDown' /\ NeverBadState' /\ BooksConverge'
    BY <1>1, <2>1 DEF IInv, SnapshotAhead, QuietWhenDown, NeverBadState, BooksConverge, Running
  <2>4. TradesTrue' /\ TradesDelivered'
    BY <1>1, <1>2, <1>4, <2>1 DEF IInv, TradesTrue, TradesDelivered
  <2> QED
    BY <2>2, <2>3, <2>4 DEF IInv
<1>5. CASE <<"trades", s>> \in subscribed
  <2>1. Send(m)
    BY <1>5 DEF ExchangeTrade
  <2>2. m = [method |-> "trades", name |-> s, ids |-> <<id>>]
    BY DEF Trades
  <2>3. <<id>> \in Seq(1 .. MaxChanges) /\ Range(<<id>>) = {id}
    BY <1>3 DEF Range
  <2> DEFINE ids == <<id>>
  <2> HIDE DEF m, ids
  <2>4. m \in Message
    BY <2>2, <2>3 DEF Message, ids
  <2> USE DEF m
  <2>5. /\ m.method = "trades" /\ m.name = s /\ Range(m.ids) = {id}
        /\ \A r, k : ~Tells(m, r, k)
        /\ Delivers(m, s, id)
    BY <2>2, <2>3 DEF Tells, Delivers
  <2> HIDE DEF m, id
  <2>6. PICK last \in Nat :
        /\ channel' \in Seq(Message) /\ DOMAIN channel' = DOMAIN channel \cup {last} /\ channel'[last] = m
        /\ \A p \in DOMAIN channel : p < last /\ channel'[p] = channel[p] /\ 1 .. p \subseteq DOMAIN channel
        /\ last \in 1 .. last
    BY <2>1, <2>4, SendFacts DEF IInv
  <2>7. ready
    BY <1>5 DEF IInv, QuietWhenDown
  <2>8. TypeOK'
    BY <1>1, <1>2, <1>3, <2>6 DEF IInv, TypeOK
  <2>9. QuietWhenDown' /\ NeverBadState'
    BY <1>1, <2>7 DEF IInv, QuietWhenDown, NeverBadState
  <2>10. SnapshotAhead'
    BY <1>1, <2>5, <2>6 DEF IInv, SnapshotAhead
  <2>11. BooksConverge'
    BY <1>1, <2>5, <2>6 DEF IInv, BooksConverge, Running
  <2>12. TradesTrue'
    BY <1>2, <2>5, <2>6 DEF IInv, TradesTrue
  <2>13. TradesDelivered'
    BY <1>1, <1>2, <2>5, <2>6 DEF IInv, TradesDelivered
  <2> QED
    BY <2>8, <2>9, <2>10, <2>11, <2>12, <2>13 DEF IInv
<1> QED
  BY <1>4, <1>5

LEMMA TradesUpdateIInv ==
  ASSUME IInv, TradesUpdate
  PROVE  IInv'
<1> DEFINE m == channel[1]
<1>1. /\ channel' \in Seq(Message)
      /\ 1 \in DOMAIN channel /\ m \in Message /\ m.method = "trades"
      /\ DOMAIN channel \subseteq Nat \ {0}
      /\ \A p \in DOMAIN channel' : p + 1 \in DOMAIN channel /\ channel'[p] = channel[p + 1]
      /\ \A p \in DOMAIN channel : p = 1 \/ (p - 1 \in DOMAIN channel' /\ channel'[p - 1] = channel[p])
  BY ReceiveFacts DEF IInv, TradesUpdate
<1>2. m.name \in Symbol /\ m.ids \in Seq(1 .. MaxChanges)
  BY <1>1 DEF Message
<1>3. /\ UNCHANGED <<process, ready, connections, requested, subscribed, exchange, traded, changes, levels, books>>
      /\ published' = published \o [k \in DOMAIN m.ids |-> <<m.name, m.ids[k]>>]
      /\ ready
  BY ReceiveFacts DEF IInv, TradesUpdate, Receive
<1>4. /\ published' \in Seq(Symbol \X (1 .. MaxChanges))
      /\ Range(published') = Range(published) \cup {<<m.name, id>> : id \in Range(m.ids)}
  BY <1>2, <1>3, PublishedFacts DEF IInv
<1>5. \A r : TradesOf(r)' = TradesOf(r)
  BY <1>3 DEF TradesOf
<1>6. \A r, l : ~Tells(m, r, l) /\ ~IsSnapshot(m, r)
  BY <1>1 DEF Tells, IsSnapshot
<1> HIDE DEF m
<1>7. TypeOK'
  BY <1>1, <1>3, <1>4 DEF IInv, TypeOK
<1>8. QuietWhenDown' /\ NeverBadState'
  BY <1>3 DEF IInv, QuietWhenDown, NeverBadState
<1>0. Receive("trades")
  BY DEF TradesUpdate
<1>9. SnapshotAhead'
  BY <1>0, <1>3, <1>6, TailSnapshots DEF m
<1>10. BooksConverge'
  BY <1>0, <1>3, <1>6, TailBooks DEF m
<1>11. TradesTrue'
  BY <1>1, <1>5 DEF IInv, TradesTrue
<1>12. TradesDelivered'
  <2>1. ASSUME NEW r \in Symbol, <<"trades", r>> \in subscribed', NEW id \in TradesOf(r)'
        PROVE  <<r, id>> \in Range(published') \/ \E p \in DOMAIN channel' : Delivers(channel'[p], r, id)
    <3>1. <<r, id>> \in Range(published) \/ \E p \in DOMAIN channel : Delivers(channel[p], r, id)
      BY <1>3, <1>5, <2>1 DEF IInv, TradesDelivered
    <3>2. Delivers(m, r, id) => <<r, id>> \in Range(published')
      BY <1>4 DEF Delivers
    <3> QED
      BY <1>1, <1>4, <3>1, <3>2 DEF m
  <2>2. ASSUME NEW trade \in Range(published')
        PROVE  trade[2] \in TradesOf(trade[1])'
    <3>1. Range(m.ids) \subseteq TradesOf(m.name)
      BY <1>1 DEF IInv, TradesTrue, m
    <3> QED
      BY <1>4, <1>5, <2>2, <3>1 DEF IInv, TradesDelivered
  <2> QED
    BY <2>1, <2>2 DEF TradesDelivered
<1> QED
  BY <1>7, <1>8, <1>9, <1>10, <1>11, <1>12 DEF IInv

(* A change under way at the head of the channel finds its book, so that   *)
(* DepthUpdate always publishes.                                           *)
LEMMA DepthPublishes ==
  ASSUME IInv, DepthUpdate
  PROVE  LET m == channel[1] IN
         /\ m.name \in Symbol /\ m.snapshot \in BOOLEAN /\ m.levels \in Update /\ m.method = "depth"
         /\ levels' = m.levels
         /\ m.snapshot \/ m.name \in DOMAIN books
         /\ books' = [s \in DOMAIN books \cup {m.name} |->
                         IF s # m.name THEN books[s]
                         ELSE Applied(IF m.snapshot THEN EmptyBook ELSE books[s], m.snapshot, m.levels)]
         /\ UNCHANGED <<process, ready, connections, requested, subscribed, exchange, traded, changes, published>>
<1> DEFINE m == channel[1]
<1>1. 1 \in DOMAIN channel /\ Head(channel) = m /\ m \in Message /\ m.method = "depth"
  BY ReceiveFacts DEF IInv, DepthUpdate
<1>2. m.name \in Symbol /\ m.snapshot \in BOOLEAN /\ m.levels \in Update
  BY <1>1 DEF Message
<1>3. m.snapshot \/ m.name \in DOMAIN books
  BY <1>1 DEF IInv, SnapshotAhead, IsSnapshot
<1>4. levels' = m.levels /\ Publish(m.name, m.snapshot, levels')
      /\ UNCHANGED <<ready, connections, requested, subscribed, exchange, traded, changes, published>>
  BY <1>1 DEF DepthUpdate
<1> HIDE DEF m
<1>5. Publish(m.name, m.snapshot, m.levels)
  BY <1>4
<1>6. /\ books' = [s \in DOMAIN books \cup {m.name} |->
                      IF s # m.name THEN books[s]
                      ELSE Applied(IF m.snapshot THEN EmptyBook ELSE books[s], m.snapshot, m.levels)]
      /\ process' = process
  BY <1>3, <1>5 DEF Publish
<1>7. /\ m.name \in Symbol /\ m.snapshot \in BOOLEAN /\ m.levels \in Update /\ m.method = "depth"
      /\ levels' = m.levels
      /\ m.snapshot \/ m.name \in DOMAIN books
      /\ books' = [s \in DOMAIN books \cup {m.name} |->
                      IF s # m.name THEN books[s]
                      ELSE Applied(IF m.snapshot THEN EmptyBook ELSE books[s], m.snapshot, m.levels)]
      /\ UNCHANGED <<process, ready, connections, requested, subscribed, exchange, traded, changes, published>>
  BY <1>1, <1>2, <1>3, <1>4, <1>6
<1> QED
  BY <1>7 DEF m

LEMMA DepthUpdateIInv ==
  ASSUME IInv, DepthUpdate
  PROVE  IInv'
<1> DEFINE m == channel[1]
<1>1. /\ channel' \in Seq(Message)
      /\ 1 \in DOMAIN channel
      /\ DOMAIN channel \subseteq Nat \ {0}
      /\ \A p \in DOMAIN channel' : p + 1 \in DOMAIN channel /\ channel'[p] = channel[p + 1]
      /\ \A p \in DOMAIN channel : p = 1 \/ (p - 1 \in DOMAIN channel' /\ channel'[p - 1] = channel[p])
  BY ReceiveFacts DEF IInv, DepthUpdate
<1>2. ready
  BY DEF DepthUpdate, Receive
<1>3. /\ m.name \in Symbol /\ m.snapshot \in BOOLEAN /\ m.levels \in Update /\ m.method = "depth"
      /\ levels' = m.levels
      /\ m.snapshot \/ m.name \in DOMAIN books
      /\ books' = [s \in DOMAIN books \cup {m.name} |->
                      IF s # m.name THEN books[s]
                      ELSE Applied(IF m.snapshot THEN EmptyBook ELSE books[s], m.snapshot, m.levels)]
      /\ UNCHANGED <<process, ready, connections, requested, subscribed, exchange, traded, changes, published>>
  BY DepthPublishes
<1>4. channel' \in Seq(Message) /\ DOMAIN channel' \subseteq Nat \ {0}
  BY <1>1
<1> HIDE DEF m
<1>5. DOMAIN books' = DOMAIN books \cup {m.name} /\ \A r \in DOMAIN books : r # m.name => books'[r] = books[r]
  BY <1>3
<1>6. \A l \in Level : books'[m.name][l] = IF l \in DOMAIN m.levels THEN m.levels[l]
                                           ELSE IF m.snapshot THEN 0 ELSE books[m.name][l]
  BY <1>3 DEF Applied
<1>7. books'[m.name] \in Book
  <2>1. \A l \in DOMAIN m.levels : m.levels[l] \in Quantity
    BY <1>3 DEF Update
  <2>2. ~m.snapshot => books[m.name] \in [Level -> Quantity]
    BY <1>3 DEF IInv, TypeOK, Book
  <2>3. \A l \in Level : books'[m.name][l] \in Quantity
    BY <1>6, <2>1, <2>2, QuantityAssumption
  <2>4. books'[m.name] = [l \in Level |-> books'[m.name][l]]
    BY <1>3 DEF Applied
  <2> QED
    BY <2>3, <2>4 DEF Book
<1>8. TypeOK'
  BY <1>3, <1>4, <1>5, <1>7 DEF IInv, TypeOK
<1>9. \A r : TradesOf(r)' = TradesOf(r)
  BY <1>3 DEF TradesOf
<1>10. QuietWhenDown' /\ NeverBadState'
  BY <1>2, <1>3 DEF IInv, QuietWhenDown, NeverBadState
<1>11. TradesTrue'
  BY <1>1, <1>9 DEF IInv, TradesTrue
<1>12. TradesDelivered'
  <2>1. \A r, id : ~Delivers(channel[1], r, id)
    BY <1>3 DEF Delivers, m
  <2> QED
    BY <1>1, <1>3, <1>9, <2>1 DEF IInv, TradesDelivered
<1>13. SnapshotAhead'
  <2>1. \A r \in Symbol : IsSnapshot(channel[1], r) => r \in DOMAIN books'
    BY <1>5 DEF IsSnapshot, m
  <2>2. ASSUME NEW r \in Symbol, <<"depth", r>> \in subscribed'
        PROVE  r \in DOMAIN books' \/ \E p \in DOMAIN channel' : IsSnapshot(channel'[p], r)
    BY <1>1, <1>3, <1>5, <2>1, <2>2 DEF IInv, SnapshotAhead
  <2>3. ASSUME NEW p \in DOMAIN channel', channel'[p].method = "depth"
        PROVE  \/ channel'[p].name \in DOMAIN books'
               \/ \E k \in 1 .. p : IsSnapshot(channel'[k], channel'[p].name)
    <3>1. \/ channel'[p].name \in DOMAIN books
          \/ \E k \in 1 .. (p + 1) : IsSnapshot(channel[k], channel'[p].name)
      BY <1>1, <2>3 DEF IInv, SnapshotAhead
    <3>2. ASSUME NEW k \in 1 .. (p + 1), IsSnapshot(channel[k], channel'[p].name), k # 1
          PROVE  \E o \in 1 .. p : IsSnapshot(channel'[o], channel'[p].name)
      <4>1. p \in Nat \ {0}
        BY <1>4
      <4>2. k - 1 \in 1 .. p /\ k \in DOMAIN channel
        BY <1>1, <3>2, <4>1 DEF IInv, TypeOK
      <4> QED
        BY <1>1, <3>2, <4>2
    <3>3. IsSnapshot(channel[1], channel'[p].name) => channel'[p].name \in DOMAIN books'
      BY <1>5 DEF IsSnapshot, m
    <3> QED
      BY <1>5, <3>1, <3>2, <3>3
  <2> QED
    BY <2>2, <2>3 DEF SnapshotAhead
<1>14. BooksConverge'
  <2>1. ASSUME Running', NEW r \in Symbol, NEW l \in Level, <<"depth", r>> \in subscribed',
               NEW p \in DOMAIN channel', Tells(channel'[p], r, l),
               \A q \in DOMAIN channel' : q > p => ~Tells(channel'[q], r, l)
        PROVE  Told(channel'[p], l) = exchange'[r][l]
    <3>1. \A q \in DOMAIN channel : q > p + 1 => ~Tells(channel[q], r, l)
      BY <1>1, <1>4, <2>1
    <3> QED
      BY <1>1, <1>3, <2>1, <3>1 DEF IInv, BooksConverge, Running
  <2>2. ASSUME Running', NEW r \in Symbol, NEW l \in Level, <<"depth", r>> \in subscribed',
               \A p \in DOMAIN channel' : ~Tells(channel'[p], r, l)
        PROVE  r \in DOMAIN books' /\ books'[r][l] = exchange'[r][l]
    <3>1. \A q \in DOMAIN channel : q > 1 => ~Tells(channel[q], r, l)
      BY <1>1, <2>2
    <3>2. CASE Tells(m, r, l)
      <4>1. Told(m, l) = exchange[r][l]
        BY <1>1, <1>3, <2>2, <3>1, <3>2 DEF IInv, BooksConverge, Running, m
      <4>2. r = m.name /\ (m.snapshot \/ l \in DOMAIN m.levels)
        BY <3>2 DEF Tells
      <4>3. books'[r][l] = Told(m, l)
        BY <1>6, <4>2 DEF Told
      <4> QED
        BY <1>3, <1>5, <4>1, <4>2, <4>3
    <3>3. CASE ~Tells(m, r, l)
      <4>1. \A q \in DOMAIN channel : ~Tells(channel[q], r, l)
        BY <1>1, <3>1, <3>3 DEF m
      <4>2. r \in DOMAIN books /\ books[r][l] = exchange[r][l]
        BY <1>3, <2>2, <4>1 DEF IInv, BooksConverge, Running
      <4>3. books'[r][l] = books[r][l]
        BY <1>3, <1>5, <1>6, <3>3, <4>2 DEF Tells
      <4> QED
        BY <1>3, <1>5, <4>2, <4>3
    <3> QED
      BY <3>2, <3>3
  <2> QED
    BY <2>1, <2>2 DEF BooksConverge
<1> QED
  BY <1>8, <1>10, <1>11, <1>12, <1>13, <1>14 DEF IInv

(* Every step keeps the invariant.                                         *)
LEMMA NextIInv == IInv /\ [Next]_vars => IInv'
<1> SUFFICES ASSUME IInv, [Next]_vars PROVE IInv'
  OBVIOUS
<1>1. CASE Ready
  BY <1>1, ReadyIInv
<1>2. CASE Disconnected
  BY <1>2, DisconnectedIInv
<1>3. CASE \E method \in Method, s \in Symbol : ExchangeSubscribe(method, s)
  BY <1>3, ExchangeSubscribeIInv
<1>4. CASE \E s \in Symbol, l \in Level, q \in Quantity : ExchangeChange(s, l, q)
  BY <1>4, ExchangeChangeIInv
<1>5. CASE \E s \in Symbol : ExchangeTrade(s)
  BY <1>5, ExchangeTradeIInv
<1>6. CASE DepthUpdate
  BY <1>6, DepthUpdateIInv
<1>7. CASE TradesUpdate
  BY <1>7, TradesUpdateIInv
<1>8. CASE UNCHANGED vars
  <2>1. TypeOK'
    BY <1>8 DEF IInv, TypeOK, vars, feedVars
  <2>2. SnapshotAhead' /\ QuietWhenDown' /\ NeverBadState' /\ BooksConverge'
    BY <1>8 DEF IInv, SnapshotAhead, QuietWhenDown, NeverBadState, BooksConverge, Running, vars, feedVars
  <2>3. TradesTrue' /\ TradesDelivered'
    BY <1>8 DEF IInv, TradesTrue, TradesDelivered, TradesOf, vars, feedVars
  <2> QED
    BY <2>1, <2>2, <2>3 DEF IInv
<1> QED
  BY <1>1, <1>2, <1>3, <1>4, <1>5, <1>6, <1>7, <1>8 DEF Next

(* The invariant of the feed and what is under way.                        *)
THEOREM FeedInvariant == Spec => []IInv
  BY InitIInv, NextIInv, PTL DEF Spec

(* The published books converge to the exchange's, through the shared      *)
(* buffers and over reconnects (market_data.cpp lines 274-287).            *)
THEOREM FeedBooksConverge == Spec => []BooksConverge
  BY FeedInvariant, PTL DEF IInv

(* log::fatal at line 303 is not reached.                                  *)
THEOREM FeedNeverBadState == Spec => []NeverBadState
  BY FeedInvariant, PTL DEF IInv

(* No trade is lost, and none published under another symbol (308-344).    *)
THEOREM FeedTradesDelivered == Spec => []TradesDelivered
  BY FeedInvariant, PTL DEF IInv

(* The buffers, books and messages keep their types.                       *)
THEOREM FeedTypeCorrect == Spec => []TypeOK
  BY FeedInvariant, PTL DEF IInv
-----------------------------------------------------------------------------
(* The history.  What is published of a symbol is one of the books of the  *)
(* exchange since each message leads from one of them to the next that     *)
(* differs: nothing that changed the book is missing between two messages. *)

IsDepth(m, s) == m.method = "depth" /\ m.name = s

HistoryOK ==
    /\ history \in Seq([Symbol -> Book]) /\ Len(history) \in Nat \ {0}
    /\ exchange = history[Len(history)]
    /\ versions \in Seq(Nat) /\ DOMAIN versions = DOMAIN channel
    /\ \A p \in DOMAIN channel : versions[p] \in DOMAIN history

ShownOK ==
    /\ shown \in [Symbol -> Nat]
    /\ \A s \in Symbol : shown[s] <= Len(history)
    /\ \A s \in DOMAIN books : shown[s] # 0 /\ books[s] = history[shown[s]][s]

(* A message leads to its version: a snapshot from nothing, a change from  *)
(* the version before.                                                     *)
Leads(m, n) ==
    IF m.snapshot
    THEN history[n][m.name] = Applied(EmptyBook, TRUE, m.levels)
    ELSE /\ n - 1 \in DOMAIN history
         /\ history[n][m.name] = Applied(history[n - 1][m.name], FALSE, m.levels)

MessagesLead ==
    \A p \in DOMAIN channel : channel[p].method = "depth" =>
        <<"depth", channel[p].name>> \in subscribed /\ Leads(channel[p], versions[p])

(* Versions increase, and only the first message may be a snapshot.        *)
InOrder ==
    \A s \in Symbol : \A p \in DOMAIN channel : IsDepth(channel[p], s) =>
        /\ shown[s] <= versions[p]
        /\ ~channel[p].snapshot => shown[s] < versions[p]
        /\ \A q \in DOMAIN channel : IsDepth(channel[q], s) /\ p < q =>
              versions[p] < versions[q] /\ ~channel[q].snapshot

(* Between a message and the next one the book does not change ...         *)
UnchangedAfter(s, w) ==
    \A p \in DOMAIN channel :
        /\ IsDepth(channel[p], s) /\ versions[p] <= w
        /\ \A q \in DOMAIN channel : IsDepth(channel[q], s) /\ p < q => w < versions[q]
        => history[w][s] = history[versions[p]][s]

(* ... nor between what was published and the first change under way.      *)
UnchangedSince(s, w) ==
    /\ shown[s] <= w
    /\ \A p \in DOMAIN channel : IsDepth(channel[p], s) => w < versions[p] /\ ~channel[p].snapshot
    => history[w][s] = history[shown[s]][s]

NothingMissed ==
    \A s \in Symbol : <<"depth", s>> \in subscribed =>
        \A w \in DOMAIN history : UnchangedAfter(s, w) /\ UnchangedSince(s, w)

AskedOnce == requested \cap subscribed = {}

HInv == HistoryOK /\ ShownOK /\ MessagesLead /\ InOrder /\ NothingMissed /\ AskedOnce

(* There is one book at first, and nothing under way.                      *)
LEMMA HistoryInitHInv == HistoryInit => HInv
<1> SUFFICES ASSUME HistoryInit PROVE HInv
  OBVIOUS
<1>1. /\ channel = <<>> /\ versions = <<>> /\ DOMAIN channel = {} /\ DOMAIN versions = {}
      /\ DOMAIN books = {} /\ requested = {} /\ subscribed = {}
  BY DEF HistoryInit, Init
<1>2. exchange \in [Symbol -> Book]
  BY QuantityAssumption DEF HistoryInit, Init, EmptyBook, Book
<1>3. /\ history = <<exchange>> /\ history \in Seq([Symbol -> Book])
      /\ Len(history) = 1 /\ history[1] = exchange
  BY <1>2 DEF HistoryInit
<1>4. shown \in [Symbol -> Nat] /\ \A s \in Symbol : shown[s] = 0
  BY DEF HistoryInit
<1>5. versions \in Seq(Nat)
  BY <1>1, EmptySeq
<1>6. HistoryOK
  BY <1>1, <1>3, <1>5 DEF HistoryOK
<1>7. ShownOK
  BY <1>1, <1>3, <1>4 DEF ShownOK
<1> QED
  BY <1>1, <1>6, <1>7 DEF HInv, MessagesLead, InOrder, NothingMissed, AskedOnce

(* A message that is sent, with its version.                               *)
LEMMA StampFacts ==
  ASSUME TypeOK, HistoryOK, NEW m \in Message, Send(m), NEW n \in Nat, Stamp(n)
  PROVE  \E last \in Nat :
           /\ DOMAIN channel' = DOMAIN channel \cup {last} /\ DOMAIN versions' = DOMAIN channel'
           /\ channel'[last] = m /\ versions'[last] = n /\ versions' \in Seq(Nat)
           /\ \A p \in DOMAIN channel : p \in Nat /\ p < last /\ channel'[p] = channel[p] /\ versions'[p] = versions[p]
<1>1. /\ channel \in Seq(Message) /\ channel' = Append(channel, m)
      /\ versions \in Seq(Nat) /\ DOMAIN versions = DOMAIN channel
  BY DEF TypeOK, Send, HistoryOK
<1>2. Len(channel') = Len(channel) + 1 /\ Len(channel) \in Nat
  BY <1>1
<1>3. versions' = Append(versions, n)
  BY <1>2 DEF Stamp
<1>4. DOMAIN channel = 1 .. Len(channel) /\ Len(versions) = Len(channel)
  BY <1>1, <1>2
<1>5. /\ DOMAIN channel' = DOMAIN channel \cup {Len(channel) + 1}
      /\ channel'[Len(channel) + 1] = m
      /\ \A p \in DOMAIN channel : p \in Nat /\ p < Len(channel) + 1 /\ channel'[p] = channel[p]
  BY <1>1, <1>2, <1>4
<1>6. /\ DOMAIN versions' = DOMAIN versions \cup {Len(channel) + 1}
      /\ versions'[Len(channel) + 1] = n
      /\ versions' \in Seq(Nat)
      /\ \A p \in DOMAIN versions : versions'[p] = versions[p]
  BY <1>1, <1>2, <1>3, <1>4
<1> QED
  BY <1>1, <1>2, <1>5, <1>6

(* The message that is handled, with its version.                          *)
LEMMA HandledFacts ==
  ASSUME TypeOK, HistoryOK, NEW method, Receive(method), versions' = Tail(versions)
  PROVE  /\ 1 \in DOMAIN channel /\ 1 \in DOMAIN versions /\ Head(versions) = versions[1]
         /\ versions' \in Seq(Nat) /\ DOMAIN versions' = DOMAIN channel'
         /\ \A p \in DOMAIN channel' :
               p \in Nat \ {0} /\ p + 1 \in DOMAIN channel
               /\ channel'[p] = channel[p + 1] /\ versions'[p] = versions[p + 1]
         /\ \A p \in DOMAIN channel :
               p = 1 \/ (p - 1 \in DOMAIN channel' /\ channel'[p - 1] = channel[p] /\ versions'[p - 1] = versions[p])
<1>1. /\ channel \in Seq(Message) /\ channel # <<>> /\ channel' = Tail(channel)
      /\ versions \in Seq(Nat) /\ DOMAIN versions = DOMAIN channel
  BY DEF TypeOK, Receive, HistoryOK
<1>2. Len(versions) = Len(channel) /\ Len(channel) \in Nat \ {0} /\ versions # <<>>
  BY <1>1
<1>3. /\ DOMAIN channel = 1 .. Len(channel) /\ DOMAIN channel' = 1 .. (Len(channel) - 1)
      /\ \A p \in DOMAIN channel' : channel'[p] = channel[p + 1]
  BY <1>1, <1>2
<1>4. /\ versions' \in Seq(Nat) /\ DOMAIN versions' = 1 .. (Len(channel) - 1)
      /\ \A p \in DOMAIN versions' : versions'[p] = versions[p + 1]
      /\ Head(versions) = versions[1]
  BY <1>1, <1>2
<1> QED
  BY <1>1, <1>2, <1>3, <1>4

(* A message that is no order book changes nothing, sent or handled.       *)
LEMMA TradesSentHInv ==
  ASSUME TypeOK, HInv, NEW m \in Message, m.method # "depth", Send(m), Stamp(Len(history)),
         UNCHANGED <<exchange, books, history, shown>>,
         \A s \in Symbol : <<"depth", s>> \in subscribed' <=> <<"depth", s>> \in subscribed, AskedOnce'
  PROVE  HInv'
<1>1. Len(history) \in Nat /\ Len(history) \in DOMAIN history
  BY DEF HInv, HistoryOK
<1>2. PICK last \in Nat :
        /\ DOMAIN channel' = DOMAIN channel \cup {last} /\ DOMAIN versions' = DOMAIN channel'
        /\ channel'[last] = m /\ versions'[last] = Len(history) /\ versions' \in Seq(Nat)
        /\ \A p \in DOMAIN channel : p \in Nat /\ p < last /\ channel'[p] = channel[p] /\ versions'[p] = versions[p]
  <2> HIDE DEF HInv
  <2>1. HistoryOK
    BY DEF HInv
  <2> QED
    BY <1>1, <2>1, StampFacts
<1>3. \A s : ~IsDepth(m, s)
  BY DEF IsDepth
<1>4. HistoryOK'
  BY <1>1, <1>2 DEF HInv, HistoryOK
<1>5. ShownOK'
  BY DEF HInv, ShownOK
<1>6. MessagesLead'
  <2>1. \A p \in DOMAIN channel' : channel'[p].method = "depth" => p \in DOMAIN channel
    BY <1>2
  <2>2. \A p \in DOMAIN channel : channel[p].method = "depth" => channel[p].name \in Symbol
    BY DEF TypeOK, Message
  <2>3. \A p \in DOMAIN channel : Leads(channel[p], versions[p]) => Leads(channel[p], versions[p])'
    BY <1>2 DEF Leads
  <2> QED
    BY <1>2, <2>1, <2>2, <2>3 DEF HInv, MessagesLead
<1>7. InOrder'
  BY <1>2, <1>3 DEF HInv, InOrder
<1>8. ASSUME NEW s \in Symbol, NEW w \in DOMAIN history, UnchangedAfter(s, w), UnchangedSince(s, w)
      PROVE  UnchangedAfter(s, w)' /\ UnchangedSince(s, w)'
  <2>1. ASSUME NEW p \in DOMAIN channel', IsDepth(channel'[p], s)
        PROVE  p \in DOMAIN channel /\ channel'[p] = channel[p] /\ versions'[p] = versions[p]
    BY <1>2, <1>3, <2>1
  <2>2. UnchangedAfter(s, w)'
    BY <1>2, <1>8, <2>1 DEF UnchangedAfter
  <2>3. UnchangedSince(s, w)'
    BY <1>2, <1>8 DEF UnchangedSince
  <2> QED
    BY <2>2, <2>3
<1>9. NothingMissed'
  BY <1>8 DEF HInv, NothingMissed
<1> QED
  BY <1>4, <1>5, <1>6, <1>7, <1>9 DEF HInv

(* Trades that are handled say nothing of books.                           *)
LEMMA TradesUpdateHInv ==
  ASSUME TypeOK, HInv, TradesUpdate, versions' = Tail(versions), UNCHANGED <<history, shown>>
  PROVE  HInv'
<1>1. /\ 1 \in DOMAIN channel
      /\ versions' \in Seq(Nat) /\ DOMAIN versions' = DOMAIN channel'
      /\ \A p \in DOMAIN channel' :
            p \in Nat \ {0} /\ p + 1 \in DOMAIN channel
            /\ channel'[p] = channel[p + 1] /\ versions'[p] = versions[p + 1]
      /\ \A p \in DOMAIN channel :
            p = 1 \/ (p - 1 \in DOMAIN channel' /\ channel'[p - 1] = channel[p] /\ versions'[p - 1] = versions[p])
  <2>1. HistoryOK /\ Receive("trades")
    BY DEF HInv, TradesUpdate
  <2> QED
    BY <2>1, HandledFacts
<1>2. channel[1].method = "trades" /\ UNCHANGED <<requested, subscribed, exchange, books>>
  BY ReceiveFacts DEF TradesUpdate
<1>3. DOMAIN channel \subseteq Nat
  BY DEF TypeOK
<1>4. HistoryOK'
  BY <1>1, <1>2 DEF HInv, HistoryOK
<1>5. ShownOK' /\ AskedOnce'
  BY <1>2 DEF HInv, ShownOK, AskedOnce
<1>6. MessagesLead'
  <2>1. \A p \in DOMAIN channel' : Leads(channel[p + 1], versions[p + 1]) => Leads(channel[p], versions[p])'
    BY <1>1 DEF Leads
  <2> QED
    BY <1>1, <1>2, <2>1 DEF HInv, MessagesLead
<1>7. InOrder'
  BY <1>1, <1>2 DEF HInv, InOrder
<1>8. ASSUME NEW s \in Symbol, NEW w \in DOMAIN history, UnchangedAfter(s, w), UnchangedSince(s, w)
      PROVE  UnchangedAfter(s, w)' /\ UnchangedSince(s, w)'
  <2>1. ~IsDepth(channel[1], s)
    BY <1>2 DEF IsDepth
  <2>2. ASSUME NEW p \in DOMAIN channel', IsDepth(channel'[p], s), versions'[p] <= w,
               \A q \in DOMAIN channel' : IsDepth(channel'[q], s) /\ p < q => w < versions'[q]
        PROVE  history[w][s] = history[versions'[p]][s]
    <3>1. p + 1 \in DOMAIN channel /\ channel'[p] = channel[p + 1] /\ versions'[p] = versions[p + 1] /\ p \in Nat \ {0}
      BY <1>1
    <3>2. \A q \in DOMAIN channel : p + 1 < q => q # 1 /\ q - 1 \in DOMAIN channel' /\ p < q - 1
      BY <1>1, <1>3, <3>1
    <3>3. \A q \in DOMAIN channel : IsDepth(channel[q], s) /\ p + 1 < q => w < versions[q]
      BY <1>1, <2>2, <3>2
    <3> QED
      BY <1>8, <2>2, <3>1, <3>3 DEF UnchangedAfter
  <2>3. UnchangedAfter(s, w)'
    BY <2>2 DEF UnchangedAfter
  <2>4. UnchangedSince(s, w)'
    BY <1>1, <1>8, <2>1 DEF UnchangedSince
  <2> QED
    BY <2>3, <2>4
<1>9. NothingMissed'
  BY <1>2, <1>8 DEF HInv, NothingMissed
<1> QED
  BY <1>4, <1>5, <1>6, <1>7, <1>9 DEF HInv

(* What DepthUpdate publishes is the book of the exchange that its message *)
(* leads to.                                                               *)
LEMMA DepthUpdateShows ==
  ASSUME IInv, HInv, DepthUpdate
  PROVE  /\ channel[1].name \in Symbol /\ versions[1] \in DOMAIN history
         /\ shown[channel[1].name] <= versions[1] /\ versions[1] \in Nat \ {0}
         /\ books' = [s \in DOMAIN books \cup {channel[1].name} |->
                         IF s = channel[1].name THEN history[versions[1]][s] ELSE books[s]]
<1> DEFINE m == channel[1]
           n == versions[1]
<1>1. /\ m.name \in Symbol /\ m.snapshot \in BOOLEAN /\ m.method = "depth"
      /\ m.snapshot \/ m.name \in DOMAIN books
      /\ books' = [s \in DOMAIN books \cup {m.name} |->
                      IF s # m.name THEN books[s]
                      ELSE Applied(IF m.snapshot THEN EmptyBook ELSE books[s], m.snapshot, m.levels)]
  BY DepthPublishes
<1>2. 1 \in DOMAIN channel /\ DOMAIN channel \subseteq Nat \ {0}
  BY ReceiveFacts DEF IInv, DepthUpdate
<1>3. /\ n \in DOMAIN history /\ n \in Nat \ {0} /\ shown[m.name] <= n /\ (~m.snapshot => shown[m.name] < n)
      /\ <<"depth", m.name>> \in subscribed /\ Leads(m, n)
      /\ \A q \in DOMAIN channel : IsDepth(channel[q], m.name) /\ 1 < q => n < versions[q] /\ ~channel[q].snapshot
  <2>1. n \in DOMAIN history /\ n \in Nat \ {0}
    BY <1>2 DEF HInv, HistoryOK
  <2>2. IsDepth(m, m.name)
    BY <1>1 DEF IsDepth
  <2> QED
    BY <1>1, <1>2, <2>1, <2>2 DEF HInv, MessagesLead, InOrder
<1>4. ASSUME ~m.snapshot
      PROVE  history[n - 1][m.name] = books[m.name]
  <2>1. n - 1 \in DOMAIN history
    BY <1>3, <1>4 DEF Leads
  <2>2. shown[m.name] \in Nat /\ \A p \in DOMAIN channel : versions[p] \in Nat
    BY <1>1 DEF HInv, ShownOK, HistoryOK
  <2>3. shown[m.name] <= n - 1
    <3> HIDE DEF m, n
    <3> QED
      BY <1>3, <1>4, <2>2
  <2>4. \A p \in DOMAIN channel : IsDepth(channel[p], m.name) => n - 1 < versions[p] /\ ~channel[p].snapshot
    BY <1>2, <1>3, <1>4, <2>2
  <2>5. UnchangedSince(m.name, n - 1)
    BY <1>1, <1>3, <2>1 DEF HInv, NothingMissed
  <2>6. history[n - 1][m.name] = history[shown[m.name]][m.name]
    BY <2>3, <2>4, <2>5 DEF UnchangedSince
  <2> QED
    BY <1>1, <1>4, <2>6 DEF HInv, ShownOK
<1>5. history[n][m.name] = Applied(IF m.snapshot THEN EmptyBook ELSE books[m.name], m.snapshot, m.levels)
  <2>1. CASE m.snapshot
    <3>1. m.snapshot = TRUE
      BY <1>1, <2>1
    <3> QED
      BY <1>3, <3>1 DEF Leads
  <2>2. CASE ~m.snapshot
    <3>1. m.snapshot = FALSE
      BY <1>1, <2>2
    <3> QED
      BY <1>3, <1>4, <2>2, <3>1 DEF Leads
  <2> QED
    BY <2>1, <2>2
<1>6. books' = [s \in DOMAIN books \cup {m.name} |-> IF s = m.name THEN history[n][s] ELSE books[s]]
  <2> HIDE DEF m, n
  <2> QED
    BY <1>1, <1>5
<1> QED
  BY <1>1, <1>3, <1>6

(* After an update the next message continues from what was published.     *)
LEMMA DepthUpdateHInv ==
  ASSUME IInv, HInv, DepthUpdate, versions' = Tail(versions), UNCHANGED history,
         shown' = [shown EXCEPT ![Head(channel).name] = Head(versions)]
  PROVE  HInv'
<1> DEFINE m == channel[1]
           n == versions[1]
<1>1. /\ 1 \in DOMAIN channel /\ Head(versions) = n
      /\ versions' \in Seq(Nat) /\ DOMAIN versions' = DOMAIN channel'
      /\ \A p \in DOMAIN channel' :
            p \in Nat \ {0} /\ p + 1 \in DOMAIN channel
            /\ channel'[p] = channel[p + 1] /\ versions'[p] = versions[p + 1]
      /\ \A p \in DOMAIN channel :
            p = 1 \/ (p - 1 \in DOMAIN channel' /\ channel'[p - 1] = channel[p] /\ versions'[p - 1] = versions[p])
  <2>1. HistoryOK /\ Receive("depth") /\ TypeOK
    BY DEF HInv, IInv, DepthUpdate
  <2> QED
    BY <2>1, HandledFacts
<1>2. /\ Head(channel) = m /\ m.method = "depth" /\ DOMAIN channel \subseteq Nat \ {0}
      /\ UNCHANGED <<requested, subscribed, exchange>>
  BY ReceiveFacts DEF IInv, DepthUpdate
<1>3. /\ m.name \in Symbol /\ n \in DOMAIN history /\ shown[m.name] <= n /\ n \in Nat \ {0}
      /\ books' = [s \in DOMAIN books \cup {m.name} |-> IF s = m.name THEN history[n][s] ELSE books[s]]
  BY DepthUpdateShows
<1>4. shown \in [Symbol -> Nat] /\ \A p \in DOMAIN channel : versions[p] \in Nat
  BY DEF HInv, ShownOK, HistoryOK
<1>5. /\ shown' \in [Symbol -> Nat] /\ shown'[m.name] = n
      /\ \A s \in Symbol : s # m.name => shown'[s] = shown[s]
  BY <1>1, <1>2, <1>3, <1>4
<1>6. \A q \in DOMAIN channel : IsDepth(channel[q], m.name) /\ 1 < q => n < versions[q] /\ ~channel[q].snapshot
  <2>1. IsDepth(m, m.name)
    BY <1>2 DEF IsDepth
  <2> QED
    BY <1>1, <1>3, <2>1 DEF HInv, InOrder
<1>7. HistoryOK'
  BY <1>1, <1>2 DEF HInv, HistoryOK
<1>8. ShownOK'
  <2>1. n <= Len(history)
    BY <1>3, <1>7 DEF HInv, HistoryOK
  <2> HIDE DEF m, n
  <2>2. \A s \in Symbol : shown'[s] <= Len(history)
    BY <1>5, <2>1 DEF HInv, ShownOK
  <2>3. ASSUME NEW s \in DOMAIN books' PROVE shown'[s] # 0 /\ books'[s] = history[shown'[s]][s]
    <3>1. CASE s = m.name
      BY <1>3, <1>5, <3>1
    <3>2. CASE s # m.name
      <4>1. s \in DOMAIN books /\ books'[s] = books[s] /\ s \in Symbol
        BY <1>3, <3>2 DEF IInv, TypeOK
      <4> QED
        BY <1>5, <3>2, <4>1 DEF HInv, ShownOK
    <3> QED
      BY <3>1, <3>2
  <2> QED
    BY <1>5, <2>2, <2>3 DEF ShownOK
<1>9. MessagesLead' /\ AskedOnce'
  <2>1. \A p \in DOMAIN channel' : Leads(channel[p + 1], versions[p + 1]) => Leads(channel[p], versions[p])'
    BY <1>1 DEF Leads
  <2>2. MessagesLead'
    BY <1>1, <1>2, <2>1 DEF HInv, MessagesLead
  <2> QED
    BY <1>2, <2>2 DEF HInv, AskedOnce
<1>10. InOrder'
  <2>1. ASSUME NEW s \in Symbol, NEW p \in DOMAIN channel', IsDepth(channel'[p], s)
        PROVE  shown'[s] <= versions'[p] /\ (~channel'[p].snapshot => shown'[s] < versions'[p])
    <3>1. p + 1 \in DOMAIN channel /\ channel'[p] = channel[p + 1] /\ versions'[p] = versions[p + 1] /\ 1 < p + 1
      BY <1>1
    <3>2. CASE s = m.name
      <4>1. n < versions[p + 1]
        BY <1>6, <2>1, <3>1, <3>2
      <4>2. shown'[s] = n /\ n \in Nat /\ versions'[p] = versions[p + 1] /\ versions[p + 1] \in Nat
        BY <1>3, <1>4, <1>5, <3>1, <3>2
      <4> DEFINE v == versions[p + 1]
      <4> HIDE DEF n, v
      <4>3. n < v /\ n \in Nat /\ v \in Nat
        BY <4>1, <4>2 DEF v
      <4>4. n <= v /\ n < v
        BY <4>3
      <4> QED
        BY <4>2, <4>4 DEF v
    <3>3. CASE s # m.name
      BY <1>5, <2>1, <3>1, <3>3 DEF HInv, InOrder
    <3> QED
      BY <3>2, <3>3
  <2>2. ASSUME NEW s \in Symbol, NEW p \in DOMAIN channel', NEW q \in DOMAIN channel',
               IsDepth(channel'[p], s), IsDepth(channel'[q], s), p < q
        PROVE  versions'[p] < versions'[q] /\ ~channel'[q].snapshot
    BY <1>1, <2>2 DEF HInv, InOrder
  <2> QED
    BY <2>1, <2>2 DEF InOrder
<1>11. ASSUME NEW s \in Symbol, NEW w \in DOMAIN history, UnchangedAfter(s, w), UnchangedSince(s, w)
       PROVE  UnchangedAfter(s, w)' /\ UnchangedSince(s, w)'
  <2>1. ASSUME NEW p \in DOMAIN channel', IsDepth(channel'[p], s), versions'[p] <= w,
               \A q \in DOMAIN channel' : IsDepth(channel'[q], s) /\ p < q => w < versions'[q]
        PROVE  history[w][s] = history[versions'[p]][s]
    <3>1. p + 1 \in DOMAIN channel /\ channel'[p] = channel[p + 1] /\ versions'[p] = versions[p + 1] /\ p \in Nat \ {0}
      BY <1>1
    <3>2. \A q \in DOMAIN channel : p + 1 < q => q # 1 /\ q - 1 \in DOMAIN channel' /\ p < q - 1
      BY <1>1, <1>2, <3>1
    <3>3. \A q \in DOMAIN channel : IsDepth(channel[q], s) /\ p + 1 < q => w < versions[q]
      BY <1>1, <2>1, <3>2
    <3> QED
      BY <1>11, <2>1, <3>1, <3>3 DEF UnchangedAfter
  <2>2. UnchangedAfter(s, w)'
    BY <2>1 DEF UnchangedAfter
  <2>3. ASSUME shown'[s] <= w,
               \A p \in DOMAIN channel' : IsDepth(channel'[p], s) => w < versions'[p] /\ ~channel'[p].snapshot
        PROVE  history[w][s] = history[shown'[s]][s]
    <3>1. \A q \in DOMAIN channel : IsDepth(channel[q], s) /\ q # 1 => w < versions[q] /\ ~channel[q].snapshot
      BY <1>1, <2>3
    <3>2. CASE s = m.name
      <4>1. IsDepth(channel[1], s) /\ versions[1] <= w
        BY <1>2, <1>5, <2>3, <3>2 DEF IsDepth
      <4>2. \A q \in DOMAIN channel : IsDepth(channel[q], s) /\ 1 < q => w < versions[q]
        BY <1>2, <3>1
      <4>3. history[w][s] = history[versions[1]][s]
        BY <1>1, <1>11, <4>1, <4>2 DEF UnchangedAfter
      <4> QED
        BY <1>5, <3>2, <4>3
    <3>3. CASE s # m.name
      <4>1. ~IsDepth(channel[1], s)
        BY <3>3 DEF IsDepth
      <4> QED
        BY <1>5, <1>11, <2>3, <3>1, <3>3, <4>1 DEF UnchangedSince
    <3> QED
      BY <3>2, <3>3
  <2>4. UnchangedSince(s, w)'
    BY <2>3 DEF UnchangedSince
  <2> QED
    BY <2>2, <2>4
<1>12. NothingMissed'
  BY <1>2, <1>11 DEF HInv, NothingMissed
<1> QED
  BY <1>7, <1>8, <1>9, <1>10, <1>12 DEF HInv

(* A symbol that is subscribed is told its present book first.             *)
LEMMA SnapshotSentHInv ==
  ASSUME TypeOK, HInv, NEW s \in Symbol, NEW m \in Snapshots("depth", s), Send(m), Stamp(Len(history)),
         <<"depth", s>> \in requested,
         requested' = requested \ {<<"depth", s>>}, subscribed' = subscribed \cup {<<"depth", s>>},
         UNCHANGED <<exchange, books, history, shown>>
  PROVE  HInv'
<1>1. /\ m \in Message /\ m.method = "depth" /\ m.name = s /\ m.snapshot
      /\ \A l \in Level : exchange[s][l] = IF l \in DOMAIN m.levels THEN m.levels[l] ELSE 0
  <2>1. "depth" \in Method
    BY DEF Method
  <2> QED
    BY <2>1, SnapshotType
<1>2. Len(history) \in Nat /\ Len(history) \in DOMAIN history /\ DOMAIN history \subseteq Nat
      /\ exchange = history[Len(history)] /\ \A w \in DOMAIN history : w <= Len(history)
  BY DEF HInv, HistoryOK
<1>3. PICK last \in Nat :
        /\ DOMAIN channel' = DOMAIN channel \cup {last} /\ DOMAIN versions' = DOMAIN channel'
        /\ channel'[last] = m /\ versions'[last] = Len(history) /\ versions' \in Seq(Nat)
        /\ \A p \in DOMAIN channel : p \in Nat /\ p < last /\ channel'[p] = channel[p] /\ versions'[p] = versions[p]
  <2>1. HistoryOK /\ m \in Message /\ Len(history) \in Nat
    BY <1>1, <1>2 DEF HInv
  <2> QED
    BY <2>1, StampFacts
<1>4. \A p \in DOMAIN channel : ~IsDepth(channel[p], s)
  BY DEF HInv, AskedOnce, MessagesLead, IsDepth
<1>5. \A r : IsDepth(m, r) <=> r = s
  BY <1>1 DEF IsDepth
<1>6. HistoryOK'
  BY <1>2, <1>3 DEF HInv, HistoryOK
<1>7. ShownOK' /\ AskedOnce'
  BY DEF HInv, ShownOK, AskedOnce
<1>8. MessagesLead'
  <2>1. Leads(m, Len(history))
    <3>1. exchange[s] \in [Level -> Quantity]
      BY DEF TypeOK, Book
    <3>2. exchange[s] = Applied(EmptyBook, TRUE, m.levels)
      BY <1>1, <3>1 DEF Applied
    <3> QED
      BY <1>1, <1>2, <3>2 DEF Leads
  <2>2. Leads(m, Len(history))'
    BY <2>1 DEF Leads
  <2>3. \A p \in DOMAIN channel : Leads(channel[p], versions[p]) => Leads(channel[p], versions[p])'
    BY <1>3 DEF Leads
  <2>4. ASSUME NEW p \in DOMAIN channel', channel'[p].method = "depth"
        PROVE  <<"depth", channel'[p].name>> \in subscribed' /\ Leads(channel[p], versions[p])'
    <3>1. CASE p = last
      <4>1. Leads(channel[p], versions[p])' <=> Leads(m, Len(history))'
        BY <1>3, <3>1 DEF Leads
      <4> QED
        BY <1>1, <1>3, <2>2, <3>1, <4>1
    <3>2. CASE p # last
      BY <1>3, <2>3, <2>4, <3>2 DEF HInv, MessagesLead
    <3> QED
      BY <3>1, <3>2
  <2> QED
    BY <2>4 DEF MessagesLead
<1>9. InOrder'
  <2>1. shown[s] <= Len(history)
    BY DEF HInv, ShownOK
  <2>2. ASSUME NEW r \in Symbol, r # s, NEW p \in DOMAIN channel', IsDepth(channel'[p], r)
        PROVE  p \in DOMAIN channel /\ channel'[p] = channel[p] /\ versions'[p] = versions[p]
    BY <1>3, <1>5, <2>2
  <2>3. ASSUME NEW p \in DOMAIN channel', IsDepth(channel'[p], s)
        PROVE  p = last
    BY <1>3, <1>4, <2>3
  <2>4. ASSUME NEW r \in Symbol, NEW p \in DOMAIN channel', IsDepth(channel'[p], r)
        PROVE  shown'[r] <= versions'[p] /\ (~channel'[p].snapshot => shown'[r] < versions'[p])
    <3>1. CASE r = s
      BY <1>1, <1>3, <2>1, <2>3, <2>4, <3>1
    <3>2. CASE r # s
      BY <2>2, <2>4, <3>2 DEF HInv, InOrder
    <3> QED
      BY <3>1, <3>2
  <2>5. ASSUME NEW r \in Symbol, NEW p \in DOMAIN channel', NEW q \in DOMAIN channel',
               IsDepth(channel'[p], r), IsDepth(channel'[q], r), p < q
        PROVE  versions'[p] < versions'[q] /\ ~channel'[q].snapshot
    <3>1. r # s
      BY <2>3, <2>5
    <3> QED
      BY <2>2, <2>5, <3>1 DEF HInv, InOrder
  <2> QED
    BY <2>4, <2>5 DEF InOrder
<1>10. ASSUME NEW r \in Symbol, r # s, NEW w \in DOMAIN history, UnchangedAfter(r, w), UnchangedSince(r, w)
       PROVE  UnchangedAfter(r, w)' /\ UnchangedSince(r, w)'
  <2>1. ASSUME NEW p \in DOMAIN channel', IsDepth(channel'[p], r)
        PROVE  p \in DOMAIN channel /\ channel'[p] = channel[p] /\ versions'[p] = versions[p]
    BY <1>3, <1>5, <1>10, <2>1
  <2>2. UnchangedAfter(r, w)'
    BY <1>3, <1>10, <2>1 DEF UnchangedAfter
  <2>3. UnchangedSince(r, w)'
    BY <1>3, <1>10 DEF UnchangedSince
  <2> QED
    BY <2>2, <2>3
<1>11. ASSUME NEW w \in DOMAIN history PROVE UnchangedAfter(s, w)' /\ UnchangedSince(s, w)'
  <2>1. \A p \in DOMAIN channel' : IsDepth(channel'[p], s) <=> p = last
    BY <1>3, <1>4, <1>5
  <2>2. Len(history) <= w => w = Len(history)
    BY <1>2
  <2>3. UnchangedAfter(s, w)'
    BY <1>3, <2>1, <2>2 DEF UnchangedAfter
  <2>4. UnchangedSince(s, w)'
    BY <1>1, <1>3, <2>1 DEF UnchangedSince
  <2> QED
    BY <2>3, <2>4
<1>12. NothingMissed'
  BY <1>10, <1>11 DEF HInv, NothingMissed
<1> QED
  BY <1>6, <1>7, <1>8, <1>9, <1>12 DEF HInv

(* A subscription is answered by a snapshot of the book or of trades.      *)
LEMMA ExchangeSubscribeHInv ==
  ASSUME TypeOK, HInv, NEW method \in Method, NEW s \in Symbol, ExchangeSubscribe(method, s),
         Stamp(Len(history)), UNCHANGED <<history, shown>>
  PROVE  HInv'
<1>1. PICK m \in Snapshots(method, s) : Send(m)
  BY DEF ExchangeSubscribe
<1>2. /\ <<method, s>> \in requested
      /\ requested' = requested \ {<<method, s>>} /\ subscribed' = subscribed \cup {<<method, s>>}
      /\ UNCHANGED <<exchange, books>>
  BY DEF ExchangeSubscribe
<1>3. CASE method = "depth"
  BY <1>1, <1>2, <1>3, SnapshotSentHInv
<1>4. CASE method # "depth"
  <2>1. m \in Message /\ m.method # "depth"
    BY <1>1, <1>4, SnapshotType
  <2>2. AskedOnce' /\ \A r \in Symbol : <<"depth", r>> \in subscribed' <=> <<"depth", r>> \in subscribed
    BY <1>2, <1>4 DEF HInv, AskedOnce
  <2> QED
    BY <1>1, <1>2, <2>1, <2>2, TradesSentHInv
<1> QED
  BY <1>3, <1>4

(* Steps that neither send nor handle a message of the stream.             *)
LEMMA QuietHInv ==
  ASSUME HInv, UNCHANGED <<subscribed, channel, exchange, books, history, versions, shown>>, AskedOnce'
  PROVE  HInv'
<1>1. HistoryOK' /\ ShownOK'
  BY DEF HInv, HistoryOK, ShownOK
<1>2. MessagesLead' /\ InOrder'
  BY DEF HInv, MessagesLead, Leads, InOrder
<1>3. NothingMissed'
  BY DEF HInv, NothingMissed, UnchangedAfter, UnchangedSince
<1> QED
  BY <1>1, <1>2, <1>3 DEF HInv

(* A disconnect loses what is under way, not what was published.           *)
LEMMA DisconnectedHInv ==
  ASSUME HInv, Disconnected, versions' = <<>>, UNCHANGED <<history, shown>>
  PROVE  HInv'
<1>1. /\ requested' = {} /\ subscribed' = {} /\ channel' = <<>>
      /\ books' \in {books, << >>} /\ UNCHANGED exchange
  BY DEF Disconnected
<1>2. DOMAIN channel' = {} /\ DOMAIN versions' = {} /\ versions' \in Seq(Nat)
  BY <1>1, EmptySeq
<1>3. HistoryOK'
  BY <1>1, <1>2 DEF HInv, HistoryOK
<1>4. ShownOK'
  <2>1. DOMAIN books' \subseteq DOMAIN books /\ \A s \in DOMAIN books' : books'[s] = books[s]
    BY <1>1
  <2> QED
    BY <2>1 DEF HInv, ShownOK
<1> QED
  BY <1>1, <1>2, <1>3, <1>4 DEF HInv, MessagesLead, InOrder, NothingMissed, AskedOnce

(* A trade leaves the books alone, sent or not.                            *)
LEMMA ExchangeTradeHInv ==
  ASSUME TypeOK, HInv, NEW s \in Symbol, ExchangeTrade(s), Stamp(Len(history)), UNCHANGED <<history, shown>>
  PROVE  HInv'
<1> DEFINE m == Trades(s, <<Len(traded')>>)
<1>1. traded' = Append(traded, s) /\ Len(traded) < MaxChanges
      /\ UNCHANGED <<requested, subscribed, exchange, books>>
  BY DEF ExchangeTrade
<1>2. AskedOnce'
  BY <1>1 DEF HInv, AskedOnce
<1>3. CASE <<"trades", s>> \in subscribed
  <2>1. Send(m)
    BY <1>3 DEF ExchangeTrade
  <2>2. <<Len(traded')>> \in Seq(1 .. MaxChanges)
    <3>1. Len(traded') \in 1 .. MaxChanges
      BY <1>1, TradeFacts, BoundsAssumption
    <3> QED
      BY <3>1
  <2>3. m = [method |-> "trades", name |-> s, ids |-> <<Len(traded')>>]
    BY DEF Trades
  <2>4. m \in Message /\ m.method # "depth"
    <3> DEFINE ids == <<Len(traded')>>
    <3> HIDE DEF m, ids
    <3> QED
      BY <2>2, <2>3 DEF Message, ids
  <2> HIDE DEF m
  <2> QED
    BY <1>1, <1>2, <2>1, <2>4, TradesSentHInv
<1>4. CASE <<"trades", s>> \notin subscribed
  <2>1. UNCHANGED channel
    BY <1>4 DEF ExchangeTrade
  <2>2. UNCHANGED versions
    BY <2>1 DEF Stamp
  <2> QED
    BY <1>1, <1>2, <2>1, <2>2, QuietHInv
<1> QED
  BY <1>3, <1>4

(* Without a snapshot under way there is a book that was published.        *)
LEMMA ShownIsThere ==
  ASSUME IInv, HInv, NEW s \in Symbol, <<"depth", s>> \in subscribed,
         \A p \in DOMAIN channel : IsDepth(channel[p], s) => ~channel[p].snapshot
  PROVE  shown[s] \in DOMAIN history
<1>1. s \in DOMAIN books
  BY DEF IInv, SnapshotAhead, IsSnapshot, IsDepth
<1>2. shown[s] \in Nat \ {0} /\ shown[s] <= Len(history)
  BY <1>1 DEF HInv, ShownOK
<1> QED
  BY <1>2 DEF HInv, HistoryOK

(* A sequence that gets one more element.                                  *)
LEMMA AppendFacts ==
  ASSUME NEW S, NEW seq \in Seq(S), NEW elt \in S, NEW longer, longer = Append(seq, elt)
  PROVE  /\ longer \in Seq(S) /\ Len(longer) = Len(seq) + 1
         /\ DOMAIN longer = DOMAIN seq \cup {Len(seq) + 1}
         /\ longer[Len(seq) + 1] = elt
         /\ \A w \in DOMAIN seq : longer[w] = seq[w]
  OBVIOUS

(* The history keeps the books that it has.                                *)
LEMMA HistoryGrows ==
  ASSUME history \in Seq([Symbol -> Book]), exchange' \in [Symbol -> Book], history' = Append(history, exchange')
  PROVE  /\ history' \in Seq([Symbol -> Book]) /\ Len(history') = Len(history) + 1
         /\ DOMAIN history' = DOMAIN history \cup {Len(history) + 1}
         /\ history'[Len(history) + 1] = exchange'
         /\ \A w \in DOMAIN history : history'[w] = history[w]
<1> DEFINE S == [Symbol -> Book]
<1>1. history \in Seq(S) /\ exchange' \in S
  OBVIOUS
<1> HIDE DEF S
<1>2. /\ history' \in Seq(S) /\ Len(history') = Len(history) + 1
      /\ DOMAIN history' = DOMAIN history \cup {Len(history) + 1}
      /\ history'[Len(history) + 1] = exchange'
      /\ \A w \in DOMAIN history : history'[w] = history[w]
  BY <1>1, AppendFacts
<1> QED
  BY <1>2 DEF S

(* What a change of the exchange's books adds to the history.              *)
LEMMA ChangeFacts ==
  ASSUME TypeOK, HistoryOK, NEW s \in Symbol, NEW l \in Level, NEW q \in Quantity,
         exchange' = [exchange EXCEPT ![s][l] = q], history' = Append(history, exchange')
  PROVE  /\ exchange' \in [Symbol -> Book]
         /\ exchange'[s] = Applied(exchange[s], FALSE, [k \in {l} |-> q])
         /\ \A r \in Symbol : r # s => exchange'[r] = exchange[r]
         /\ Len(history) \in Nat \ {0} /\ Len(history) \in DOMAIN history /\ exchange = history[Len(history)]
         /\ Len(history') = Len(history) + 1 /\ history' \in Seq([Symbol -> Book])
         /\ DOMAIN history' = DOMAIN history \cup {Len(history) + 1}
         /\ history'[Len(history) + 1] = exchange'
         /\ \A w \in DOMAIN history : w \in Nat /\ w <= Len(history) /\ history'[w] = history[w]
<1>1. exchange \in [Symbol -> [Level -> Quantity]]
  BY DEF TypeOK, Book
<1>2. exchange' \in [Symbol -> [Level -> Quantity]]
  BY <1>1
<1>3. exchange'[s] = Applied(exchange[s], FALSE, [k \in {l} |-> q])
  BY <1>1 DEF Applied
<1>4. \A r \in Symbol : r # s => exchange'[r] = exchange[r]
  BY <1>1
<1>5. /\ history \in Seq([Symbol -> Book]) /\ Len(history) \in Nat \ {0} /\ exchange = history[Len(history)]
      /\ Len(history) \in DOMAIN history /\ DOMAIN history = 1 .. Len(history)
  BY DEF HistoryOK
<1>6. exchange' \in [Symbol -> Book]
  BY <1>2 DEF Book
<1>7. /\ history' \in Seq([Symbol -> Book]) /\ Len(history') = Len(history) + 1
      /\ DOMAIN history' = DOMAIN history \cup {Len(history) + 1}
      /\ history'[Len(history) + 1] = exchange'
      /\ \A w \in DOMAIN history : history'[w] = history[w]
  BY <1>5, <1>6, HistoryGrows
<1>8. \A w \in DOMAIN history : w \in Nat /\ w <= Len(history) /\ history'[w] = history[w]
  BY <1>5, <1>7
<1> QED
  BY <1>3, <1>4, <1>5, <1>6, <1>7, <1>8, Zenon

(* A change makes a new book, which the message sent leads to, if any.     *)
LEMMA ExchangeChangeHInv ==
  ASSUME IInv, HInv, NEW s \in Symbol, NEW l \in Level, NEW q \in Quantity, ExchangeChange(s, l, q),
         history' = Append(history, exchange'), Stamp(Len(history')), UNCHANGED shown
  PROVE  HInv'
<1> DEFINE m == Depth(s, FALSE, [k \in {l} |-> q])
           sent == <<"depth", s>> \in subscribed
<1>0. PICK n \in Nat : n = Len(history) + 1
  BY DEF HInv, HistoryOK
<1>1. /\ exchange' = [exchange EXCEPT ![s][l] = q]
      /\ UNCHANGED <<requested, subscribed, books>>
      /\ sent => Send(m)
      /\ ~sent => UNCHANGED channel
  BY DEF ExchangeChange
<1>2. /\ exchange' \in [Symbol -> Book]
      /\ exchange'[s] = Applied(exchange[s], FALSE, [k \in {l} |-> q])
      /\ \A r \in Symbol : r # s => exchange'[r] = exchange[r]
      /\ Len(history) \in Nat \ {0} /\ Len(history) \in DOMAIN history /\ exchange = history[Len(history)]
      /\ Len(history') = n /\ history' \in Seq([Symbol -> Book])
      /\ DOMAIN history' = DOMAIN history \cup {n}
      /\ history'[n] = exchange'
      /\ \A w \in DOMAIN history : w \in Nat /\ w <= Len(history) /\ history'[w] = history[w]
  <2>1. HistoryOK /\ TypeOK
    BY DEF HInv, IInv
  <2>2. /\ exchange' \in [Symbol -> Book]
        /\ exchange'[s] = Applied(exchange[s], FALSE, [k \in {l} |-> q])
        /\ \A r \in Symbol : r # s => exchange'[r] = exchange[r]
        /\ Len(history) \in Nat \ {0} /\ Len(history) \in DOMAIN history /\ exchange = history[Len(history)]
        /\ Len(history') = Len(history) + 1 /\ history' \in Seq([Symbol -> Book])
        /\ DOMAIN history' = DOMAIN history \cup {Len(history) + 1}
        /\ history'[Len(history) + 1] = exchange'
        /\ \A w \in DOMAIN history : w \in Nat /\ w <= Len(history) /\ history'[w] = history[w]
    BY <1>1, <2>1, ChangeFacts, Zenon
  <2> QED
    BY <1>0, <2>2, Zenon
<1>3. /\ m \in Message /\ m.method = "depth" /\ m.name = s /\ m.snapshot = FALSE
      /\ m.levels = [k \in {l} |-> q]
  <2> DEFINE u == [k \in {l} |-> q]
  <2>1. u \in [{l} -> Quantity] /\ {l} \in SUBSET Level
    OBVIOUS
  <2>2. u \in Update
    BY <2>1 DEF Update
  <2>3. m = [method |-> "depth", name |-> s, snapshot |-> FALSE, levels |-> u]
    BY DEF Depth
  <2> HIDE DEF u, m
  <2>4. m.levels = u
    BY <2>3
  <2>5. m \in Message /\ m.method = "depth" /\ m.name = s /\ m.snapshot = FALSE
    BY <2>2, <2>3 DEF Message
  <2> QED
    BY <2>4, <2>5 DEF u
<1>4. n \in Nat /\ \A w \in DOMAIN history : w \in Nat /\ w < n
  BY <1>0, <1>2
<1> HIDE DEF m
(* The message under way, if the symbol is subscribed.                     *)
<1>5. \E last \in Nat :
         /\ \A p \in DOMAIN channel : p \in DOMAIN channel' /\ channel'[p] = channel[p] /\ versions'[p] = versions[p]
         /\ \A p \in DOMAIN channel' : p \in DOMAIN channel \/ (p = last /\ sent)
         /\ sent => last \in DOMAIN channel' /\ channel'[last] = m /\ versions'[last] = n
                    /\ \A p \in DOMAIN channel : p \in Nat /\ p < last
         /\ DOMAIN versions' = DOMAIN channel' /\ versions' \in Seq(Nat)
  <2>1. HistoryOK /\ TypeOK /\ Stamp(n) /\ n \in Nat
    BY <1>2, <1>4 DEF HInv, IInv
  <2>2. CASE sent
    <3>1. Send(m)
      BY <1>1, <2>2
    <3>2. \E last \in Nat :
            /\ DOMAIN channel' = DOMAIN channel \cup {last} /\ DOMAIN versions' = DOMAIN channel'
            /\ channel'[last] = m /\ versions'[last] = n /\ versions' \in Seq(Nat)
            /\ \A p \in DOMAIN channel : p \in Nat /\ p < last /\ channel'[p] = channel[p] /\ versions'[p] = versions[p]
      BY <1>3, <2>1, <3>1, StampFacts
    <3> QED
      BY <2>2, <3>2
  <2>3. CASE ~sent
    <3>1. UNCHANGED <<channel, versions>>
      BY <1>1, <2>1, <2>3 DEF Stamp
    <3> QED
      BY <2>1, <2>3, <3>1 DEF HistoryOK
  <2> QED
    BY <2>2, <2>3
<1>6. PICK last \in Nat :
         /\ \A p \in DOMAIN channel : p \in DOMAIN channel' /\ channel'[p] = channel[p] /\ versions'[p] = versions[p]
         /\ \A p \in DOMAIN channel' : p \in DOMAIN channel \/ (p = last /\ sent)
         /\ sent => last \in DOMAIN channel' /\ channel'[last] = m /\ versions'[last] = n
                    /\ \A p \in DOMAIN channel : p \in Nat /\ p < last
         /\ DOMAIN versions' = DOMAIN channel' /\ versions' \in Seq(Nat)
  BY <1>5
<1>7. \A r : IsDepth(m, r) <=> r = s
  BY <1>3 DEF IsDepth
<1>8. HistoryOK'
  <2>1. \A p \in DOMAIN channel' : versions'[p] \in DOMAIN history'
    BY <1>2, <1>6 DEF HInv, HistoryOK
  <2> QED
    BY <1>2, <1>4, <1>6, <2>1 DEF HistoryOK
<1>9. ShownOK' /\ AskedOnce'
  <2>1. \A r \in Symbol : shown[r] \in Nat /\ shown[r] <= Len(history)
    BY DEF HInv, ShownOK
  <2>2. \A r \in Symbol : shown[r] <= n
    BY <1>0, <1>2, <2>1
  <2>3. ASSUME NEW r \in DOMAIN books PROVE shown[r] # 0 /\ books[r] = history'[shown[r]][r]
    <3>1. r \in Symbol /\ shown[r] # 0 /\ books[r] = history[shown[r]][r]
      BY DEF IInv, TypeOK, HInv, ShownOK
    <3>2. shown[r] \in DOMAIN history
      BY <2>1, <3>1 DEF HInv, HistoryOK
    <3> QED
      BY <1>2, <3>1, <3>2
  <2>4. ShownOK'
    BY <1>1, <1>2, <2>2, <2>3 DEF HInv, ShownOK
  <2> QED
    BY <1>1, <2>4 DEF HInv, AskedOnce
<1>10. MessagesLead'
  <2>1. ASSUME NEW p \in DOMAIN channel', channel'[p].method = "depth", p \in DOMAIN channel
        PROVE  <<"depth", channel'[p].name>> \in subscribed' /\ Leads(channel[p], versions[p])'
    <3>1. <<"depth", channel[p].name>> \in subscribed /\ Leads(channel[p], versions[p])
      BY <1>6, <2>1 DEF HInv, MessagesLead
    <3>2. versions[p] \in DOMAIN history
      BY <2>1 DEF HInv, HistoryOK
    <3>3. channel'[p] = channel[p] /\ versions'[p] = versions[p]
      BY <1>6, <2>1
    <3>4. Leads(channel[p], versions[p])'
      BY <1>2, <3>1, <3>2, <3>3 DEF Leads
    <3> QED
      BY <1>1, <3>1, <3>3, <3>4
  <2>2. ASSUME NEW p \in DOMAIN channel', p = last, sent
        PROVE  <<"depth", channel'[p].name>> \in subscribed' /\ Leads(channel[p], versions[p])'
    <3>1. channel'[p] = m /\ versions'[p] = n
      BY <1>6, <2>2
    <3>2. n - 1 = Len(history)
      BY <1>0, <1>2
    <3>3. history'[n][s] = Applied(history'[n - 1][s], FALSE, m.levels)
      BY <1>2, <1>3, <3>2
    <3>4. n - 1 \in DOMAIN history'
      BY <1>2, <3>2
    <3>5. Leads(channel[p], versions[p])'
      BY <1>3, <3>1, <3>3, <3>4 DEF Leads
    <3> QED
      BY <1>1, <1>3, <2>2, <3>1, <3>5
  <2> QED
    BY <1>6, <2>1, <2>2 DEF MessagesLead
<1>11. InOrder'
  <2>1. \A r \in Symbol : shown[r] \in Nat /\ shown[r] < n
    BY <1>0, <1>2 DEF HInv, ShownOK
  <2>2. \A p \in DOMAIN channel : versions[p] \in Nat /\ versions[p] < n
    BY <1>4 DEF HInv, HistoryOK
  <2>3. ASSUME NEW r \in Symbol, NEW p \in DOMAIN channel', IsDepth(channel'[p], r)
        PROVE  shown'[r] <= versions'[p] /\ (~channel'[p].snapshot => shown'[r] < versions'[p])
    <3>1. CASE p \in DOMAIN channel
      BY <1>6, <2>3, <3>1 DEF HInv, InOrder
    <3>2. CASE p = last /\ sent
      <4>1. versions'[p] = n /\ shown'[r] = shown[r]
        BY <1>6, <3>2
      <4>2. shown[r] <= n /\ shown[r] < n
        BY <1>4, <2>1
      <4> QED
        BY <4>1, <4>2
    <3> QED
      BY <1>6, <3>1, <3>2
  <2>4. ASSUME NEW r \in Symbol, NEW p \in DOMAIN channel', NEW o \in DOMAIN channel',
               IsDepth(channel'[p], r), IsDepth(channel'[o], r), p < o
        PROVE  versions'[p] < versions'[o] /\ ~channel'[o].snapshot
    <3>1. CASE p \in DOMAIN channel /\ o \in DOMAIN channel
      BY <1>6, <2>4, <3>1 DEF HInv, InOrder
    <3>2. CASE p \in DOMAIN channel /\ o = last /\ sent
      <4>1. channel'[o] = m /\ versions'[o] = n /\ versions'[p] = versions[p]
        BY <1>6, <3>2
      <4> QED
        BY <1>3, <2>2, <3>2, <4>1
    <3>3. CASE p = last /\ sent
      <4>1. \A k \in DOMAIN channel : k \in Nat /\ k < last
        BY <1>6, <3>3
      <4>2. o \in DOMAIN channel \/ o = last
        BY <1>6
      <4> QED
        BY <2>4, <3>3, <4>1, <4>2
    <3> QED
      BY <1>6, <3>1, <3>2, <3>3
  <2> QED
    BY <2>3, <2>4 DEF InOrder
<1>12. ASSUME NEW r \in Symbol, <<"depth", r>> \in subscribed, NEW w \in DOMAIN history
       PROVE  UnchangedAfter(r, w)' /\ UnchangedSince(r, w)'
  <2>1. UnchangedAfter(r, w) /\ UnchangedSince(r, w)
    BY <1>12 DEF HInv, NothingMissed
  <2>2. w \in Nat /\ w < n /\ history'[w] = history[w]
    BY <1>2, <1>4
  <2>3. ASSUME NEW p \in DOMAIN channel', IsDepth(channel'[p], r), versions'[p] <= w,
               \A o \in DOMAIN channel' : IsDepth(channel'[o], r) /\ p < o => w < versions'[o]
        PROVE  history'[w][r] = history'[versions'[p]][r]
    <3>1. p \in DOMAIN channel
      <4>1. sent => versions'[last] = n
        BY <1>6
      <4> QED
        BY <1>4, <1>6, <2>2, <2>3, <4>1
    <3>2. channel'[p] = channel[p] /\ versions'[p] = versions[p]
      BY <1>6, <3>1
    <3>3. history[w][r] = history[versions[p]][r]
      BY <1>6, <2>1, <2>3, <3>1, <3>2 DEF UnchangedAfter
    <3>4. history'[versions[p]] = history[versions[p]]
      BY <1>2, <3>1 DEF HInv, HistoryOK
    <3> QED
      BY <2>2, <3>2, <3>3, <3>4
  <2>4. UnchangedAfter(r, w)'
    BY <2>3 DEF UnchangedAfter
  <2>5. ASSUME shown'[r] <= w,
               \A p \in DOMAIN channel' : IsDepth(channel'[p], r) => w < versions'[p] /\ ~channel'[p].snapshot
        PROVE  history'[w][r] = history'[shown'[r]][r]
    <3>1. \A p \in DOMAIN channel : IsDepth(channel[p], r) => w < versions[p] /\ ~channel[p].snapshot
      BY <1>6, <2>5
    <3>2. history[w][r] = history[shown[r]][r]
      BY <2>1, <2>5, <3>1 DEF UnchangedSince
    <3>3. shown[r] \in DOMAIN history
      BY <1>12, <3>1, ShownIsThere
    <3> QED
      BY <1>2, <2>2, <3>2, <3>3
  <2>6. UnchangedSince(r, w)'
    BY <2>5 DEF UnchangedSince
  <2> QED
    BY <2>4, <2>6
<1>13. ASSUME NEW r \in Symbol, <<"depth", r>> \in subscribed
       PROVE  UnchangedAfter(r, n)' /\ UnchangedSince(r, n)'
  <2>1. UnchangedAfter(r, Len(history)) /\ UnchangedSince(r, Len(history))
    BY <1>2, <1>13 DEF HInv, NothingMissed
  <2>2. r = s => sent /\ last \in DOMAIN channel' /\ IsDepth(channel'[last], r) /\ versions'[last] = n
    BY <1>6, <1>7, <1>13
  <2>3. r # s => history'[n][r] = history[Len(history)][r]
    BY <1>2
  <2>4. \A p \in DOMAIN channel : versions[p] \in Nat /\ versions[p] <= Len(history) /\ versions[p] \in DOMAIN history
    BY <1>2 DEF HInv, HistoryOK
  <2>5. n \in Nat /\ Len(history) \in Nat /\ Len(history) < n
    BY <1>0, <1>2
  <2>6. ASSUME NEW p \in DOMAIN channel', IsDepth(channel'[p], r), versions'[p] <= n,
               \A o \in DOMAIN channel' : IsDepth(channel'[o], r) /\ p < o => n < versions'[o]
        PROVE  history'[n][r] = history'[versions'[p]][r]
    <3>1. CASE r = s
      <4>1. ~(p < last)
        BY <2>2, <2>5, <2>6, <3>1
      <4>2. p = last
        BY <1>6, <2>2, <3>1, <4>1
      <4> QED
        BY <2>2, <3>1, <4>2
    <3>2. CASE r # s
      <4>1. p \in DOMAIN channel /\ channel'[p] = channel[p] /\ versions'[p] = versions[p]
        BY <1>6, <1>7, <2>6, <3>2
      <4>2. \A o \in DOMAIN channel : IsDepth(channel[o], r) /\ p < o => Len(history) < versions[o]
        BY <1>6, <2>4, <2>5, <2>6
      <4>3. history[Len(history)][r] = history[versions[p]][r]
        BY <2>1, <2>4, <2>6, <4>1, <4>2 DEF UnchangedAfter
      <4>4. history'[versions[p]] = history[versions[p]]
        BY <1>2, <2>4, <4>1
      <4> QED
        BY <2>3, <3>2, <4>1, <4>3, <4>4
    <3> QED
      BY <3>1, <3>2
  <2>7. UnchangedAfter(r, n)'
    BY <2>6 DEF UnchangedAfter
  <2>8. ASSUME \A p \in DOMAIN channel' : IsDepth(channel'[p], r) => n < versions'[p] /\ ~channel'[p].snapshot
        PROVE  history'[n][r] = history'[shown'[r]][r]
    <3>1. r # s
      BY <2>2, <2>5, <2>8
    <3>2. \A p \in DOMAIN channel : IsDepth(channel[p], r) => Len(history) < versions[p] /\ ~channel[p].snapshot
      BY <1>6, <2>4, <2>5, <2>8
    <3>3. shown[r] <= Len(history)
      BY DEF HInv, ShownOK
    <3>4. history[Len(history)][r] = history[shown[r]][r]
      BY <2>1, <3>2, <3>3 DEF UnchangedSince
    <3>5. history'[shown[r]] = history[shown[r]]
      BY <1>2, <1>13, <3>2, ShownIsThere
    <3> QED
      BY <2>3, <3>1, <3>4, <3>5
  <2>9. UnchangedSince(r, n)'
    BY <2>8 DEF UnchangedSince
  <2> QED
    BY <2>7, <2>9
<1>14. NothingMissed'
  <2>1. \A w \in DOMAIN history' : w \in DOMAIN history \/ w = n
    BY <1>2
  <2> QED
    BY <1>1, <1>12, <1>13, <2>1 DEF NothingMissed
<1> QED
  BY <1>8, <1>9, <1>10, <1>11, <1>14 DEF HInv

(* The history only records: each of its steps is a step of Feed.          *)
LEMMA HistoryRecords == [HistoryNext]_historyVars => [Next]_vars
  BY DEF HistoryNext, historyVars, Next

(* So what holds of Feed holds of it with its history.                     *)
THEOREM HistoryRefinesFeed == HistorySpec => Spec
  BY HistoryRecords, PTL DEF HistorySpec, HistoryInit, Spec

(* Every step keeps the invariant of the history.                          *)
LEMMA HistoryNextHInv == IInv /\ HInv /\ [HistoryNext]_historyVars => HInv'
<1> SUFFICES ASSUME IInv, HInv, [HistoryNext]_historyVars PROVE HInv'
  OBVIOUS
<1>0. TypeOK
  BY DEF IInv
<1>1. CASE Ready /\ UNCHANGED <<history, versions, shown>>
  <2>1. UNCHANGED <<subscribed, channel, exchange, books>> /\ ~ready
    BY <1>1 DEF Ready
  <2>2. AskedOnce'
    BY <2>1 DEF IInv, QuietWhenDown, AskedOnce
  <2> QED
    BY <1>1, <2>1, <2>2, QuietHInv
<1>2. CASE Disconnected /\ versions' = <<>> /\ UNCHANGED <<history, shown>>
  BY <1>2, DisconnectedHInv
<1>3. CASE /\ \E method \in Method, s \in Symbol : ExchangeSubscribe(method, s)
           /\ Stamp(Len(history)) /\ UNCHANGED <<history, shown>>
  BY <1>0, <1>3, ExchangeSubscribeHInv
<1>4. CASE /\ \E s \in Symbol, l \in Level, q \in Quantity : ExchangeChange(s, l, q)
           /\ history' = Append(history, exchange')
           /\ Stamp(Len(history')) /\ UNCHANGED shown
  BY <1>4, ExchangeChangeHInv
<1>5. CASE (\E s \in Symbol : ExchangeTrade(s)) /\ Stamp(Len(history)) /\ UNCHANGED <<history, shown>>
  BY <1>0, <1>5, ExchangeTradeHInv
<1>6. CASE /\ DepthUpdate
           /\ versions' = Tail(versions)
           /\ shown' = [shown EXCEPT ![Head(channel).name] = Head(versions)]
           /\ UNCHANGED history
  BY <1>6, DepthUpdateHInv
<1>7. CASE TradesUpdate /\ versions' = Tail(versions) /\ UNCHANGED <<history, shown>>
  BY <1>0, <1>7, TradesUpdateHInv
<1>8. CASE UNCHANGED historyVars
  <2>1. UNCHANGED <<requested, subscribed, channel, exchange, books, history, versions, shown>>
    BY <1>8 DEF historyVars, vars, feedVars
  <2>2. AskedOnce'
    BY <2>1 DEF HInv, AskedOnce
  <2> QED
    BY <2>1, <2>2, QuietHInv
<1> QED
  BY <1>1, <1>2, <1>3, <1>4, <1>5, <1>6, <1>7, <1>8 DEF HistoryNext

(* The invariant of the feed and of its history.                           *)
THEOREM FeedHistoryInvariant == HistorySpec => [](IInv /\ HInv)
<1>1. HistoryInit => IInv /\ HInv
  BY InitIInv, HistoryInitHInv DEF HistoryInit
<1>2. IInv /\ HInv /\ [HistoryNext]_historyVars => (IInv /\ HInv)'
  BY NextIInv, HistoryNextHInv, HistoryRecords
<1> QED
  BY <1>1, <1>2, PTL DEF HistorySpec

-----------------------------------------------------------------------------
(* The refinement                                                          *)

(* An initial state is one of BookFeed.                                     *)
LEMMA PublishedInit == HistoryInit => Published!Init
<1> SUFFICES ASSUME HistoryInit PROVE Published!Init
  OBVIOUS
<1>1. exchange \in [Symbol -> Published!Book]
  BY QuantityAssumption DEF HistoryInit, Init, EmptyBook, Published!Book
<1>2. history = <<exchange>> /\ shown = [s \in Symbol |-> 0] /\ books = << >>
  BY DEF HistoryInit, Init
<1> QED
  BY <1>1, <1>2 DEF Published!Init

(* A change of the exchange is one of BookFeed.                            *)
LEMMA ExchangeChangePublished ==
  ASSUME IInv, HInv, NEW s \in Symbol, NEW l \in Level, NEW q \in Quantity, ExchangeChange(s, l, q),
         history' = Append(history, exchange'), UNCHANGED shown
  PROVE  Published!Next
<1>1. exchange' = [exchange EXCEPT ![s][l] = q] /\ UNCHANGED books
  BY DEF ExchangeChange
<1>2. exchange = history[Len(history)]
  BY DEF HInv, HistoryOK
<1>3. exchange \in [Symbol -> [Level -> Quantity]]
  BY DEF IInv, TypeOK, Book
<1> DEFINE book == [exchange[s] EXCEPT ![l] = q]
<1>4. book \in Published!Book
  BY <1>3 DEF Published!Book
<1>5. exchange' = [exchange EXCEPT ![s] = book]
  BY <1>1, <1>3
<1>6. Published!Change(s, book)
  <2> HIDE DEF book
  <2> QED
    BY <1>1, <1>2, <1>5 DEF Published!Change
<1> HIDE DEF book
<1> QED
  BY <1>4, <1>6 DEF Published!Next

(* An update shows the book that its message leads to.                     *)
LEMMA DepthUpdatePublished ==
  ASSUME IInv, HInv, DepthUpdate, versions' = Tail(versions), UNCHANGED history,
         shown' = [shown EXCEPT ![Head(channel).name] = Head(versions)]
  PROVE  Published!Next
<1> DEFINE s == channel[1].name
           n == versions[1]
<1>1. /\ s \in Symbol /\ n \in DOMAIN history /\ shown[s] <= n
      /\ books' = [r \in DOMAIN books \cup {s} |-> IF r = s THEN history[n][r] ELSE books[r]]
  BY DepthUpdateShows
<1>2. Head(channel) = channel[1] /\ Head(versions) = n
  <2>1. HistoryOK /\ Receive("depth") /\ TypeOK
    BY DEF HInv, IInv, DepthUpdate
  <2> QED
    BY <2>1, HandledFacts, ReceiveFacts
<1>3. shown' = [shown EXCEPT ![s] = n]
  BY <1>2
<1>4. n \in 1 .. Len(history)
  BY <1>1 DEF HInv, HistoryOK
<1> HIDE DEF s, n
<1>5. Published!Show(s, n)
  <2>1. books' = [r \in DOMAIN books \cup {s} |-> IF r = s THEN history[n][s] ELSE books[r]]
    BY <1>1
  <2> QED
    BY <1>1, <1>3, <2>1 DEF Published!Show
<1> QED
  BY <1>1, <1>4, <1>5 DEF Published!Next

(* The other steps show nothing, and a disconnect may drop the books.      *)
LEMMA PublishedNext == IInv /\ HInv /\ [HistoryNext]_historyVars => [Published!Next]_(Published!vars)
<1> SUFFICES ASSUME IInv, HInv, [HistoryNext]_historyVars
             PROVE  Published!Next \/ UNCHANGED <<history, shown, books>>
  BY DEF Published!vars
<1>1. CASE Ready /\ UNCHANGED <<history, versions, shown>>
  BY <1>1 DEF Ready
<1>2. CASE Disconnected /\ versions' = <<>> /\ UNCHANGED <<history, shown>>
  BY <1>2 DEF Disconnected, Published!Next, Published!Drop
<1>3. CASE /\ \E method \in Method, s \in Symbol : ExchangeSubscribe(method, s)
           /\ Stamp(Len(history)) /\ UNCHANGED <<history, shown>>
  BY <1>3 DEF ExchangeSubscribe
<1>4. CASE /\ \E s \in Symbol, l \in Level, q \in Quantity : ExchangeChange(s, l, q)
           /\ history' = Append(history, exchange')
           /\ Stamp(Len(history')) /\ UNCHANGED shown
  BY <1>4, ExchangeChangePublished
<1>5. CASE (\E s \in Symbol : ExchangeTrade(s)) /\ Stamp(Len(history)) /\ UNCHANGED <<history, shown>>
  BY <1>5 DEF ExchangeTrade
<1>6. CASE /\ DepthUpdate
           /\ versions' = Tail(versions)
           /\ shown' = [shown EXCEPT ![Head(channel).name] = Head(versions)]
           /\ UNCHANGED history
  BY <1>6, DepthUpdatePublished
<1>7. CASE TradesUpdate /\ versions' = Tail(versions) /\ UNCHANGED <<history, shown>>
  BY <1>7 DEF TradesUpdate
<1>8. CASE UNCHANGED historyVars
  BY <1>8 DEF historyVars, vars
<1> QED
  BY <1>1, <1>2, <1>3, <1>4, <1>5, <1>6, <1>7, <1>8 DEF HistoryNext

(* What is published of a symbol is, at any time, one book that the        *)
(* exchange had, whole, and never an earlier one than before: whatever the *)
(* interleaving of changes, snapshots, symbols and reconnects              *)
(* (market_data.cpp lines 256-307).                                        *)
THEOREM FeedImplementsBookFeed == HistorySpec => ImplementsBookFeed
  BY FeedHistoryInvariant, PublishedInit, PublishedNext, PTL DEF HistorySpec, ImplementsBookFeed, Published!Spec
=============================================================================
