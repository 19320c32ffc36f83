---------------------------- MODULE GatewayProofs ---------------------------
(***************************************************************************)
(* Proofs about the gateway and about its REST stream by itself, for every *)
(* set of symbols, every bound on the subscriptions of a stream and every  *)
(* number of download rounds.                                              *)
(***************************************************************************)
EXTENDS Gateway, SliceProofs

USE MaxPerStreamAssumption, SymbolAssumption, DiscardedAssumption, SequenceAssumption

-----------------------------------------------------------------------------
(* The REST stream by itself *)

(* No round beyond the present one was processed, nor the present one while*)
(* it is being downloaded.                                                 *)
ProcessedSoFar ==
    \A i \in DOMAIN processed :
        /\ processed[i] <= download.sequence
        /\ Downloading => processed[i] < download.sequence

(* Nothing was published before the start, and no round is the zeroth.     *)
Fresh ==
    /\ process = "created" => rest_status = "UNDEFINED"
    /\ Downloading => download.sequence > 0

(* Only so many requests are under way that they can be counted.           *)
PendingFinite == IsFiniteSet(Copies(pending))

(* The inductive invariant: ProcessedSoFar is what makes an answer that is *)
(* not skipped a new round, Fresh covers the start, PendingFinite gives    *)
(* the count of RequestsBounded its meaning.                               *)
RestIInv ==
    /\ RestTypeOK
    /\ Fresh
    /\ ProcessedSoFar
    /\ RoundsProcessedOnce
    /\ ReadyMeansProcessed
    /\ DownloadNotLost
    /\ PendingFinite
    /\ RequestsBounded

(* Before the start nothing is pending and nothing was processed.          *)
LEMMA RestInitIInv == RestInit => RestIInv
<1> SUFFICES ASSUME RestInit PROVE RestIInv
  OBVIOUS
<1>1. /\ RestTypeOK /\ Fresh /\ ProcessedSoFar /\ RoundsProcessedOnce
      /\ ReadyMeansProcessed /\ DownloadNotLost
  BY DEF RestInit, RestTypeOK, Fresh, ProcessedSoFar, RoundsProcessedOnce, ReadyMeansProcessed,
         DownloadNotLost, Sequences, EmptyBag, SetToBag, Running, Downloading
<1>2. Copies(pending) = {}
  BY DEF RestInit, EmptyBag, SetToBag, Copies
<1> QED
  BY <1>1, <1>2, FS_EmptySet DEF RestInit, RestIInv, PendingFinite, RequestsBounded

(* A bag of requests stays one when a request is sent.                     *)
LEMMA AddRequest ==
  ASSUME NEW B, NEW sequence,
         \A s \in DOMAIN B : B[s] \in Nat \ {0}
  PROVE  LET after == B (+) SetToBag({sequence})
         IN  /\ DOMAIN after = DOMAIN B \cup {sequence}
             /\ \A s \in DOMAIN after : after[s] \in Nat \ {0}
  BY DEF (+), SetToBag

(* A bag of requests stays one when a request is answered, which takes no  *)
(* other request out of it.                                                *)
LEMMA RemoveRequest ==
  ASSUME NEW B, NEW sequence,
         \A s \in DOMAIN B : B[s] \in Nat \ {0}
  PROVE  LET after == B (-) SetToBag({sequence})
         IN  /\ DOMAIN after \subseteq DOMAIN B
             /\ DOMAIN B \ {sequence} \subseteq DOMAIN after
             /\ \A s \in DOMAIN after : after[s] \in Nat \ {0}
  BY DEF (-), SetToBag

(* An answer leaves a bag of requests, and the requests of other rounds.   *)
LEMMA AnswerPending ==
  ASSUME RestTypeOK, NEW sequence, Answer(sequence)
  PROVE  /\ DOMAIN pending' \subseteq DOMAIN pending
         /\ DOMAIN pending \ {sequence} \subseteq DOMAIN pending'
         /\ \A s \in DOMAIN pending' : pending'[s] \in Nat \ {0}
  BY RemoveRequest DEF Answer, RestTypeOK

(* Sending a request adds one copy to the bag.                             *)
LEMMA CopiesAdd ==
  ASSUME NEW B, NEW sequence,
         \A s \in DOMAIN B : B[s] \in Nat \ {0},
         IsFiniteSet(Copies(B))
  PROVE  /\ IsFiniteSet(Copies(B (+) SetToBag({sequence})))
         /\ Cardinality(Copies(B (+) SetToBag({sequence}))) = Cardinality(Copies(B)) + 1
<1> DEFINE after == B (+) SetToBag({sequence})
           last == IF sequence \in DOMAIN B THEN B[sequence] + 1 ELSE 1
<1>1. /\ DOMAIN after = DOMAIN B \cup {sequence}
      /\ \A s \in DOMAIN B : s # sequence => after[s] = B[s]
      /\ after[sequence] = last
  BY DEF (+), SetToBag
<1>2. /\ last \in Nat \ {0}
      /\ sequence \in DOMAIN B => B[sequence] = last - 1
  OBVIOUS
<1> HIDE DEF after, last
<1>3. Copies(after) = Copies(B) \cup {<<sequence, last>>}
  <2>1. sequence \in DOMAIN B => 1 .. last = (1 .. B[sequence]) \cup {last}
    BY <1>2
  <2>2. sequence \notin DOMAIN B => 1 .. last = {last}
    BY DEF last
  <2> QED
    BY <1>1, <2>1, <2>2 DEF Copies
<1>4. <<sequence, last>> \notin Copies(B)
  BY <1>2 DEF Copies
<1>5. /\ IsFiniteSet(Copies(after))
      /\ Cardinality(Copies(after)) = Cardinality(Copies(B)) + 1
  BY <1>3, <1>4, FS_AddElement
<1> QED
  BY <1>5 DEF after

(* Answering a request takes one copy out of the bag.                      *)
LEMMA CopiesRemove ==
  ASSUME NEW B, NEW sequence \in DOMAIN B,
         \A s \in DOMAIN B : B[s] \in Nat \ {0},
         IsFiniteSet(Copies(B))
  PROVE  /\ IsFiniteSet(Copies(B (-) SetToBag({sequence})))
         /\ Cardinality(Copies(B (-) SetToBag({sequence}))) = Cardinality(Copies(B)) - 1
<1> DEFINE after == B (-) SetToBag({sequence})
           last == B[sequence]
<1>1. /\ DOMAIN after = IF last = 1 THEN DOMAIN B \ {sequence} ELSE DOMAIN B
      /\ \A s \in DOMAIN after : s # sequence => after[s] = B[s]
      /\ sequence \in DOMAIN after => after[sequence] = last - 1
  BY DEF (-), SetToBag
<1>2. last \in Nat \ {0} /\ last = B[sequence]
  OBVIOUS
<1> HIDE DEF after, last
<1>3. Copies(after) = Copies(B) \ {<<sequence, last>>}
  BY <1>1, <1>2 DEF Copies
<1>4. <<sequence, last>> \in Copies(B)
  BY <1>2 DEF Copies
<1>5. /\ IsFiniteSet(Copies(after))
      /\ Cardinality(Copies(after)) = Cardinality(Copies(B)) - 1
  BY <1>3, <1>4, FS_RemoveElement
<1> QED
  BY <1>5 DEF after

(* A connection brings one round and one request, a retry turns the retry  *)
(* that is due into a request (get_market_info, lines 204-219).            *)
LEMMA GetMarketInfoBounded ==
  ASSUME RestTypeOK, PendingFinite, RequestsBounded,
         NEW sequence \in Nat, GetMarketInfo(sequence),
         \/ sequence = download.sequence + 1
         \/ sequence = download.sequence /\ download.retrying
  PROVE  PendingFinite' /\ RequestsBounded'
<1>1. /\ IsFiniteSet(Copies(pending'))
      /\ Cardinality(Copies(pending')) = Cardinality(Copies(pending)) + 1
  BY CopiesAdd DEF GetMarketInfo, RestTypeOK, PendingFinite
<1>2. Cardinality(Copies(pending)) \in Nat /\ download.sequence \in Nat
  BY FS_CardinalityType DEF PendingFinite, RestTypeOK
<1>3. download'.sequence = sequence /\ download'.retrying = FALSE
  BY DEF GetMarketInfo
<1> QED
  BY <1>1, <1>2, <1>3 DEF PendingFinite, RequestsBounded

(* An answer leaves one request less under way.                            *)
LEMMA AnswerCounted ==
  ASSUME RestTypeOK, PendingFinite, NEW sequence, Answer(sequence)
  PROVE  /\ PendingFinite'
         /\ Cardinality(Copies(pending')) = Cardinality(Copies(pending)) - 1
         /\ Cardinality(Copies(pending)) \in Nat
<1>1. sequence \in DOMAIN pending
  BY DEF Answer, BagIn, BagToSet
<1>2. Cardinality(Copies(pending)) \in Nat
  BY FS_CardinalityType DEF PendingFinite
<1> QED
  BY <1>1, <1>2, CopiesRemove DEF Answer, RestTypeOK, PendingFinite

(* So an answer keeps the bound, also when it makes a retry due.           *)
LEMMA AnswerBounded ==
  ASSUME RestTypeOK, PendingFinite, RequestsBounded, NEW sequence, Answer(sequence),
         download'.sequence = download.sequence
  PROVE  PendingFinite' /\ RequestsBounded'
<1>1. download.sequence \in Nat
  BY DEF RestTypeOK
<1> QED
  BY <1>1, AnswerCounted DEF RequestsBounded

(* Sending the request of a round that is not processed keeps the invariant*)
(* (get_market_info, lines 204-219).                                       *)
LEMMA GetMarketInfoIInv ==
  ASSUME RestIInv, NEW sequence \in 1 .. MaxSequence,
         \/ sequence = download.sequence + 1
         \/ sequence = download.sequence /\ Downloading /\ download.retrying,
         GetMarketInfo(sequence), UNCHANGED <<process, processed>>, Running,
         rest_link' = "up"
  PROVE  RestIInv'
<1> USE DEF RestIInv
<1>1. /\ DOMAIN pending' = DOMAIN pending \cup {sequence}
      /\ \A s \in DOMAIN pending' : pending'[s] \in Nat \ {0}
  BY AddRequest DEF GetMarketInfo, RestTypeOK
<1>2. RestTypeOK'
  <2>1. Sequences \subseteq Sequences'
    BY DEF Sequences, RestTypeOK, GetMarketInfo
  <2>2. sequence \in Sequences'
    <3>1. download'.sequence = sequence
      BY DEF GetMarketInfo
    <3> QED
      BY <3>1 DEF Sequences
  <2>3. processed' \in Seq(Sequences')
    BY <2>1, SeqMonotonic DEF RestTypeOK
  <2>4. DOMAIN pending' \subseteq Sequences'
    BY <1>1, <2>1, <2>2 DEF RestTypeOK
  <2>5. /\ download' \in [state : {"UNDEFINED", "GET_MARKET_INFO", "DONE"},
                         sequence : 0 .. MaxSequence, retrying : BOOLEAN]
        /\ rest_status' = "DOWNLOADING"
    BY DEF GetMarketInfo
  <2>6. process' = "started"
    BY DEF Running
  <2> QED
    BY <1>1, <2>3, <2>4, <2>5, <2>6 DEF RestTypeOK
<1>3. ProcessedSoFar'
  BY DEF ProcessedSoFar, GetMarketInfo, Downloading, RestTypeOK, Sequences
<1>4. DownloadNotLost'
  <2>1. download'.sequence = sequence
    BY DEF GetMarketInfo
  <2> QED
    BY <1>1, <2>1 DEF DownloadNotLost, GetMarketInfo, BagIn, BagToSet
<1>5. PendingFinite' /\ RequestsBounded'
  BY GetMarketInfoBounded
<1> QED
  BY <1>2, <1>3, <1>4, <1>5
     DEF GetMarketInfo, Fresh, RoundsProcessedOnce, ReadyMeansProcessed, Running, Downloading

(* Every handler of the REST stream keeps the invariant.                   *)
LEMMA RestNextIInv == RestIInv /\ [RestNext]_restVars => RestIInv'
<1> SUFFICES ASSUME RestIInv, [RestNext]_restVars
             PROVE  RestIInv'
    OBVIOUS
<1> USE DEF RestIInv
<1>1. CASE UNCHANGED restVars
  BY <1>1 DEF restVars, RestTypeOK, Fresh, ProcessedSoFar, RoundsProcessedOnce,
              ReadyMeansProcessed, DownloadNotLost, PendingFinite, RequestsBounded,
              Sequences, Running, Downloading
<1>2. CASE RestStart
  BY <1>2 DEF RestStart, RestTypeOK, Fresh, ProcessedSoFar, RoundsProcessedOnce,
              ReadyMeansProcessed, DownloadNotLost, PendingFinite, RequestsBounded,
              Sequences, Running, Downloading
<1>3. CASE RestStop
  BY <1>3 DEF RestStop, RestTypeOK, Fresh, ProcessedSoFar, RoundsProcessedOnce,
              ReadyMeansProcessed, DownloadNotLost, PendingFinite, RequestsBounded,
              Sequences, Running, Downloading
<1>4. CASE RestConnected
  <2>1. download.sequence + 1 \in 1 .. MaxSequence
    BY <1>4 DEF RestConnected, RestTypeOK
  <2>2. download.sequence \in Nat
    BY DEF RestTypeOK
  <2> QED
    BY <1>4, <2>1, <2>2, GetMarketInfoIInv DEF RestConnected
<1>5. CASE RestDisconnected
  <2>1. download'.sequence = download.sequence /\ download'.retrying = download.retrying
    BY <1>5 DEF RestDisconnected, RestTypeOK
  <2>2. Downloading' => Downloading
    BY <1>5 DEF RestDisconnected, RestTypeOK, Downloading
  <2>3. RestTypeOK'
    BY <1>5, <2>1 DEF RestDisconnected, RestTypeOK, Sequences
  <2>4. ProcessedSoFar'
    BY <1>5, <2>1, <2>2 DEF RestDisconnected, ProcessedSoFar
  <2>5. ReadyMeansProcessed' /\ DownloadNotLost' /\ RoundsProcessedOnce'
    BY <1>5 DEF RestDisconnected, ReadyMeansProcessed, DownloadNotLost, RoundsProcessedOnce
  <2>6. Fresh'
    BY <1>5, <2>1, <2>2 DEF RestDisconnected, Fresh, Running
  <2>7. PendingFinite' /\ RequestsBounded'
    BY <1>5, <2>1 DEF RestDisconnected, PendingFinite, RequestsBounded
  <2> QED
    BY <2>3, <2>4, <2>5, <2>6, <2>7
<1>6. CASE DownloadRetry
  <2>1. download.sequence \in 1 .. MaxSequence
    BY <1>6 DEF DownloadRetry, RestTypeOK, Fresh
  <2>2. rest_link' = "up"
    BY <1>6 DEF DownloadRetry
  <2> QED
    BY <1>6, <2>1, <2>2, GetMarketInfoIInv DEF DownloadRetry
<1>7. ASSUME NEW sequence \in Sequences, MarketInfoError(sequence)
      PROVE  RestIInv'
  <2>1. /\ download'.state = download.state
        /\ download'.sequence = download.sequence
        /\ download'.retrying = (download.retrying \/ Downloading)
    BY <1>7 DEF MarketInfoError, Retry, RestTypeOK
  <2>2. Downloading' = Downloading /\ Sequences' = Sequences /\ Running'
    BY <1>7, <2>1 DEF Downloading, Sequences, MarketInfoError, Answer, Running
  <2>3. RestTypeOK'
    BY <1>7, <2>2, AnswerPending DEF MarketInfoError, Retry, RestTypeOK
  <2>4. ProcessedSoFar'
    BY <1>7, <2>1, <2>2 DEF MarketInfoError, ProcessedSoFar
  <2>5. DownloadNotLost'
    BY <2>1, <2>2 DEF DownloadNotLost
  <2>6. PendingFinite' /\ RequestsBounded'
    BY <1>7, <2>1, AnswerBounded DEF MarketInfoError
  <2> QED
    BY <1>7, <2>1, <2>2, <2>3, <2>4, <2>5, <2>6
       DEF MarketInfoError, Fresh, RoundsProcessedOnce, ReadyMeansProcessed, Answer, Running
<1>8. ASSUME NEW sequence \in Sequences, MarketInfoRedirected(sequence)
      PROVE  RestIInv'
  <2>1. RestTypeOK'
    BY <1>8, AnswerPending DEF MarketInfoRedirected, RestTypeOK, Sequences
  <2>2. PendingFinite' /\ RequestsBounded'
    BY <1>8, AnswerBounded DEF MarketInfoRedirected
  <2> QED
    BY <1>8, <2>1, <2>2 DEF MarketInfoRedirected, Fresh, ProcessedSoFar, RoundsProcessedOnce,
                      ReadyMeansProcessed, DownloadNotLost, Running, Downloading
<1>9. ASSUME NEW sequence \in Sequences, MarketInfoSkipped(sequence)
      PROVE  RestIInv'
  <2>1. RestTypeOK'
    BY <1>9, AnswerPending DEF MarketInfoSkipped, RestTypeOK, Sequences
  <2>2. DownloadNotLost'
    BY <1>9, AnswerPending
       DEF MarketInfoSkipped, DownloadNotLost, Skip, Running, Downloading, BagIn, BagToSet
  <2>3. PendingFinite' /\ RequestsBounded'
    BY <1>9, AnswerBounded DEF MarketInfoSkipped
  <2> QED
    BY <1>9, <2>1, <2>2, <2>3 DEF MarketInfoSkipped, Fresh, ProcessedSoFar, RoundsProcessedOnce,
                            ReadyMeansProcessed, Running, Downloading
<1>10. ASSUME NEW sequence \in Sequences, MarketInfoProcessed(sequence)
       PROVE  RestIInv'
  <2>1. /\ sequence = download.sequence /\ Downloading
        /\ download'.state = "DONE" /\ download'.sequence = download.sequence
        /\ ~Downloading'
    BY <1>10 DEF MarketInfoProcessed, Skip, RestTypeOK, Downloading
  <2>2. Sequences' = Sequences
    BY <2>1 DEF Sequences
  <2>3. /\ processed \in Seq(Sequences)
        /\ processed' = Append(processed, sequence)
    BY <1>10 DEF MarketInfoProcessed, RestTypeOK
  <2>4. RestTypeOK'
    <3>1. processed' \in Seq(Sequences')
      BY <2>2, <2>3
    <3>2. download' \in [state : {"UNDEFINED", "GET_MARKET_INFO", "DONE"},
                         sequence : 0 .. MaxSequence, retrying : BOOLEAN]
      BY <1>10 DEF MarketInfoProcessed, RestTypeOK
    <3> QED
      BY <1>10, <2>2, <3>1, <3>2, AnswerPending DEF MarketInfoProcessed, RestTypeOK
  <2>5. /\ DOMAIN processed' = 1 .. Len(processed) + 1
        /\ DOMAIN processed = 1 .. Len(processed)
        /\ Len(processed) \in Nat /\ Len(processed') = Len(processed) + 1
        /\ \A i \in 1 .. Len(processed) : processed'[i] = processed[i]
        /\ processed'[Len(processed) + 1] = sequence
    BY <2>3
  <2>6. ProcessedSoFar'
    BY <2>1, <2>5 DEF ProcessedSoFar, RestTypeOK
  <2>7. RoundsProcessedOnce'
    BY <2>1, <2>5 DEF RoundsProcessedOnce, ProcessedSoFar
  <2>8. ReadyMeansProcessed'
    BY <1>10, <2>1, <2>5 DEF ReadyMeansProcessed, MarketInfoProcessed
  <2>9. PendingFinite' /\ RequestsBounded'
    BY <1>10, <2>1, AnswerBounded DEF MarketInfoProcessed
  <2> QED
    BY <1>10, <2>1, <2>4, <2>6, <2>7, <2>8, <2>9 DEF MarketInfoProcessed, Answer, Fresh, DownloadNotLost, Running
<1> QED
  BY <1>1, <1>2, <1>3, <1>4, <1>5, <1>6, <1>7, <1>8, <1>9, <1>10 DEF RestNext

(* The invariant holds in every reachable state of the REST stream.        *)
THEOREM RestInvariant == RestSpec => []RestIInv
  BY RestInitIInv, RestNextIInv, PTL DEF RestSpec

(* The state of the REST stream is well-typed.                             *)
THEOREM RestTypeCorrect == RestSpec => []RestTypeOK
  BY RestInvariant, PTL DEF RestIInv

(* READY is published for the present connection and its own market info   *)
(* only (lines 152-240), however late the answers of older rounds come in. *)
THEOREM RestReadyMeansProcessed == RestSpec => []ReadyMeansProcessed
  BY RestInvariant, PTL DEF RestIInv

(* No round is processed twice or after a later one (lines 229-237).       *)
THEOREM RestRoundsProcessedOnce == RestSpec => []RoundsProcessedOnce
  BY RestInvariant, PTL DEF RestIInv

(* However many requests fail and however late, the requests under way or  *)
(* due never outnumber the connections made (lines 204-227).               *)
THEOREM RestRequestsBounded == RestSpec => []RequestsBounded
  BY RestInvariant, PTL DEF RestIInv

(* A download on a live connection always has a request under way or due.  *)
THEOREM RestDownloadNotLost == RestSpec => []DownloadNotLost
  BY RestInvariant, PTL DEF RestIInv

-----------------------------------------------------------------------------
(* The gateway *)

(* Before the start there is nothing but the REST stream.                  *)
NothingBeforeStart == process = "created" => market_data = <<>>

(* While the gateway runs, READY is the status of the streams that are up: *)
(* what the code tests before it sends, and what it means.                 *)
StatusMatchesLink ==
    Running => \A i \in Streams : market_data[i].status = "READY" <=> market_data[i].link = "ready"

(* There is one stream for each slice in use.                              *)
StreamsMatchSlices == Streams = 1 .. Size(symbols)

-----------------------------------------------------------------------------
(* Streams *)

(* A request for a slice adds one to the count of each of its symbols.     *)
LEMMA SendFacts ==
  ASSUME NEW stream \in Stream, NEW slice
  PROVE  LET after == Send(stream, slice)
         IN  /\ after \in Stream
             /\ after.link = stream.link
             /\ after.status = stream.status
             /\ \A s \in Symbol : after.requested[s] =
                    IF s \in slice THEN stream.requested[s] + 1 ELSE stream.requested[s]
  BY DEF Send, Stream

(* subscribe(start_from) leaves streams alone that are not READY.          *)
LEMMA SubscribeFromFacts ==
  ASSUME NEW stream \in Stream, NEW list, NEW i, NEW start
  PROVE  LET after == SubscribeFrom(stream, list, i, start)
         IN  /\ after \in Stream
             /\ after.link = stream.link
             /\ after.status = stream.status
             /\ \A s \in Symbol : after.requested[s] =
                    IF stream.status = "READY" /\ s \in GetSlice(list, i, start)
                    THEN stream.requested[s] + 1 ELSE stream.requested[s]
  BY SendFacts DEF SubscribeFrom

-----------------------------------------------------------------------------
(* The inductive invariant.  SubscribedExactlyOnce speaks of the link, the *)
(* code tests the status: StatusMatchesLink ties them.  SymbolsDistinct is *)
(* needed for an update not to request a symbol again.                     *)
SharedIInv ==
    /\ symbols \in Seq(Symbol)
    /\ market_data \in Seq(Stream)
    /\ all_symbols \subseteq Symbol
    /\ thrown \subseteq Symbol
    /\ NothingBeforeStart
    /\ StatusMatchesLink
    /\ SymbolsDistinct
    /\ StreamsMatchSlices
    /\ SubscribedExactlyOnce

(* The controller's handler of SymbolsUpdate (controller.cpp lines 166-185)*)
(* keeps the invariant when the symbols of the update are new.             *)
LEMMA SymbolsUpdateIInv ==
  ASSUME SharedIInv, Running, process' = process,
         NEW S \in SUBSET Symbol, S \cap all_symbols = {},
         NEW new \in Orders(S),
         SymbolsUpdate(new),
         all_symbols \cup S \subseteq all_symbols', all_symbols' \subseteq Symbol, thrown' = thrown
  PROVE  SharedIInv'
<1> USE DEF SharedIInv
<1>1. S \cap Range(symbols) = {} /\ IsInjective(symbols)
  BY DEF SymbolsDistinct
<1>2. symbols' = symbols \o new
  BY DEF SymbolsUpdate
<1>3. /\ symbols' \in Seq(Symbol)
      /\ IsInjective(symbols')
      /\ Range(symbols') = Range(symbols) \cup S
  BY <1>1, <1>2, AppendFacts
<1>4. Size(symbols') \in Nat
  BY <1>3, SizeType
<1> DEFINE n == Size(symbols')
<1>5. DOMAIN market_data \cup 1 .. n = 1 .. n
  <2>1. DOMAIN symbols \subseteq DOMAIN symbols'
    BY <1>1, <1>2, AppendFacts
  <2>2. 1 .. Size(symbols) \subseteq 1 .. n
    BY <2>1, <1>3, SlicesInUse
  <2> QED
    BY <2>2 DEF Streams, StreamsMatchSlices
<1> HIDE DEF n
<1>6. /\ DOMAIN market_data' = 1 .. n
      /\ \A i \in 1 .. n : market_data'[i] =
             IF i \in Streams THEN SubscribeFrom(market_data[i], symbols', i, Len(symbols))
                              ELSE Started
      /\ market_data' = [i \in 1 .. n |-> market_data'[i]]
  BY <1>5 DEF SymbolsUpdate, Streams, n
<1>7. \A i \in Streams : market_data[i] \in Stream
  BY DEF Streams
<1>8. Started \in Stream
  BY DEF Started, Stream, Links, Statuses, NotRequested
<1>9. \A i \in 1 .. n : market_data'[i] \in Stream
  BY <1>6, <1>7, <1>8, SubscribeFromFacts
<1>10. market_data' \in Seq(Stream)
  BY <1>4, <1>6, <1>9, SeqDef DEF n
<1>11. StatusMatchesLink'
  <2> SUFFICES ASSUME NEW i \in 1 .. n
               PROVE  market_data'[i].status = "READY" <=> market_data'[i].link = "ready"
    BY <1>6 DEF StatusMatchesLink, Streams
  <2>1. CASE i \in Streams
    BY <2>1, <1>6, <1>7, SubscribeFromFacts DEF StatusMatchesLink
  <2>2. CASE i \notin Streams
    BY <2>2, <1>6 DEF Started
  <2> QED
    BY <2>1, <2>2
<1>12. SubscribedExactlyOnce'
  <2> SUFFICES ASSUME NEW i \in 1 .. n, NEW s \in Symbol
               PROVE  market_data'[i].requested[s] =
                        IF market_data'[i].link = "ready" /\ s \in GetSlice(symbols', i, 0)
                        THEN 1 ELSE 0
    BY <1>6 DEF SubscribedExactlyOnce, Streams
  <2>1. CASE i \in Streams
    <3>1. market_data[i].requested[s] =
            IF market_data[i].link = "ready" /\ s \in GetSlice(symbols, i, 0) THEN 1 ELSE 0
      BY <2>1 DEF SubscribedExactlyOnce
    <3>2. market_data[i].status = "READY" <=> market_data[i].link = "ready"
      BY <2>1 DEF StatusMatchesLink
    <3>3. /\ market_data'[i].link = market_data[i].link
          /\ market_data'[i].requested[s] =
               IF market_data[i].status = "READY" /\ s \in GetSlice(symbols', i, Len(symbols))
               THEN market_data[i].requested[s] + 1 ELSE market_data[i].requested[s]
      BY <2>1, <1>6, <1>7, SubscribeFromFacts
    <3>4. /\ s \in GetSlice(symbols', i, 0)
               <=> s \in GetSlice(symbols, i, 0) \/ s \in GetSlice(symbols', i, Len(symbols))
          /\ ~(s \in GetSlice(symbols, i, 0) /\ s \in GetSlice(symbols', i, Len(symbols)))
      BY <1>1, <1>2, SliceSplit
    <3> QED
      BY <3>1, <3>2, <3>3, <3>4
  <2>2. CASE i \notin Streams
    BY <2>2, <1>6 DEF Started, NotRequested
  <2> QED
    BY <2>1, <2>2
<1>13. SymbolsDistinct'
  BY <1>3 DEF SymbolsDistinct
<1>14. StreamsMatchSlices'
  BY <1>6 DEF StreamsMatchSlices, Streams, n
<1> QED
  BY <1>3, <1>10, <1>11, <1>12, <1>13, <1>14 DEF NothingBeforeStart, Running

(* A step that does not touch what is shared keeps the invariant, unless it*)
(* is the start, which comes before the first stream.                      *)
LEMMA UnchangedIInv ==
  ASSUME SharedIInv, UNCHANGED <<sharedVars, market_data>>,
         Running' => Running \/ market_data = <<>>,
         process' = "created" => process = "created"
  PROVE  SharedIInv'
<1> USE DEF SharedIInv, sharedVars
<1>1. StatusMatchesLink'
  BY DEF StatusMatchesLink, Streams
<1> QED
  BY <1>1 DEF NothingBeforeStart, SymbolsDistinct, SubscribedExactlyOnce, Streams, StreamsMatchSlices

(* A handler of one stream that replaces its record keeps the invariant if *)
(* the new record is as it should be.                                      *)
LEMMA StreamStepIInv ==
  ASSUME SharedIInv, Running, UNCHANGED <<process, sharedVars>>,
         NEW i \in Streams, NEW stream \in Stream,
         market_data' = [market_data EXCEPT ![i] = stream],
         stream.status = "READY" <=> stream.link = "ready",
         \A s \in Symbol : stream.requested[s] =
             IF stream.link = "ready" /\ s \in GetSlice(symbols, i, 0) THEN 1 ELSE 0
  PROVE  SharedIInv'
<1> USE DEF SharedIInv, sharedVars
<1>1. /\ market_data' \in Seq(Stream)
      /\ DOMAIN market_data' = DOMAIN market_data
      /\ \A j \in Streams : market_data'[j] = IF j = i THEN stream ELSE market_data[j]
  BY ExceptSeq DEF Streams
<1>2. StatusMatchesLink'
  BY <1>1 DEF StatusMatchesLink, Streams
<1>3. SubscribedExactlyOnce'
  BY <1>1 DEF SubscribedExactlyOnce, Streams
<1> QED
  BY <1>1, <1>2, <1>3 DEF NothingBeforeStart, SymbolsDistinct, Streams, StreamsMatchSlices, Running

(* The handlers of the web socket streams (market_data.cpp lines 163-184). *)
LEMMA StreamHandlersIInv ==
  ASSUME SharedIInv, NEW i \in Streams, Connected(i) \/ Ready(i) \/ Disconnected(i)
  PROVE  SharedIInv'
<1> USE DEF SharedIInv
<1>1. market_data[i] \in Stream
  BY DEF Streams
<1>2. Running /\ UNCHANGED <<process, sharedVars>>
  BY DEF Connected, Ready, Disconnected, MarketDataConnected, MarketDataReady,
         MarketDataDisconnected, restVars, sharedVars
<1>3. /\ market_data[i].status = "READY" <=> market_data[i].link = "ready"
      /\ \A s \in Symbol : market_data[i].requested[s] =
             IF market_data[i].link = "ready" /\ s \in GetSlice(symbols, i, 0) THEN 1 ELSE 0
  BY <1>2 DEF StatusMatchesLink, SubscribedExactlyOnce
<1>4. CASE Connected(i)
  <2> DEFINE stream == [market_data[i] EXCEPT !.link = "connected"]
  <2>1. stream \in Stream
    BY <1>1 DEF Stream, Links
  <2>2. market_data[i].link = "down" /\ market_data' = [market_data EXCEPT ![i] = stream]
    BY <1>4 DEF Connected, MarketDataConnected
  <2>3. /\ stream.link = "connected"
        /\ stream.status = market_data[i].status
        /\ stream.requested = market_data[i].requested
    BY <1>1 DEF Stream
  <2> HIDE DEF stream
  <2> QED
    BY <1>2, <1>3, <2>1, <2>2, <2>3, StreamStepIInv
<1>5. CASE Ready(i)
  <2> DEFINE up == [market_data[i] EXCEPT !.link = "ready", !.status = "READY"]
             stream == SubscribeFrom(up, symbols, i, 0)
  <2>1. market_data[i].link = "connected" /\ market_data' = [market_data EXCEPT ![i] = stream]
    BY <1>5 DEF Ready, MarketDataReady
  <2>2. /\ up \in Stream /\ up.link = "ready" /\ up.status = "READY"
        /\ up.requested = market_data[i].requested
    BY <1>1 DEF Stream, Links, Statuses
  <2> HIDE DEF up
  <2>3. /\ stream \in Stream /\ stream.link = "ready" /\ stream.status = "READY"
        /\ \A s \in Symbol : stream.requested[s] =
               IF s \in GetSlice(symbols, i, 0) THEN up.requested[s] + 1 ELSE up.requested[s]
    BY <2>2, SubscribeFromFacts
  <2> HIDE DEF stream
  <2>4. \A s \in Symbol : stream.requested[s] = IF s \in GetSlice(symbols, i, 0) THEN 1 ELSE 0
    BY <1>3, <2>1, <2>2, <2>3
  <2> QED
    BY <1>2, <2>1, <2>3, <2>4, StreamStepIInv
<1>6. CASE Disconnected(i)
  <2> DEFINE stream == Cut(market_data[i], "down", "DISCONNECTED")
  <2>1. market_data' = [market_data EXCEPT ![i] = stream]
    BY <1>6 DEF Disconnected, MarketDataDisconnected
  <2>2. /\ stream \in Stream /\ stream.link = "down" /\ stream.status = "DISCONNECTED"
        /\ \A s \in Symbol : stream.requested[s] = 0
    BY DEF Cut, Stream, Links, Statuses, NotRequested
  <2> HIDE DEF stream
  <2> QED
    BY <1>2, <2>1, <2>2, StreamStepIInv
<1> QED
  BY <1>4, <1>5, <1>6

(* Stop closes every stream (controller.cpp lines 78-81).                  *)
LEMMA StopIInv ==
  ASSUME SharedIInv, Stop
  PROVE  SharedIInv'
<1> USE DEF SharedIInv
<1>1. /\ process' = "stopped" /\ UNCHANGED sharedVars
      /\ market_data' = [i \in DOMAIN market_data |->
                            Cut(market_data[i], "stopped", market_data[i].status)]
  BY DEF Stop, RestStop, MarketDataStop, sharedVars
<1>2. \A i \in DOMAIN market_data : market_data[i] \in Stream
  OBVIOUS
<1>3. \A i \in DOMAIN market_data :
        /\ market_data'[i] \in Stream
        /\ market_data'[i].link = "stopped"
        /\ \A s \in Symbol : market_data'[i].requested[s] = 0
  BY <1>1, <1>2 DEF Cut, Stream, Links, NotRequested
<1>4. DOMAIN market_data' = DOMAIN market_data
  BY <1>1
<1>5. market_data' \in Seq(Stream)
  <2>1. DOMAIN market_data = 1 .. Len(market_data) /\ Len(market_data) \in Nat
    OBVIOUS
  <2>2. market_data' \in [1 .. Len(market_data) -> Stream]
    BY <1>1, <1>3, <1>4, <2>1
  <2> QED
    BY <2>1, <2>2, SeqDef
<1>6. SubscribedExactlyOnce'
  BY <1>3, <1>4 DEF SubscribedExactlyOnce, Streams
<1> QED
  BY <1>1, <1>4, <1>5, <1>6 DEF sharedVars, NothingBeforeStart, StatusMatchesLink, SymbolsDistinct,
                           Streams, StreamsMatchSlices, Running

(* The controller's handler of Subscribe (controller.cpp lines 93-107).    *)
LEMMA SubscribeIInv ==
  ASSUME SharedIInv, NEW names \in SUBSET Symbol, Subscribe(names)
  PROVE  SharedIInv'
<1> DEFINE S == names \ all_symbols
<1>1. PICK new \in Orders(S) : SymbolsUpdate(new)
  BY DEF Subscribe
<1>2. /\ Running /\ process' = process /\ thrown' = thrown
      /\ all_symbols' = all_symbols \cup names
  BY DEF Subscribe, restVars
<1>3. /\ S \in SUBSET Symbol /\ S \cap all_symbols = {}
      /\ all_symbols \cup S \subseteq all_symbols' /\ all_symbols' \subseteq Symbol
  BY <1>2 DEF SharedIInv
<1> HIDE DEF S
<1> QED
  BY <1>1, <1>2, <1>3, SymbolsUpdateIInv

(* A symbol that is only recorded keeps the invariant.                     *)
LEMMA RecordedIInv ==
  ASSUME SharedIInv, UNCHANGED <<process, symbols, market_data>>,
         all_symbols \subseteq all_symbols', all_symbols' \subseteq Symbol, thrown' \subseteq Symbol
  PROVE  SharedIInv'
<1> USE DEF SharedIInv
<1>1. SymbolsDistinct'
  BY DEF SymbolsDistinct
<1> QED
  BY <1>1 DEF NothingBeforeStart, StatusMatchesLink, SubscribedExactlyOnce, Streams,
              StreamsMatchSlices, Running

(* The market info that is processed, with or without new symbols in it    *)
(* (rest.cpp lines 242-305).                                               *)
LEMMA MarketInfoAckIInv ==
  ASSUME SharedIInv, NEW sequence, NEW listed \in SUBSET Symbol, MarketInfoAck(sequence, listed)
  PROVE  SharedIInv'
<1> DEFINE S == (listed \ Discarded) \ all_symbols
<1>1. /\ Running /\ process' = process /\ thrown' = thrown
      /\ all_symbols' = all_symbols \cup (listed \ Discarded)
  BY DEF MarketInfoAck, MarketInfoProcessed, Answer
<1>2. PICK new \in Orders(S) :
        IF new = <<>> THEN UNCHANGED <<symbols, market_data>> ELSE SymbolsUpdate(new)
  BY DEF MarketInfoAck
<1>3. /\ S \in SUBSET Symbol /\ S \cap all_symbols = {}
      /\ all_symbols \cup S \subseteq all_symbols' /\ all_symbols' \subseteq Symbol
  BY <1>1 DEF SharedIInv
<1> HIDE DEF S
<1>4. CASE new = <<>>
  BY <1>1, <1>2, <1>3, <1>4, RecordedIInv DEF SharedIInv
<1>5. CASE new # <<>>
  BY <1>1, <1>2, <1>3, <1>5, SymbolsUpdateIInv
<1> QED
  BY <1>4, <1>5

(* The market info that is abandoned half way (rest.cpp lines 330-341).    *)
LEMMA MarketInfoAckThrowsIInv ==
  ASSUME SharedIInv, NEW sequence, NEW done \in SUBSET Symbol, MarketInfoAckThrows(sequence, done)
  PROVE  SharedIInv'
<1>1. /\ UNCHANGED <<process, symbols, market_data>>
      /\ all_symbols' = all_symbols \cup (done \ Discarded)
      /\ thrown' = thrown \cup ((done \ Discarded) \ all_symbols)
  BY DEF MarketInfoAckThrows, MarketInfoThrows, MarketInfoError
<1> QED
  BY <1>1, RecordedIInv DEF SharedIInv

(* Nothing is shared before the start.                                     *)
LEMMA SharedInit == Init => SharedIInv
<1> SUFFICES ASSUME Init PROVE SharedIInv
  OBVIOUS
<1>1. symbols = <<>> /\ market_data = <<>> /\ all_symbols = {} /\ thrown = {} /\ Streams = {}
  BY DEF Init, MarketDataInit, Streams
<1>2. Size(symbols) = 0 /\ DOMAIN symbols = {}
  BY <1>1 DEF Size
<1> QED
  BY <1>1, <1>2 DEF SharedIInv, NothingBeforeStart, StatusMatchesLink, SymbolsDistinct,
                    StreamsMatchSlices, SubscribedExactlyOnce, IsInjective, Range

(* Every step of the gateway keeps the invariant.                          *)
LEMMA SharedNext == SharedIInv /\ [Next]_vars => SharedIInv'
<1> SUFFICES ASSUME SharedIInv, [Next]_vars
             PROVE  SharedIInv'
  OBVIOUS
<1>1. CASE UNCHANGED vars
  BY <1>1, UnchangedIInv DEF vars, restVars, Running
<1>2. CASE Start
  <2>1. /\ process = "created" /\ process' = "started"
        /\ UNCHANGED <<sharedVars, market_data>>
    BY <1>2 DEF Start, RestStart
  <2> QED
    BY <2>1, UnchangedIInv DEF SharedIInv, NothingBeforeStart
<1>3. CASE Stop
  BY <1>3, StopIInv
<1>4. ASSUME NEW names \in SUBSET Symbol, Subscribe(names)
      PROVE  SharedIInv'
  BY <1>4, SubscribeIInv
<1>5. ASSUME NEW sequence \in Sequences, NEW listed \in SUBSET Symbol,
             MarketInfoAck(sequence, listed)
      PROVE  SharedIInv'
  BY <1>5, MarketInfoAckIInv
<1>6. ASSUME NEW sequence \in Sequences, NEW done \in SUBSET Symbol,
             MarketInfoAckThrows(sequence, done)
      PROVE  SharedIInv'
  BY <1>6, MarketInfoAckThrowsIInv
<1>7. CASE RestStep
  <2>1. UNCHANGED <<sharedVars, market_data>> /\ Running /\ process' # "created"
    BY <1>7 DEF RestStep, RestConnected, RestDisconnected, DownloadRetry, MarketInfoError,
                MarketInfoRedirected, MarketInfoSkipped, Answer, Running
  <2> QED
    BY <2>1, UnchangedIInv
<1>8. ASSUME NEW i \in Streams, Connected(i) \/ Ready(i) \/ Disconnected(i)
      PROVE  SharedIInv'
  BY <1>8, StreamHandlersIInv
<1> QED
  BY <1>1, <1>2, <1>3, <1>4, <1>5, <1>6, <1>7, <1>8 DEF Next

-----------------------------------------------------------------------------
(* The gateway implements SymbolFeed *)

(* What is live is what streams that are up were given.                    *)
LiveTold == Live = {s \in Range(symbols) : StreamOf(symbols, s) \in StreamsUp}

LEMMA LiveIsTold == SharedIInv => LiveTold
<1> SUFFICES ASSUME SharedIInv PROVE LiveTold
  OBVIOUS
<1> USE DEF SharedIInv
<1>1. \A i \in Streams, s \in Symbol :
         market_data[i].requested[s] > 0 <=> i \in StreamsUp /\ s \in GetSlice(symbols, i, 0)
  BY DEF SubscribedExactlyOnce, StreamsUp
<1>2. \A i, s : s \in GetSlice(symbols, i, 0) => s \in Range(symbols)
  BY DEF GetSlice, Range
<1>3. \A i, s : s \in Range(symbols) => (s \in GetSlice(symbols, i, 0) <=> StreamOf(symbols, s) = i)
  BY StreamOfFacts DEF SymbolsDistinct
<1>4. Range(symbols) \subseteq Symbol /\ StreamsUp \subseteq Streams
  BY DEF SymbolsDistinct, StreamsUp
<1> QED
  BY <1>1, <1>2, <1>3, <1>4 DEF LiveTold, Live

(* The instance has a copy of the definition.                              *)
LEMMA FeedCardinality == \A T : Feed!Cardinality(T) = Cardinality(T)
  BY Zenon DEF Feed!Cardinality, Cardinality

(* New symbols, of a client or of a download, are registered.              *)
LEMMA SymbolsUpdateRegisters ==
  ASSUME SharedIInv, LiveTold, LiveTold',
         NEW S \in SUBSET Symbol, S \cap all_symbols = {},
         NEW new \in Orders(S), SymbolsUpdate(new)
  PROVE  Feed!Register(S)
<1> USE DEF SharedIInv
<1>1. S \cap Range(symbols) = {} /\ IsInjective(symbols) /\ symbols' = symbols \o new
  BY DEF SymbolsDistinct, SymbolsUpdate
<1>2. /\ symbols' \in Seq(Symbol) /\ IsInjective(symbols')
      /\ Range(symbols') = Range(symbols) \cup S
  BY <1>1, AppendFacts
<1>3. /\ DOMAIN Assigned = Range(symbols) /\ DOMAIN Assigned' = Range(symbols) \cup S
      /\ \A s \in Range(symbols) : Assigned[s] = StreamOf(symbols, s)
      /\ \A s \in Range(symbols) \cup S : Assigned'[s] = StreamOf(symbols', s)
  BY <1>2 DEF Assigned
<1>4. \A s \in Range(symbols) : StreamOf(symbols', s) = StreamOf(symbols, s)
  BY <1>1, StreamOfAppend
<1>5. \A s \in S : Assigned'[s] \in Nat \ {0}
  BY <1>2, <1>3, StreamOfFacts
<1>6. ASSUME NEW s \in S
      PROVE  Cardinality({t \in DOMAIN Assigned \cup S : Assigned'[t] = Assigned'[s]}) <= MaxPerStream
  <2> DEFINE i == StreamOf(symbols', s)
  <2>1. {t \in DOMAIN Assigned \cup S : Assigned'[t] = Assigned'[s]}
          = {t \in Range(symbols') : StreamOf(symbols', t) = i}
    BY <1>2, <1>3
  <2> HIDE DEF i
  <2> QED
    BY <2>1, <1>2, SliceCardinality
<1>7. StreamsUp' = StreamsUp
  <2>1. \A i \in Streams : market_data[i] \in Stream
    BY DEF Streams
  <2>2. /\ DOMAIN market_data \subseteq DOMAIN market_data'
        /\ \A i \in DOMAIN market_data' : market_data'[i] =
               IF i \in DOMAIN market_data
               THEN SubscribeFrom(market_data[i], symbols', i, Len(symbols)) ELSE Started
    BY DEF SymbolsUpdate
  <2>3. \A i \in Streams : market_data'[i].link = market_data[i].link
    BY <2>1, <2>2, SubscribeFromFacts DEF Streams
  <2> QED
    BY <2>2, <2>3 DEF StreamsUp, Streams, Started
<1>8. Live' = Live \cup {s \in S : Assigned'[s] \in StreamsUp}
  BY <1>1, <1>2, <1>3, <1>4, <1>7 DEF LiveTold
<1>9. /\ S \cap DOMAIN Assigned = {}
      /\ DOMAIN Assigned' = DOMAIN Assigned \cup S
      /\ \A s \in DOMAIN Assigned : Assigned'[s] = Assigned[s]
  BY <1>1, <1>3, <1>4
<1> QED
  BY <1>5, <1>6, <1>7, <1>8, <1>9, FeedCardinality DEF Feed!Register, Feed!Registered

(* A handler of a stream moves the stream up, down or not at all.          *)
LEMMA StreamHandlersMove ==
  ASSUME SharedIInv, LiveTold, LiveTold', NEW i \in Streams,
         Connected(i) \/ Ready(i) \/ Disconnected(i)
  PROVE  Feed!Next \/ UNCHANGED Feed!vars
<1> USE DEF SharedIInv
<1>1. symbols' = symbols /\ Assigned' = Assigned
  BY DEF Connected, Ready, Disconnected, MarketDataConnected, MarketDataReady,
         MarketDataDisconnected, Assigned
<1>2. market_data[i] \in Stream
  BY DEF Streams
<1>3. \E stream : market_data' = [market_data EXCEPT ![i] = stream]
  <2>1. CASE Connected(i)
    <3> DEFINE stream == [market_data[i] EXCEPT !.link = "connected"]
    <3>1. market_data' = [market_data EXCEPT ![i] = stream]
      BY <2>1 DEF Connected, MarketDataConnected
    <3> HIDE DEF stream
    <3> QED
      BY <3>1
  <2>2. CASE Ready(i)
    <3> DEFINE stream ==
          SubscribeFrom([market_data[i] EXCEPT !.link = "ready", !.status = "READY"], symbols, i, 0)
    <3>1. market_data' = [market_data EXCEPT ![i] = stream]
      BY <2>2 DEF Ready, MarketDataReady
    <3> HIDE DEF stream
    <3> QED
      BY <3>1
  <2>3. CASE Disconnected(i)
    <3> DEFINE stream == Cut(market_data[i], "down", "DISCONNECTED")
    <3>1. market_data' = [market_data EXCEPT ![i] = stream]
      BY <2>3 DEF Disconnected, MarketDataDisconnected
    <3> HIDE DEF stream
    <3> QED
      BY <3>1
  <2> QED
    BY <2>1, <2>2, <2>3
<1> PICK stream : market_data' = [market_data EXCEPT ![i] = stream]
  BY <1>3
<1>4. /\ DOMAIN market_data' = DOMAIN market_data
      /\ \A j \in Streams : j # i => market_data'[j] = market_data[j]
      /\ market_data'[i] = stream
  BY DEF Streams
<1>5. StreamsUp' = IF stream.link = "ready" THEN StreamsUp \cup {i} ELSE StreamsUp \ {i}
  BY <1>4 DEF StreamsUp, Streams
<1>6. i \in StreamsUp <=> market_data[i].link = "ready"
  BY DEF StreamsUp
<1>7. /\ DOMAIN Assigned = Range(symbols)
      /\ \A s \in Range(symbols) : Assigned[s] = StreamOf(symbols, s)
  BY DEF Assigned
<1>8. Feed!On(i) = {s \in Range(symbols) : StreamOf(symbols, s) = i}
  BY <1>7 DEF Feed!On, Feed!Registered
<1>9. i \in {Assigned[s] : s \in Feed!Registered}
  <2>1. PICK p \in DOMAIN symbols : SliceOf(p) = i
    BY SlicesInUse DEF StreamsMatchSlices
  <2>2. symbols[p] \in GetSlice(symbols, i, 0)
    BY <2>1 DEF GetSlice
  <2>3. symbols[p] \in Range(symbols)
    BY <2>1 DEF Range
  <2>4. StreamOf(symbols, symbols[p]) = i
    BY <2>2, <2>3, StreamOfFacts DEF SymbolsDistinct
  <2> QED
    BY <1>7, <2>3, <2>4 DEF Feed!Registered
<1>10. CASE stream.link = "ready" <=> market_data[i].link = "ready"
  <2>1. StreamsUp' = StreamsUp
    BY <1>5, <1>6, <1>10
  <2> QED
    BY <1>1, <2>1 DEF LiveTold, Feed!vars
<1>11. CASE market_data[i].link # "ready" /\ stream.link = "ready"
  <2>1. i \notin StreamsUp /\ StreamsUp' = StreamsUp \cup {i}
    BY <1>5, <1>6, <1>11
  <2>2. Live' = Live \cup Feed!On(i)
    BY <1>1, <1>8, <2>1 DEF LiveTold
  <2> QED
    BY <1>1, <1>9, <2>1, <2>2 DEF Feed!Next, Feed!StreamUp
<1>12. CASE market_data[i].link = "ready" /\ stream.link # "ready"
  <2>1. i \in StreamsUp /\ StreamsUp' = StreamsUp \ {i}
    BY <1>5, <1>6, <1>12
  <2>2. Live' = Live \ Feed!On(i)
    BY <1>1, <1>8, <2>1 DEF LiveTold
  <2> QED
    BY <1>1, <1>9, <2>1, <2>2 DEF Feed!Next, Feed!StreamDown
<1> QED
  BY <1>10, <1>11, <1>12

(* Stop takes all streams down.                                            *)
LEMMA StopTakesDown ==
  ASSUME SharedIInv, LiveTold', Stop
  PROVE  Feed!AllDown
<1>1. symbols' = symbols /\ Assigned' = Assigned
  BY DEF Stop, MarketDataStop, Assigned
<1>2. \A i \in DOMAIN market_data' : market_data'[i].link = "stopped"
  BY DEF Stop, MarketDataStop, Cut
<1>3. StreamsUp' = {}
  BY <1>2 DEF StreamsUp, Streams
<1> QED
  BY <1>1, <1>3 DEF LiveTold, Feed!AllDown

(* Before the start nothing is registered.                                 *)
LEMMA FeedInit == Init => Feed!Init
<1> SUFFICES ASSUME Init PROVE Feed!Init
  OBVIOUS
<1>1. symbols = <<>> /\ Streams = {} /\ Range(symbols) = {}
  BY DEF Init, MarketDataInit, Streams, Range
<1>2. Assigned = [s \in {} |-> 0]
  BY <1>1 DEF Assigned
<1> QED
  BY <1>1, <1>2 DEF Feed!Init, StreamsUp, Live

(* Every step of the gateway is one of SymbolFeed, or none.                *)
LEMMA FeedStep == SharedIInv /\ LiveTold /\ LiveTold' /\ [Next]_vars => [Feed!Next]_(Feed!vars)
<1> SUFFICES ASSUME SharedIInv, LiveTold, LiveTold', [Next]_vars
             PROVE  Feed!Next \/ UNCHANGED Feed!vars
  OBVIOUS
<1>1. CASE UNCHANGED <<symbols, market_data>>
  BY <1>1 DEF Assigned, StreamsUp, Streams, Live, Feed!vars
<1>2. ASSUME NEW S \in SUBSET Symbol, S \cap all_symbols = {},
             NEW new \in Orders(S), SymbolsUpdate(new)
      PROVE  Feed!Next
  BY <1>2, SymbolsUpdateRegisters DEF Feed!Next
<1>3. ASSUME NEW names \in SUBSET Symbol, Subscribe(names)
      PROVE  Feed!Next
  <2>1. PICK new \in Orders(names \ all_symbols) : SymbolsUpdate(new)
    BY <1>3 DEF Subscribe
  <2> QED
    BY <2>1, <1>2
<1>4. ASSUME NEW sequence, NEW listed \in SUBSET Symbol, MarketInfoAck(sequence, listed)
      PROVE  Feed!Next \/ UNCHANGED <<symbols, market_data>>
  <2>1. PICK new \in Orders((listed \ Discarded) \ all_symbols) :
           IF new = <<>> THEN UNCHANGED <<symbols, market_data>> ELSE SymbolsUpdate(new)
    BY <1>4 DEF MarketInfoAck
  <2> QED
    BY <2>1, <1>2
<1>5. CASE Stop
  BY <1>5, StopTakesDown DEF Feed!Next
<1>6. CASE Start \/ RestStep
  BY <1>1, <1>6 DEF Start, RestStep, sharedVars
<1>7. ASSUME NEW sequence, NEW done, MarketInfoAckThrows(sequence, done)
      PROVE  UNCHANGED <<symbols, market_data>>
  BY <1>7 DEF MarketInfoAckThrows
<1>8. CASE UNCHANGED vars
  BY <1>1, <1>8 DEF vars, sharedVars
<1> QED
  BY <1>1, <1>3, <1>4, <1>5, <1>6, <1>7, <1>8, StreamHandlersMove DEF Next

-----------------------------------------------------------------------------
(* In the gateway the REST stream does what it does alone.                 *)
LEMMA RestStepOfNext == [Next]_vars => [RestNext]_restVars
<1> SUFFICES ASSUME [Next]_vars
             PROVE  RestNext \/ UNCHANGED restVars
  OBVIOUS
<1>1. ASSUME NEW sequence \in Sequences, NEW listed, MarketInfoAck(sequence, listed)
      PROVE  RestNext
  BY <1>1 DEF MarketInfoAck, RestNext
<1>2. ASSUME NEW sequence \in Sequences, NEW done, MarketInfoAckThrows(sequence, done)
      PROVE  RestNext
  BY <1>2 DEF MarketInfoAckThrows, MarketInfoThrows, RestNext
<1>3. CASE RestStep
  BY <1>3 DEF RestStep, RestNext
<1>4. CASE Start \/ Stop
  BY <1>4 DEF Start, Stop, RestNext
<1>5. ASSUME NEW names, Subscribe(names) PROVE UNCHANGED restVars
  BY <1>5 DEF Subscribe
<1>6. ASSUME NEW i, Connected(i) \/ Ready(i) \/ Disconnected(i) PROVE UNCHANGED restVars
  BY <1>6 DEF Connected, Ready, Disconnected
<1>7. CASE UNCHANGED vars
  BY <1>7 DEF vars
<1> QED
  BY <1>1, <1>2, <1>3, <1>4, <1>5, <1>6, <1>7 DEF Next

(* Composition does not break the REST stream.                             *)
THEOREM GatewayImplementsRest == Spec => RestSpec
<1>1. Init => RestInit
  BY DEF Init
<1> QED
  BY <1>1, RestStepOfNext, PTL DEF Spec, RestSpec

(* The invariant of what the controller and its streams share.             *)
THEOREM GatewayInvariant == Spec => []SharedIInv
  BY SharedInit, SharedNext, PTL DEF Spec

(* The state of the gateway is well-typed.                                 *)
THEOREM GatewayTypeCorrect == Spec => []TypeOK
<1>1. SharedIInv /\ RestTypeOK => TypeOK
  BY DEF SharedIInv, TypeOK
<1> QED
  BY <1>1, GatewayInvariant, GatewayImplementsRest, RestTypeCorrect, PTL

(* Clients and the download never register a symbol twice (controller.cpp  *)
(* line 97, rest.cpp line 291), also when processing throws half way.      *)
THEOREM GatewaySymbolsDistinct == Spec => []SymbolsDistinct
  BY GatewayInvariant, PTL DEF SharedIInv

(* No registered symbol is without a stream, no stream without a symbol    *)
(* (ensure_symbol_slices, controller.cpp lines 177-185).                   *)
THEOREM GatewayEverySymbolHasStream == Spec => []EverySymbolHasStream
<1>1. SharedIInv => EverySymbolHasStream
  BY SlicesInUse DEF SharedIInv, StreamsMatchSlices, EverySymbolHasStream
<1> QED
  BY <1>1, GatewayInvariant, PTL

(* On a connection that is ready the slice is requested once, whatever the *)
(* order of discoveries, connects and disconnects (market_data.cpp lines   *)
(* 163-184).                                                               *)
THEOREM GatewaySubscribedExactlyOnce == Spec => []SubscribedExactlyOnce
  BY GatewayInvariant, PTL DEF SharedIInv

(* What was recorded as seen was registered, but for what processing that  *)
(* threw had seen (controller.cpp lines 97-102, rest.cpp lines 291-301).   *)
THEOREM GatewayNoSymbolForgotten == Spec => []NoSymbolForgotten
<1>1. Init => NoSymbolForgotten
  BY DEF Init, MarketDataInit, NoSymbolForgotten, Range
<1>2. ASSUME SharedIInv, NoSymbolForgotten, [Next]_vars
      PROVE  NoSymbolForgotten'
  <2>1. ASSUME NEW S \in SUBSET Symbol, S \cap all_symbols = {},
               NEW new \in Orders(S), SymbolsUpdate(new), all_symbols' = all_symbols \cup S,
               thrown' = thrown
        PROVE  NoSymbolForgotten'
    <3>1. symbols' = symbols \o new /\ S \cap Range(symbols) = {}
      BY <1>2, <2>1 DEF SymbolsUpdate, SharedIInv, SymbolsDistinct
    <3>2. Range(symbols') = Range(symbols) \cup S
      BY <1>2, <3>1, AppendFacts DEF SharedIInv, SymbolsDistinct
    <3> QED
      BY <1>2, <2>1, <3>2 DEF NoSymbolForgotten
  <2>2. CASE UNCHANGED sharedVars
    BY <1>2, <2>2 DEF sharedVars, NoSymbolForgotten
  <2>3. ASSUME NEW names \in SUBSET Symbol, Subscribe(names)
        PROVE  NoSymbolForgotten'
    <3> DEFINE S == names \ all_symbols
    <3>1. PICK new \in Orders(S) : SymbolsUpdate(new)
      BY <2>3 DEF Subscribe
    <3>2. /\ all_symbols' = all_symbols \cup S /\ thrown' = thrown
          /\ S \in SUBSET Symbol /\ S \cap all_symbols = {}
      BY <2>3 DEF Subscribe
    <3> HIDE DEF S
    <3> QED
      BY <2>1, <3>1, <3>2
  <2>4. ASSUME NEW sequence, NEW listed \in SUBSET Symbol, MarketInfoAck(sequence, listed)
        PROVE  NoSymbolForgotten'
    <3> DEFINE S == (listed \ Discarded) \ all_symbols
    <3>1. PICK new \in Orders(S) :
            IF new = <<>> THEN UNCHANGED <<symbols, market_data>> ELSE SymbolsUpdate(new)
      BY <2>4 DEF MarketInfoAck
    <3>2. /\ all_symbols' = all_symbols \cup S /\ thrown' = thrown
          /\ S \in SUBSET Symbol /\ S \cap all_symbols = {}
      BY <2>4 DEF MarketInfoAck
    <3> HIDE DEF S
    <3>3. CASE new # <<>>
      BY <2>1, <3>1, <3>2, <3>3
    <3>4. CASE new = <<>>
      <4>1. IsFiniteSet(S)
        BY <3>2, FS_Subset
      <4>2. S = {}
        BY <3>4, <4>1, OrdersFacts DEF Range
      <4> QED
        BY <1>2, <3>1, <3>2, <3>4, <4>2 DEF NoSymbolForgotten
    <3> QED
      BY <3>3, <3>4
  <2>5. CASE Start \/ Stop \/ RestStep
    BY <2>2, <2>5 DEF Start, Stop, RestStep, MarketDataStop, sharedVars
  <2>6. ASSUME NEW i, Connected(i) \/ Ready(i) \/ Disconnected(i)
        PROVE  NoSymbolForgotten'
    BY <2>2, <2>6 DEF Connected, Ready, Disconnected, MarketDataConnected, MarketDataReady,
                      MarketDataDisconnected, sharedVars
  <2>7. ASSUME NEW sequence, NEW done, MarketInfoAckThrows(sequence, done)
        PROVE  NoSymbolForgotten'
    BY <1>2, <2>7 DEF MarketInfoAckThrows, NoSymbolForgotten
  <2> QED
    BY <1>2, <2>2, <2>3, <2>4, <2>5, <2>6, <2>7 DEF Next, vars
<1> QED
  BY <1>1, <1>2, GatewayInvariant, PTL DEF Spec

(* The gateway keeps what SymbolFeed promises: a symbol has one stream for *)
(* good, no stream has more than MaxPerStream, and the symbols of the      *)
(* streams that are up, and no others, are live.                           *)
THEOREM GatewayImplementsFeed == Spec => ImplementsFeed
<1>1. SharedIInv' => LiveTold'
  BY LiveIsTold, PTL
<1> QED
  BY <1>1, FeedInit, FeedStep, LiveIsTold, GatewayInvariant, PTL DEF Spec, ImplementsFeed, Feed!Spec
=============================================================================
