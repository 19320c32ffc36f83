-------------------------------- MODULE Rest --------------------------------
(***************************************************************************)
(* gateway::Rest (src/roq/whitebit/gateway/rest.cpp): the one REST stream  *)
(* of the gateway, which downloads the market information each time it gets *)
(* connected.  What the handlers do to the Rest object is here; what the   *)
(* market information does to the rest of the gateway is in Gateway, which *)
(* conjoins it with MarketInfoProcessed and MarketInfoThrows.              *)
(*                                                                         *)
(* External, modelled from how rest.cpp uses them: core::Download2 (the    *)
(* variable "download" and the operators begin ... retry) and              *)
(* web::rest::Client (rest_link, pending and who answers when).            *)
(***************************************************************************)
EXTENDS Integers, Sequences, FiniteSets, Bags

CONSTANT MaxSequence   \* bound on the number of download rounds

ASSUME SequenceAssumption == MaxSequence \in Nat

VARIABLES
    process,       \* life of the process: Start, Stop, log::fatal
    rest_link,     \* the connection of web::rest::Client
    rest_status,   \* connection_status_
    download,      \* download_: state, sequence and whether a retry is due
    pending,       \* bag of the requests not answered yet; a request is the
                   \*   sequence its callback captured (line 216)
    processed      \* history: the requests whose market info was processed

restVars == <<process, rest_link, rest_status, download, pending, processed>>

Running == process = "started"

Downloading == download.state = "GET_MARKET_INFO"

-----------------------------------------------------------------------------
(* core::Download2 *)

RestInit ==
    /\ process = "created"
    /\ rest_link = "stopped"
    /\ rest_status = "UNDEFINED"
    /\ download = [state |-> "UNDEFINED", sequence |-> 0, retrying |-> FALSE]
    /\ pending = EmptyBag
    /\ processed = <<>>

(* Mutant of GetMarketInfo: the callback captures the sequence one round   *)
(* too early, before it is bumped.                                         *)
GetMarketInfoEarly(sequence) ==
    /\ download' = [state |-> "GET_MARKET_INFO", sequence |-> sequence, retrying |-> FALSE]
    /\ rest_status' = "DOWNLOADING"
    /\ pending' = pending (+) SetToBag({sequence - 1})

(* Mutant of GetMarketInfo: a retry that is due is not cleared.            *)
GetMarketInfoAgain(sequence) ==
    /\ download' = [download EXCEPT !.state = "GET_MARKET_INFO", !.sequence = sequence]
    /\ rest_status' = "DOWNLOADING"
    /\ pending' = pending (+) SetToBag({sequence})

(* download(GET_MARKET_INFO): publish DOWNLOADING, send the request.       *)
GetMarketInfo(sequence) ==
    /\ download' = [state |-> "GET_MARKET_INFO", sequence |-> sequence, retrying |-> FALSE]
    /\ rest_status' = "DOWNLOADING"
    /\ pending' = pending (+) SetToBag({sequence})

(* skip(): the answer belongs to an earlier round, or the state is done.   *)
Skip(sequence) == sequence # download.sequence \/ ~Downloading

(* retry(): the request is due again, unless nothing is being downloaded.  *)
Retry == download' = [download EXCEPT !.retrying = @ \/ Downloading]

-----------------------------------------------------------------------------

RestStart ==
    /\ process = "created"
    /\ process' = "started"
    /\ rest_link' = "down"
    /\ UNCHANGED <<rest_status, download, pending, processed>>

RestStop ==
    /\ Running
    /\ process' = "stopped"
    /\ rest_link' = "stopped"
    /\ UNCHANGED <<rest_status, download, pending, processed>>

(* Connected: bump or begin, both start a new round of the same download.  *)
RestConnected ==
    /\ Running
    /\ rest_link = "down"
    /\ download.sequence < MaxSequence
    /\ rest_link' = "up"
    /\ GetMarketInfo(download.sequence + 1)
    /\ UNCHANGED <<process, processed>>

(* Disconnected: an unfinished download is kept, a finished one forgotten. *)
RestDisconnected ==
    /\ Running
    /\ rest_link = "up"
    /\ rest_link' = "down"
    /\ rest_status' = "DISCONNECTED"
    /\ download' = IF Downloading THEN download ELSE [download EXCEPT !.state = "UNDEFINED"]
    /\ UNCHANGED <<process, pending, processed>>

(* External: Download2 repeats a request that failed, on a live connection.*)
DownloadRetry ==
    /\ Running
    /\ rest_link = "up"
    /\ Downloading /\ download.retrying
    /\ GetMarketInfo(download.sequence)
    /\ UNCHANGED <<process, rest_link, processed>>

-----------------------------------------------------------------------------
(* get_market_info_ack through process_response.  Requests are pipelined   *)
(* and may fail long after their connection: any of them is answered next. *)

Answer(sequence) ==
    /\ Running
    /\ BagIn(sequence, pending)
    /\ pending' = pending (-) SetToBag({sequence})

(* Mutant of MarketInfoError: the failure is only logged.                  *)
MarketInfoErrorLogged(sequence) ==
    /\ Answer(sequence)
    /\ UNCHANGED <<process, rest_link, rest_status, download, processed>>

(* Error status, NetworkError, timeout, or a body that does not parse: the *)
(* error handler does not look at the sequence.                            *)
MarketInfoError(sequence) ==
    /\ Answer(sequence)
    /\ Retry
    /\ UNCHANGED <<process, rest_link, rest_status, processed>>

(* log::fatal: the exchange redirects. *)
MarketInfoRedirected(sequence) ==
    /\ rest_link = "up"
    /\ Answer(sequence)
    /\ process' = "terminated"
    /\ UNCHANGED <<rest_link, rest_status, download, processed>>

MarketInfoSkipped(sequence) ==
    /\ rest_link = "up"
    /\ Answer(sequence)
    /\ Skip(sequence)
    /\ UNCHANGED <<process, rest_link, rest_status, download, processed>>

(* Mutant of MarketInfoProcessed: READY is not published.                  *)
MarketInfoProcessedSilently(sequence) ==
    /\ rest_link = "up"
    /\ Answer(sequence)
    /\ ~Skip(sequence)
    /\ download' = [download EXCEPT !.state = "DONE", !.retrying = FALSE]
    /\ processed' = Append(processed, sequence)
    /\ UNCHANGED <<process, rest_link, rest_status>>

(* Mutants of MarketInfoProcessed: skip() is not asked, check() is not called. *)
MarketInfoProcessedBlindly(sequence) ==
    /\ rest_link = "up"
    /\ Answer(sequence)
    /\ download' = [download EXCEPT !.state = "DONE", !.retrying = FALSE]
    /\ rest_status' = "READY"
    /\ processed' = Append(processed, sequence)
    /\ UNCHANGED <<process, rest_link>>

MarketInfoProcessedUnchecked(sequence) ==
    /\ rest_link = "up"
    /\ Answer(sequence)
    /\ ~Skip(sequence)
    /\ processed' = Append(processed, sequence)
    /\ UNCHANGED <<process, rest_link, rest_status, download>>

(* Processed: check() moves the download on to DONE, which publishes READY.*)
MarketInfoProcessed(sequence) ==
    /\ rest_link = "up"
    /\ Answer(sequence)
    /\ ~Skip(sequence)
    /\ download' = [download EXCEPT !.state = "DONE", !.retrying = FALSE]
    /\ rest_status' = "READY"
    /\ processed' = Append(processed, sequence)
    /\ UNCHANGED <<process, rest_link>>

(* The handler of the market info throws half way: process_response turns  *)
(* the exception into a call of the error handler.                         *)
MarketInfoThrows(sequence) ==
    /\ rest_link = "up"
    /\ ~Skip(sequence)
    /\ MarketInfoError(sequence)

Sequences == 1 .. download.sequence

RestNext ==
    \/ RestStart
    \/ RestStop
    \/ RestConnected
    \/ RestDisconnected
    \/ DownloadRetry
    \/ \E sequence \in Sequences :
          \/ MarketInfoError(sequence)
          \/ MarketInfoRedirected(sequence)
          \/ MarketInfoSkipped(sequence)
          \/ MarketInfoProcessed(sequence)

RestSpec == RestInit /\ [][RestNext]_restVars

(***************************************************************************)
(* Fairness.  Download2 performs the retry it owes (WF).  The exchange may *)
(* fail as often as it likes, but a request that is repeated for ever on a *)
(* connection that stays up is answered some time (SF).                    *)
(***************************************************************************)
RestFairness ==
    /\ WF_restVars(DownloadRetry)
    /\ SF_restVars(MarketInfoProcessed(download.sequence))

RestFairSpec == RestSpec /\ RestFairness

-----------------------------------------------------------------------------

(* Type invariant of the REST stream. *)
RestTypeOK ==
    /\ process \in {"created", "started", "stopped", "terminated"}
    /\ rest_link \in {"stopped", "down", "up"}
    /\ rest_status \in {"UNDEFINED", "DOWNLOADING", "READY", "DISCONNECTED"}
    /\ download \in [state : {"UNDEFINED", "GET_MARKET_INFO", "DONE"},
                     sequence : 0 .. MaxSequence,
                     retrying : BOOLEAN]
    /\ DOMAIN pending \subseteq Sequences
    /\ \A sequence \in DOMAIN pending : pending[sequence] \in Nat \ {0}
    /\ processed \in Seq(Sequences)

(***************************************************************************)
(* READY is not published on the strength of an old answer: while the      *)
(* stream is READY it is connected, and the market information requested   *)
(* since this connection came up is the last that was processed.  Answers  *)
(* to the requests of earlier connections do not count (skip, line 230).   *)
(***************************************************************************)
ReadyMeansProcessed ==
    Running /\ rest_status = "READY" =>
        /\ rest_link = "up"
        /\ processed # <<>>
        /\ processed[Len(processed)] = download.sequence

(***************************************************************************)
(* Retries and reconnects put several requests for the same data on the    *)
(* wire; still each round is processed once at most, and never after a     *)
(* later round (get_market_info_ack, lines 229-237).                       *)
(***************************************************************************)
RoundsProcessedOnce ==
    \A i, j \in DOMAIN processed : i < j => processed[i] < processed[j]

(***************************************************************************)
(* Rest::Timer does not drive the download, so what is lost stays lost: in *)
(* a download on a live connection, the request of this round is under way *)
(* or its retry is due, also when errors of older requests and a           *)
(* disconnect in the middle of the download (lines 154-155, 165) intervene.*)
(***************************************************************************)
DownloadNotLost ==
    Running /\ rest_link = "up" /\ Downloading =>
        download.retrying \/ BagIn(download.sequence, pending)

(* The copies of the elements of a bag, told apart by a number. *)
Copies(bag) == UNION {{e} \X (1 .. bag[e]) : e \in DOMAIN bag}

(***************************************************************************)
(* Errors of old requests retry the present one as well (line 227 has no   *)
(* sequence to compare), so a round may be requested more than once, but   *)
(* the requests under way or due never outnumber the connections made.     *)
(***************************************************************************)
RequestsBounded ==
    Cardinality(Copies(pending)) + (IF download.retrying THEN 1 ELSE 0) <= download.sequence

(***************************************************************************)
(* A connection that stays up gets the stream READY, whatever was in       *)
(* flight when it came up and however many attempts fail.                  *)
(***************************************************************************)
EventuallyReady ==
    Running /\ rest_link = "up" ~> rest_status = "READY" \/ rest_link # "up" \/ ~Running
=============================================================================
