# roq-whitebit: a verification project

TLA+ modules of the WhiteBIT gateway in `src/src/roq/whitebit`, the TLC configurations that check them on small
instances, and proofs, checked by TLAPS, of what holds for every value of the constants. Paths below are relative
to `src/src/roq/whitebit`; line numbers are those of the commit the modules were written from. `PROJECT.json` has
the same information in machine-readable form: components, runs, the lines behind every definition, the mutants
that show each property can fail, hazards, findings and theorems.

- [The system](#the-system): its parts, state and interactions, and what is hard about it
- [Modules](#modules): which module models which part, and how
- [Runs](#runs): what each checks, its bounds and why they are enough
- [Fairness](#fairness)
- [Proofs](#proofs): what is proved, from which assumptions, by which invariant
- [Findings](#findings): where code and documentation disagree
- [What is not modelled](#what-is-not-modelled)
- [Plan](#plan)

## The system

The gateway connects trading clients to one exchange. It is a single process whose gateway code runs on a single
thread: the connections, the server and the timer deliver *events*, and each event is handled to its end before
the next one. There are no locks and no data races to model. What is hard is the *order* of events: several
connections come up and go down independently, answers arrive after the connection, or the download round, they
were asked for, time passes, and handlers leave state behind that another handler reads much later.

| Component | State | Operations | Talks to |
| --- | --- | --- | --- |
| controller (`gateway/controller.cpp`) | `market_data_`, the streams; `stream_id_` | Start, Stop, Timer, Subscribe, Control, orders (all NotSupported), SymbolsUpdate, `ensure_symbol_slices` | calls every stream, creates the market-data streams |
| shared state (`gateway/shared.hpp`) | `symbols` (a list cut into slices), `all_symbols` (ever seen), buffers `bids`, `asks`, `trades`, the throttle | | read and written by the controller and all streams |
| REST stream (`gateway/rest.cpp`) | `connection_status_`, `download_` (state, sequence) | Start, Stop, Connected, Disconnected, `get_market_info`, `get_market_info_ack`, MarketInfoAck, `process_response` | SymbolsUpdate to the controller, StreamStatus and ReferenceData to the dispatcher |
| market-data streams (`gateway/market_data.cpp`), one per slice | `connection_status_`, `next_ping_`, `request_id_` | Start, Stop, Timer, `subscribe`, Ready, Disconnected, Text, one handler per update | requests to the exchange, updates to the dispatcher |
| message parser (`protocol/json/parser.cpp`) | what it has seen of a message | `dispatch` | the handlers of the market-data stream |
| configuration and entry (`application.cpp`, `gateway/config.cpp`, `gateway/account.cpp`, `tools/crypto.cpp`) | what was read of the file; the accounts | read a section, create an account, `parse_api`, `Config::dispatch` | the server, which constructs the controller |
| throttle (`tools/throttle.cpp`) | `params_` (latched headers), `suspend_until_` | message header, message end | shared by all connections; their clients read `suspend_until_` |

A typical course: the configuration file is read section by section, the controller and its accounts are constructed,
and anything unusable on the way ends the process. Start opens the REST connection. When it comes up the *download* of
the market information begins, at a new `sequence`; its answer registers the symbols not seen before (also clients
register symbols, by Subscribe), the controller creates a web socket stream for each slice that has none, and tells
every stream to subscribe to what was added. A stream that becomes ready subscribes to its whole slice. The exchange
answers with snapshots and updates, which the parser hands to the handlers and these to the dispatcher.

Hard, and not what the unit tests reach (these decode one message each):

- *stale answers*: requests are pipelined, and a callback only carries the sequence it was made with; the error
  path does not even look at it (`rest.cpp` 216, 225-232);
- *who subscribes*: a symbol may be discovered while its stream is up, connecting, down or not created yet; one of
  two code paths has to request it, not both and not neither (`controller.cpp` 166-185, `market_data.cpp` 163-184);
- *requests and their ids*: one subscription takes several requests, the ids run over reconnects and the ids of two
  streams are kept apart by a range only (`market_data.cpp` 84, 407-454); what is refused is logged and forgotten (224);
- *partial failure*: `all_symbols` is filled inside a loop, the update is sent after it (`rest.cpp` 242-301);
- *latched values*: the throttle recomputes on a change of one header from the stored value of the other, and
  tests `suspend_until_` for zero (`throttle.cpp` 78-139);
- *time*: pings against the idle timeout, over reconnects that keep `next_ping_` (`market_data.cpp` 114-120);
- *order of JSON members*, of which the parser makes its decision (`parser.cpp` 45-96);
- *outages*: what happened meanwhile is in the snapshots after the reconnect only (`market_data.cpp` 282-287, 308);
- *partial configurations*: an account among several that lacks a credential (`gateway/account.cpp` 18-38), and an API
  that the server checks by other rules than the constructor does (`gateway/controller.cpp` 47-63);
- *shared buffers* used for the books of all symbols (`market_data.cpp` 274-281), and a book dispatcher that is
  fatal when a change arrives without a snapshot (303).

What makes each part correct is stated as the properties below.

## Modules

Core:

| Module | Models | State and actions |
| --- | --- | --- |
| `Throttle` | `tools::Throttle` | `suspend_until`, the latched headers, the clock. One action per header, one per status, `Tick`. Three history variables remember the rejections and the resets announced. |
| `Rest` | `gateway::Rest`, the download | `download` (state, sequence, retry due), `pending`: the *bag* of sequences captured by the callbacks not run yet, `processed`: history. One action per handler and per outcome of `process_response`. |
| `SymbolSlices` | external `core::Symbols` | `SliceOf`, `Size`, `GetSlice`: pure operators. |
| `MarketData` | the connection side of the streams | `market_data`, a sequence of records (link, status, how often each symbol was requested), and `SymbolsUpdate`, the handler of the controller, with its loop. |
| `Gateway` | the controller; composes `Rest` and `MarketData` | extends both and adds `all_symbols` and the history variable `thrown`, the symbols of which processing threw. The handlers of `Rest` that have effects outside are conjoined with them (`MarketInfoAck`, `MarketInfoAckThrows`), the others are `RestStep`. |
| `SymbolFeed` | nothing: what the gateway promises | which stream a symbol is given to, which streams are up, which symbols are live. No REST, no lists, no counters. `Gateway!ImplementsFeed` is the refinement by the gateway, `Subscriptions!ImplementsPromise` that by the streams with their requests. |

Around it, each with state of its own that no other part reads:

| Module | Models | State and actions |
| --- | --- | --- |
| `Subscriptions` | the requests of the streams that `MarketData` counts only | each stream's `request_id`, the requests under way, and what the exchange made of those of this connection (`live`, `refused`). Registration, Ready, Disconnected, Response. |
| `Startup` | `Config`, the constructor of the controller | the file, what was read of it (`accounts`, `symbols`, `users`, `rate_limits`), the accounts created, what the server was told. One action per kind of section, one per check. |
| `Heartbeat` | pings of one market-data stream | clock, last timer event, status, whether the peer still serves the connection, `next_ping`, the external client's last `touch`. |
| `Feed` | depth and trade updates of one stream | the exchange's books and trades, the messages under way, `levels` (the shared buffers), the dispatcher's books, what was published. |
| `FeedHistory` | nothing more: `Feed` with what it leaves behind | three history variables: the books of the exchange so far, to which of them each message under way leads, which one was published last. Each action is an action of `Feed` that records. |
| `BookFeed` | nothing: what the published books promise | the books of the exchange one after the other, the published ones. No subscriptions, messages or connections. `FeedHistory!ImplementsBookFeed` is the refinement. |
| `Parser` | `Parser::dispatch` | one action per kind of member, `MethodUndefined` (fatal) among them, `Return` for the end. |
| `Statistics` | the array published for a market update | one action. |

`XProofs` extends `X` and holds its theorems (`FeedProofs` extends `FeedHistory`; the theorems of `Rest` are in
`GatewayProofs`, the facts about slices that two of them share in `SliceProofs`); `MCX` instantiates it for TLC. An
operator commented "Mutant of" is a plausible wrong version of the definition after it; no specification uses it.

Conventions. An action is a whole handler with everything it calls. Where a handler only publishes what it stored,
publishing is left out. `publish DOWNLOADING` and the sending of the request are one step, since nothing can happen
between them. `link`/`rest_link` is the state of the external client; `status`/`rest_status` is the field of the
code, and invariants relate the two. Positions and slices count from 1.

External, and modelled from how the code uses it: `core::Download2` (a retry that is due is performed, `skip` is
true unless the sequence is that of the present round and the round is not done, `bump` and `begin` start a new
sequence), `core::Symbols`, the REST and web socket clients (callbacks run later, on error or timeout too; requests
of a lost connection may fail at any time after it), the dispatcher (applies books, throws BadState for a change
without a book, may drop books or keep them on a disconnect), `core::json::Parser` (whether its iteration stops on
`true` is not visible here: both are checked), the enumeration `Method` (which values it reads as undefined is a
constant, of which TLC has one), the reader of the configuration and the server, and the exchange (starts
each subscription with a snapshot of the book or of all trades, handles the requests of a connection in the order of
their ids, accepts or refuses each, may let a later request replace an earlier one of its method unless it is "added",
answers pings within a latency as long as it serves the connection). No TCP order is broken: messages of one connection
arrive in order or, after a disconnect, not at all.

## Runs

`CHECK_DEADLOCK FALSE` is set where the modelled program really ends (Stop, `log::fatal`, a message is parsed) or
where a bound ends the run. Symmetry is used in runs of safety properties only.

| Run | Question | Bounds and why |
| --- | --- | --- |
| `throttle` | Do any headers and statuses, in any order, leave the gateway unsuspended while the quota is used up, shorten the block after a 403, or lock it out for good? | `MaxTime` 7 with back-offs 2 and 4 and resets at 3 and 6: each expires, and is extended, within the run. Clocks differ by `OFFSET` 1. Three quotas, so that a change may leave the quota open. |
| `throttle_429` | Does a back-off follow each 429? No, see Findings. | as above |
| `rest` | Does the download survive reconnects, late answers, errors and retries, is no answer used twice, and does the stream become READY? | `MaxSequence` 4: requests of three earlier rounds under way at once; one is enough for each confusion of two rounds. `pending` itself is not bounded, `RequestsBounded` is checked of it. |
| `gateway` | Is every symbol given to a stream, once, and subscribed exactly once on each connection, however discoveries, downloads that throw half way, and reconnects interleave? Is it served in the end? Does the gateway implement `SymbolFeed`? | 4 symbols, one of them discarded, slices of 2: a slice is filled exactly, overflows, several are created at once, or none. 2 rounds: the same symbol is discovered twice by REST and by clients. Reconnects are not bounded. No symmetry, as liveness is asked. |
| `gateway_resubscribe` | Does a new symbol re-subscribe all of its slice? No, see Findings. | 3 symbols |
| `subscriptions` | Is each feed that the exchange does not replace live, asked for or refused on the present connection, and of the others those of the symbols subscribed last; is no request id used twice, and do the streams with their requests implement `SymbolFeed`? | 3 symbols in slices of 2, 2 connections of each stream, ids in ranges of 8: one stream uses up its range. The exchange replaces depth and trades: the `added` of the depth requests matters, and older symbols do lose their trades. |
| `startup` | Do exactly the usable files and APIs start the gateway, and is the server told what is in the file? | all files of up to 3 sections in which no key is repeated: two accounts, of which one may lack its key and the other its secret, two users, two rate limits, either of two lists of symbols. All API texts, checked by the server before, between or never. |
| `heartbeat` | Is a quiet but served connection kept, a half-open one given up, and the exchange not flooded with pings? | ping 3, timer 2, latency 1, idle 6: the equality in `SettingsAssumption`, with an idle timeout of 5 `QuietConnectionKept` fails. `MaxTime` 18: more than two idle timeouts and several reconnects. |
| `parser` | Is a message dispatched as what it is, once, whatever the order of its members? | every order of the members of each kind of message, known, unknown and with an undefined method; unknown ones allowed or not; both readings of the external iteration |
| `feed` | Do the published books converge to the exchange's, over reconnects and through the shared buffers, is each published book one that the exchange had, and none older than the one before, is the fatal BadState never reached, and is no trade lost in an outage? | 2 symbols, 2 levels of a quantity 0 or 1, 2 connections, 2 changes, 3 messages under way: two symbols' messages interleave, and a level disappears between two connections, so that a snapshot must remove it. |
| `feed_trades` | Is each trade published once? No, see Findings. | as above |
| `statistics` | Does each statistic have the value of its name? No, see Findings. | 3 prices |

What the properties say, beyond a type invariant for each module:

- **Throttle**: `ExhaustedSuspends`, `ForbiddenSuspends`, `SuspensionBounded`.
- **Rest**: `ReadyMeansProcessed` (READY rests on the market information asked for on *this* connection),
  `RoundsProcessedOnce`, `DownloadNotLost` (an unfinished download on a live connection has a request under way or a
  retry due: nothing else would move it), `RequestsBounded` (errors of old requests cause further requests of the
  present round, but no more than connections were made), `EventuallyReady`.
- **Gateway**: `SymbolsDistinct`, `NoSymbolForgotten`, `EverySymbolHasStream`, `SubscribedExactlyOnce`,
  `ImplementsFeed`, `EventuallyServed`.
- **Subscriptions**: `FeedsServed` (the depth, and each method of which the exchange adds up the requests, is live,
  asked for or refused for all of the slice, over registrations, reconnects and refusals; a method of which a request
  replaces the one before is so for the symbols subscribed last only: the feeds of the older ones *are* lost, see
  Findings 2), `IdsDistinct` (an answer tells its request, also across streams, until a range is used up),
  `IdsNotReused`, `ImplementsPromise` (what `Gateway` counts as one subscription is several requests here, refused or
  replaced one by one; it keeps the same promise. In service are feeds that are asked for or refused, too, and the
  methods that are replaced are left out).
- **Startup**: `OutcomeRight`, `ServerHasFile`.
- **Heartbeat**: `QuietConnectionKept`, `HalfOpenDetected`, `PingsSpaced`.
- **Parser**: `OrderIrrelevant`, `OutcomeTellsEvent` (what `dispatch` returns, and the two ends of the process: a
  message that is no event where this is not allowed, and an undefined method where it is, too), `DispatchedOnce`.
- **Feed**: `BooksConverge` (the dispatcher's book, with what is under way applied, is the exchange's),
  `ImplementsBookFeed` (no mixture of two books is published on the way there, and no older book after a newer one,
  also of books kept over a reconnect), `NeverBadState`, `TradesDelivered` (a trade of a subscribed symbol is
  published or under way, one made during an outage too; a handler that drops the snapshot, as the comment at line 308
  proposes, violates it).

## Fairness

- `RestFairness`. WF on `DownloadRetry`: a retry that is due on a connection that stays up is made, which is what
  `core::Download2` is there for. SF on processing the answer of the present round: the exchange may fail any
  number of times, but not for ever. Nothing is assumed of the connection: `EventuallyReady` is about one that stays up.
- `Gateway!Fairness`. WF on Connected and SF on Ready of each stream: `always_reconnect = true`
  (`market_data.cpp` 60), and of infinitely many attempts one completes its handshake. Nothing is assumed of
  discoveries or of the REST stream, since whatever is in `all_symbols` was registered by the same step.

`Subscriptions`, `Startup`, `Heartbeat`, `Parser`, `Feed` and `Throttle` state safety only and have no fairness.

## Proofs

`tlapm` checks every leaf; nothing is assumed but the `ASSUME`s of the modules, which TLC evaluates in the runs.
All constants are arbitrary: any set of symbols (finite), any slice size from 1 on, any clocks and back-offs, any
number of rounds, messages and configuration files of any length. Each proof has an inductive invariant that implies
what the run checks. Every safety property of the passing runs is proved: the type invariants, the other invariants, the
action properties and the three refinements.

**ThrottleProofs.** `IInv` is the four invariants of the run plus `ResetAnnounced`: the latched reset time is one of
those announced. Without it `SuspensionBounded` is not inductive, as a *status* header applies a reset time that came
earlier. `SuspendUntilBounds` says once what `update_suspend_until` returns.
Theorems `ThrottleExhaustedSuspends`, `ThrottleForbiddenSuspends`, `ThrottleSuspensionBounded`, `ThrottleTypeCorrect`.

**SliceProofs.** What the streams' proofs need of `SymbolSlices`, for any list and any `MaxPerStream`: the positions
of a slice (`SliceBounds`, `SliceWidth`), that the slices in use have no gap (`SlicesInUse`), and that appending to
the list leaves the old part of each slice as it was, `get_slice(index, start_from)` being the rest (`SliceSplit`,
`StreamOfAppend`). They are facts about the external list, no results about the gateway.

**GatewayProofs, the REST stream.** `RestIInv` adds `ProcessedSoFar` (no processed round is beyond the present one, nor
is it the present one while that is downloaded: this is what makes an answer that is not skipped a *new* round) and
`Fresh` (nothing is published before the start). Facts about bags (`AddRequest`, `RemoveRequest`) are lemmas. For
`RequestsBounded` the bag is counted by its `Copies`, pairs of a request and a number, as sums over a bag would need
induction: a request that is sent adds one copy (`CopiesAdd`), one that is answered takes the last one away
(`CopiesRemove`). Theorems `RestTypeCorrect`, `RestReadyMeansProcessed`, `RestRoundsProcessedOnce`,
`RestDownloadNotLost`, `RestRequestsBounded`.

**GatewayProofs, the composition.** `GatewayImplementsRest` maps each step of the gateway to a step of `Rest` or a
stutter, so that the theorems of the REST stream hold in the composition. `SharedIInv` then adds what the streams
need: `StatusMatchesLink` (READY is the status of the streams that are up, *while the process runs*: Stop closes
connections without a callback), `StreamsMatchSlices` (as many streams as slices in use, no gaps) and
`NothingBeforeStart`. The work is in `SymbolsUpdateIInv`, with the lemmas of `SliceProofs`. Theorems
`GatewayTypeCorrect`, `GatewaySymbolsDistinct`, `GatewayEverySymbolHasStream`, `GatewaySubscribedExactlyOnce`,
`GatewayNoSymbolForgotten`.

`GatewayImplementsFeed` is the refinement of `SymbolFeed`. `FeedStep` takes each action to a step of `SymbolFeed` or a
stutter: a registration assigns the new symbols (`SymbolsUpdateRegisters`; appending moves no symbol to another stream,
`StreamOfAppend`), the handlers of a connection take one stream up or down (`StreamHandlersMove`), Stop takes all down.
That no stream is given more than `MaxPerStream` symbols is the cardinality of a slice (`SliceWidth`,
`SliceCardinality`), and that exactly the symbols of the streams that are up are live follows from
`SubscribedExactlyOnce` (`LiveIsTold`).

**SubscriptionsProofs.** `StreamInv` says of each stream that its ids are between its start and its counter and name one
request each, that the depth requests are added, and that the feeds of its slice are served, or those since
`since`, where its last subscription began (`LastServed`). `SliceSpan` and
`SliceAppend` tie the positions that `subscribe` goes through to the slices of `SymbolSlices`; a request is answered in
the order of the ids, so that one that replaces is handled before what came after it. Theorems
`SubscriptionsFeedsServed`, `SubscriptionsIdsDistinct`, `SubscriptionsIdsNotReused`, `SubscriptionsTypeCorrect`.

`SubscriptionsImplementPromise` is the refinement of `SymbolFeed`. It needs three more parts of the invariant: the
list names no symbol twice, `SlicesFilled` (as many streams as slices in use) and `OwnFeeds` (a stream has nothing
live, asked for or refused outside its slice, so that a symbol is served by no other stream than its own). With
`FeedsServed` a symbol is served exactly while its stream is up (`ServedIsTold`), whatever the exchange answers and in
any order.

**StartupProofs.** `AccountsLoaded` says that the accounts are all the sections of that kind among those read
(`KeepsAll`; by `FileAssumption` no key is repeated, so that `emplace` meets none that is there, `EmplaceSection`),
`ChecksPassed` what the way to the present point has made sure of, `FatalRightly` that an end was called for. `Loaded`
is that and the like for symbols, users and rate limits, and `ServerTold` that what the server has is what was read.
That the users are all there in order is said by an increasing map from their list to the file (`Lists`), which a
section that is read extends by one (`ListsSection`). Theorems `StartupOutcomeRight`, `StartupServerHasFile`,
`StartupTypeCorrect`.

**ParserProofs.** An undefined method ends the process at once (`UndefinedEnds`), so that no message with one is passed
over (`AdvanceDefined`). `DispatchedWhatWasSeen` and `DoneAfterDispatch` relate `has_result`, `result` and what was
dispatched to the members seen so far. `MessageAssumption` is what the exchange sends: keys occur once, an update has
a method and an answer a result, none has both; without it the order of the members does matter. `EventOf` says that
any member that tells the event tells the same one. Theorems `ParserOrderIrrelevant`, `ParserOutcomeTellsEvent`,
`ParserDispatchedOnce`, `ParserTypeCorrect`.

**FeedProofs.** `BooksConverge` is stated over the channel: the last message that tells of a level tells its present
quantity, and if none does the book has it. `SnapshotAhead` (a change under way has a book or a snapshot ahead of it)
makes it and `NeverBadState` inductive, `TradesTrue` does the same for `TradesDelivered`. Theorems `FeedBooksConverge`,
`FeedNeverBadState`, `FeedTradesDelivered`, `FeedTypeCorrect`.

`FeedImplementsBookFeed` is the refinement of `BookFeed` by `FeedHistory`; `HistoryRefinesFeed` carries the theorems
above over to it. `HInv` says of each message under way which book of the exchange it leads to: a snapshot from
nothing, a change from the book before it (`MessagesLead`); that these books come in order, and only the first message
may be a snapshot (`InOrder`); and `NothingMissed`, that a symbol's book did not change between the books to which two
messages in a row lead, nor between the published one and the first change under way. So a change meets exactly the
book that it was made from, though other symbols changed meanwhile (`DepthUpdateShows`). No fold over the messages is
needed, and so no induction.

**HeartbeatProofs.** `QuietConnectionKept` is far from inductive. `ActivityFollowsPings` and `NextPing` say how old the
client's activity can be: without a ping under way there was activity since the last ping, with one under way the ping
was sent within a ping period and a timer period of the activity. With `NothingOverdue` this yields the idle timeout
that `SettingsAssumption` asks for, also on the first ping of a new connection, timed by the old one. Theorems
`HeartbeatQuietConnectionKept`, `HeartbeatHalfOpenDetected`, `HeartbeatPingsSpaced`, `HeartbeatTypeCorrect`.

Only model-checked: liveness (`EventuallyReady`, `EventuallyServed`), which TLAPS does not do under
fairness.

## Findings

1. `tools/throttle.cpp` 130: a 429 backs off only if `suspend_until_` is zero. A suspension that has merely expired is
   not zero, so after the first exhausted quota or 403 a 429 may have no effect (run `throttle_429`).
2. `gateway/market_data.cpp` 165: a READY stream subscribes to the new symbols only; `index.rst` 466 says all symbols
   have to be subscribed again (run `gateway_resubscribe`). `SubscribedExactlyOnce` is right for an exchange that adds
   subscriptions, as the comment at 444 has it for depth.
3. `gateway/market_data.cpp` 308: "drop snapshot" is not done; trades are published again after a reconnect (run
   `feed_trades`).
4. `gateway/market_data.cpp` 354: the statistic OPEN_PRICE is given the high price (run `statistics`).

Not a finding, but a limit worth knowing: `NoSymbolForgotten` excepts the symbols in `thrown`. If the dispatcher
throws for one item of the market information, the items before it are in `all_symbols` but in no slice, and the retry
takes them for known. `MarketInfoAckThrows` is this exception in the loop; one thrown while `SymbolsUpdate` is
dispatched (`rest.cpp` 300), half way through the creation of streams for example, is not modelled.

## What is not modelled

- *Order requests, quotes, the order encoder, request signing*: the controller answers all of them with NotSupported;
  the code that builds the requests (`encoder.cpp`) is not reached. Worth knowing: `gateway/config.cpp` 25-26
  announces CREATE_ORDER and CANCEL_ORDER as supported and `index.rst` 98-108 marks them as available. There is no
  state to check, and so no run.
- *Control*: passes ENABLED or DISABLED on to the dispatcher.
- *Reference data, top of book, latency, metrics*: values passed on without state. Book-ticker, market-today and
  response messages occur as what they do to the state: they touch the connection (`Heartbeat!Update`).
- *Decoders and enumeration maps*: generated from schemas, or constant tables.
- *Flags, the main functions, bridge, FIX bridge, benchmarks*: read once or hand over to libraries; the settings that
  matter are CONSTANTS. The syntax of the configuration file is the external reader's; that no key is repeated is
  TOML, where symbols are one array and accounts, users and rate limits tables by name (`share/config.toml`).
- *A REST request held back by the throttle*: the client that does so is external. `Throttle` and `Rest` are checked
  apart; a request that is held back is one that takes long.

## Plan

Done, in this order: `Throttle`, `Rest`, `SymbolSlices`, `MarketData`, `Gateway` with `SymbolFeed`, their proofs;
`Heartbeat` and its proofs; `Parser`, `Feed`, `Statistics`; `Subscriptions` and `Startup` with their proofs; the
refinement of `SymbolFeed` proved; the proofs of `Parser` and `Feed`; `RequestsBounded` and `ServerHasFile` proved;
`Subscriptions` as a refinement of `SymbolFeed`; `BookFeed`, its refinement by `FeedHistory` and the proof.

Next:

1. *Model*: top of book in `Feed`, with its INCREMENTAL updates and no snapshot, over reconnects; the reference data
   of a symbol before its market data; the REST client that reads `Throttle`, so that a suspension delays a download
   and the two are composed; several streams over the shared buffers in `Feed`.
2. *Prove*: an abstract specification of the download (rounds, each processed at most once, READY only after the one
   of the present connection) and its refinement by `Rest`; the same for the suspension of `Throttle`.
