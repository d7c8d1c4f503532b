# A verification project for Pumpy

TLA+ models of the trading bot in this repository, the TLC runs that check
them on small instances, and TLAPS proofs of their safety properties for every
size. `PROJECT.json` lists the components, the runs, the theorems,
the hazards with their source lines, and for each definition the lines it
models. Paths below are relative to the root of the repository unless a file
ends in `.tla`; `rust-engine` stands for `rust-engine/src`.

## 1. The system

Pumpy trades pump.fun tokens on Solana for one or more wallets. Three servers
and a database make it up:

    dashboard (React) --REST, WebSocket--> api-server (Express)
    python-strategy (FastAPI, ML)  --gRPC SubmitOrder-->  rust-engine
    api-server  --gRPC stream, health, REST fallback-->  rust-engine, python-strategy
    rust-engine --SQL--> Postgres <--SQL-- api-server
    rust-engine --JSON-RPC--> Solana RPC nodes, Jito block engine

### Inventory

| Component (source) | State it keeps | Operations | What is hard | What makes it correct |
|---|---|---|---|---|
| Order pipeline (`rust-engine/order/manager.rs`) | `pending_orders`, `active_orders`, `order_history`, the order channel, the semaphore, the rows of `orders` and `trades` | `submit_order`, `cancel_order`, the receive loop, `process_order` (gate, Jito or RPC, timeout, retry), `finalize_order_minimal` | callers and up to `max_concurrent_orders` tasks interleave at every await; a timeout abandons an execution anywhere; the database fails; the process dies | an order is executed by one task at a time; a bounded number of transactions per approval; nothing accepted is forgotten; memory and database agree; the exposure that gates orders is the real one |
| Decision engine (`rust-engine/decision/mod.rs`) | three atomics: the count of consecutive rejections, the auto-pause latch, the single-fire flag | `evaluate`, `on_reject`, `take_needs_db_pause`, `reset_pause` | called from many tasks without a lock; its verdict is acted on over awaits; a detached task writes the pause to the database | a streak is never missed; a latch is persisted once; a paused or halted wallet does not trade |
| gRPC service (`rust-engine/grpc_server.rs`) | the in-memory idempotency cache; the table `idempotency_keys` | `SubmitOrder`, `CancelOrder`, `StreamOrders`, queries | concurrent duplicates, client retries, a crash between reservation and commit, expiry of both tiers | one order per idempotency key; a duplicate is never answered with a wrong order |
| Wallet workers and supervisor (`rust-engine/wallet_worker.rs`, `main.rs`) | `active_ids`, `in_backoff`, `permanent_skip`, restart counters | spawn, exit, restart with backoff, skip, halt, status polling | messages of workers, timers and the poll arrive in any order | one worker per wallet; an enabled wallet is eventually served; a halted one is not |
| Jito client, simulation gate (`rust-engine/mev/mod.rs`, `jito.rs`) | tip statistics | simulate, send bundle, poll status | answers that are errors, late or undecided | no double execution through fallback |
| Sandwich detection (`rust-engine/mev/mempool.rs`, `sandwich.rs`) | a cache of pool transactions that nothing fills | score | | the score of an order is constant today |
| pump.fun client (`rust-engine/pumpfun/`) | none | curve arithmetic, instruction layout, buy, sell | u64 arithmetic that wraps or saturates, rounding in both directions | quotes are those of the constant product, bounds bracket them |
| RPC manager (`rust-engine/rpc/mod.rs`) | endpoints with health and latency | select, periodic probe | the probe holds the write lock over network calls | a choice is made from one complete round |
| Token monitor (`rust-engine/websocket.rs`) | a connection | reconnect, parse, broadcast | lost connections | events reach the sniper |
| Database layer (`rust-engine/database.rs`) | tables | one statement per function, errors returned or logged | an error may or may not have written | see the callers |
| Python client (`python-strategy/grpc_client/client.py`) | circuit breaker | call, retry, record success or failure | concurrent calls, late results, reading the state changes it | OPEN rejects; CLOSED means below the threshold; one order per signal |
| Python strategies (`python-strategy/strategies/`, `strategy_engine.py`) | preset, enabled flags, scan counter, tracked tokens | scan, refresh of the preset, PATCH, activate | refreshes wait while routes write; a restart forgets | what is stored is what is traded with |
| Stream fan-out (`artifacts/api-server/src/index.ts`, `lib/grpc-client.ts`) | one upstream stream, reconnect timer, clients | connect, on data, enrich, broadcast, reconnect | asynchronous enrichment reorders; reconnects overlap | the last status a client sees is the last one sent |
| API routes (`artifacts/api-server/src/routes/`) | the rows they write | orders, start, stop, PATCH, preset, settings, pause, resume, halt, readiness, backtest | calls are given up that are still carried out; answers are lost; several statements without a transaction | an operator's decision holds; an answer is true |
| Dashboard (`artifacts/dashboard/`) | live trades, key cache, forms, toasts, probe socket, queries | connect, type, save, submit, start, stop, backtest | timers, overlapping requests, answers out of order | the screen shows what is so |
| Mock-up sandbox (`artifacts/mockup-sandbox/`) | the generated list of mock-ups | refresh, load | changes during a walk | the preview shows the component of its path |
| Schema, generated clients, UI libraries, runbooks, scripts | | | | `customFetch` is modelled; the rest is declarations, generated code, presentation |

The hazards this list leads to, each with its line and the properties that
would catch it, are under `hazards` in `PROJECT.json`.

## 2. Plan

The parts, the most important behaviour first. Every invariant, action property
and refinement that a run checks is also a theorem; what rests on fairness is
left to TLC.

| Part of the system | Modules | Proofs in |
|---|---|---|
| The order pipeline, and the abstract life of an order it implements | `OrderManager`, `OrderLifecycle` | `OrderManagerProofs` |
| The auto-pause and its gates | `DecisionEngine` | `DecisionEngineProofs` |
| The two tiers of `SubmitOrder`, and the lease they implement | `Idempotency`, `AtMostOnce` | `IdempotencyProofs`, `AtMostOnceProofs` |
| Workers, their channels, backoff, giving up, the two status tables | `Supervisor` | `ServerProofs` |
| How an order reaches the engine: route, fallback, retries, breaker | `OrderSubmission` | `ClientProofs` |
| How its updates reach the screen, and the feed of statuses this implements | `OrderStream` within `LiveTrades`, `OrderFeed` | `LiveTradesProofs` |
| At which price it trades | `BondingCurve` | `ServerProofs` |
| Whether the API can serve | `Readiness` | `ServerProofs` |
| The operator's key | `AdminKey` | `ClientProofs` |
| What an operator decides, and what the page shows of it | `PresetControl`, `BotControl` within `BotStatus` | `ServerProofs` |
| The same for settings and manual orders | `SettingsPage`, `TradesPage` | `ClientProofs` |
| Through which endpoint the engine works | `RpcManager` | `ServerProofs` |
| What a backtest says | `Backtest` | `ServerProofs`, over `FoldLemmas` |
| What else of the screen keeps state | `OfflineBanner`, `Toast`, `MockupPreview` | `ClientProofs` |

Left: the positions of the strategies, once something other than their own counters
depends on them; the sandwich cache, once something fills it.

## 3. The modules

`MC<module>.tla` extends a module with what TLC needs (symmetry sets); the
`.cfg` files are the instances. The modules `...Proofs` hold the theorems:
`ServerProofs` of all that `MCServers` puts together, `ClientProofs` of what
`MCClients` does, the others of the module they are named after. `FoldLemmas` is
what proofs about folds share.
Definitions under the comment `Mutant:` are plausible bugs of the definition
that follows them; no specification uses them, `PROJECT.json` says which
property each of them breaks. Where a comment says *history variable*, no
action reads it.

### OrderManager

One wallet's `OrderManager` and the tasks its execution worker spawns. Every
await of the code is a boundary between two actions.

* A call of `submit_order` is `SubmitEvaluate` (first gate, over the sum of
  `active_orders`), `StoreOrder` (the INSERT), `PushPending` (the queue limit)
  and `SendOrder` (the channel). `submit[o]` is its progress. A call for each
  member of `Orders`; the ids are fresh Uuids, so they never meet.
* `cancel_order` is `CancelPending` and `CancelActive`. The latter holds the
  write lock of `active_orders` over the UPDATE, so it is one step.
* `Dispatch` is the receive loop: it takes the head of the channel when a
  permit is free. The order the loop holds while it waits for a permit cannot
  be told from the head of the channel.
* The task in slot `s` runs `process_order` of `OrderManagerMinimal`: `Start`,
  `Gate`, `Execute`, `Resend`, `DropActive`, `Persist`, `Finish`; `pc[s]` says
  where it is and `job[s]` is the copy of the order it owns. `Execute` is the
  simulation gate, up to two rounds of bundle and status polling, the RPC
  fallback and the confirmation; `Timeout` abandons it at any of these.
* `ExecutionError` is the one place where retries are counted.
* Errors of the database leave the statement executed or not.
* `Crash` loses the memory and keeps the tables.

All orders are of one size, so exposures are numbers of orders. The decision
engine may reject anything and allows within the exposure limit only. Left
out: events, gauges, the sniper's consumer of token events (it calls
`submit_order` as any caller), portfolio queries, and the copy of
`process_order` on `OrderManager` itself, which nothing calls.

### DecisionEngine

The atomics of one wallet's `DecisionEngine`, the code around `evaluate()` at
the two gates, the `pause_wallet` tasks they spawn, and the API server's
status changes. Each load, store, swap and fetch_add is an action, because
`evaluate()` runs in many tasks at once; so is each SQL statement.

* `Begin` is `evaluate()` up to the outcome of its rules: the latch and demo
  mode give `Halt`, the other rules, which read only the call's own context,
  may go either way. `Allow` is the store of 0, `Reject`, `Latch` and `Flag`
  are the three atomics of `on_reject`.
* `Heal`, `ReadStatus`, `ResetPause` are the self-healing resume of
  `submit_order`, with the three stores of `reset_pause()` as three steps.
* `Take` and `Spawn` follow `evaluate()` at both gates.
* `Drop` is the end of a `SubmitOrder` handler whose caller has gone: of the awaits
  it can be dropped at, only the query of the status lies between raising the flag
  and taking it. `dropped` holds until a call comes to the flag again.
* `PauseRegistry`, `PauseConfig`, `PauseAlert` are the statements of
  `pause_wallet`, whose errors are logged and passed over.
* `SetStatus` is a pause, resume, halt or config route (one transaction over
  both rows); `Restart` builds a new engine.

### Idempotency and AtMostOnce

`Idempotency` is `BotService::submit_order` for the calls that retry one order.
Keys share nothing, so there is one key; calls in `Keyless` come without it.
`mem` is the key's entry of `ikey_cache`, `row` its row of `idempotency_keys`;
both are an order id, empty while the order is in flight, and the time of the
reservation. Their field `by` says whose reservation it is, for the properties
only.

* `Invalid`, `ArriveKeyless` and `Arrive` are the handler up to the release of
  the cache's write lock: an order in memory is returned (`HitOrder`), a
  placeholder is acknowledged (`HitPlaceholder`), a miss leaves a placeholder
  (`Miss`).
* `Check` and `Reserve` are the SELECT and the INSERT with the branch that
  follows, `Learn` and `Undo` the visit to memory before the answer.
* `Accept` and `Refuse` are the two results of `OrderManager::submit_order`.
  `Remember` and `Commit`, or `Forget` and `Release`, record them in memory and
  then in the table.
* `Drop` is the caller's deadline or disconnection: the handler is dropped at
  the await it is in. `Crash` takes all calls and the memory.
* A statement whose call is dropped, dies or is told of an error is lost or joins
  `late`, from which `RunLate` executes it at any time within `Deadline`.
* `Cleanup` is the background task, `Tick` the clock.

`AtMostOnce` is what this amounts to: calls compete for a lease, the holder may
make an order, it gives the lease back only if it made none, and the lease
expires no sooner than TTL. `row` is the lease: the refinement mapping takes its
owner and time, and for `told` what calls that have ended were told. Memory,
program counters and late statements are what is abstracted from.

Assumed: `2 * Deadline <= TTL`. The one client that sends a key
(`python-strategy/grpc_client/client.py`) has a deadline of 10 s, the window is
60 s; a statement that is not answered is executed no later than `Deadline` after
it was given up. A call that may last longer than the window could see its row
expire under it. The clocks of the engine and of Postgres run at one rate.

### OrderLifecycle

What the pipeline promises about an order, without queue, tasks, locks or
tables: `life[o]` is one place (new, waiting, trying, settling, or a result),
`attempts[o]` and `sent[o]` count against its budget. `Accept`, `BeginAttempt`,
`Send`, `Retry`, `Settle` and `Report` are the steps of one order, `Lose` is
the death of the process. `OrderManager` implements it under the mapping `Life`:
the place is read off the submission, the history, the tasks and `unsaved`;
attempts are approvals, at most `MaxRetries + 1`, each with three transactions
at most (two bundles and the RPC fallback). `ResultsStay` says of it that a result
is final: nothing but the death of the process ends it, and no order is taken up
again after that.

### Supervisor

The supervisor loop of `main.rs`, the rows of the wallets in both status tables,
and of a worker only that it runs or has ended.

* `RecvSpawn` and `RecvRestart` are the two channels, `SpawnEntry` what both
  end in, with the failure to build a client (`ClientFails`); `Join` is the arm
  of the `JoinSet`: count, back off or `GiveUp` with `halt_wallet`.
* `BackoffEnds` is the timer of a backoff: it reads the wallet's entry, and if
  there is none just then (the wallet is paused) it sends nothing. The wallet
  stays in `in_backoff`; `stranded` records it.
* `Watch` is the poll every 30 seconds; `WorkerEnds` and `AutoPause` are what a
  worker does to its wallet; `RestartEngine` starts from the rows.
* `SetStatus` is a route, which writes both tables in a transaction; the engine
  writes them one after the other (`Mark`, then `MarkConfig`), and either
  statement may fail.

### OrderSubmission

POST `/bot/orders`, its fallback to Python, and `BotGrpcClient.submit_order`.

* `Post`, `AnswerPost` and `AnsweredDirect` are the route's own
  call; `FallBack`, `PythonAnswers`, `PythonTimesOut` what follows an error.
* `ExecuteSignal` is a strategy's signal. `Attempt`, `Answered`, `CallFails`,
  `RetryCall` are one call with its attempts.
* `Accept` is the engine. A request may be accepted before its answer, and after
  its call was reported to have failed as well: a deadline or a broken connection
  at the client says nothing about the request. `failed` are the calls so reported,
  `RequestsOut` these and the calls that wait for an answer. No order follows from
  an answer alone: an attempt may be answered with a refusal while an earlier one
  of its signal is still on its way.
* `ReadIsOpen`, `RecordSuccess`, `RecordFailure` and `OnRpcError` are the
  breaker: reading it moves it to HALF_OPEN once its interval has passed
  (`Cool`). `OtherCallFails` and `ProbeConnection` are the other users of it.
* Of the engine only deduplication is taken, from `Idempotency`: calls with one
  key make one order, calls without a key one each.

### OrderStream and LiveTrades

The order feed. `OrderStream` is the API server's end: one call to the engine
(`Subscribe`, `Data`, `Error`, `End`), the reconnect timer (`OnEnd`,
`ScheduleReconnect`, `Reconnect`), the health timer (`ResetBackoff`), the lookup
of each update in the database (`EnrichUpdate`) and the bounded broadcast
channel of the engine (`Publish`), which drops the oldest event for a reader
that lags. `LiveTrades` adds the connections (`Listen`, `Ping`, `Pong`,
`Terminate`) and the hook `useLiveTrades` (`Connect`, `Open`, `Message`,
`Close`, `Unmount`). `Drop` breaks a connection, which both ends notice; `Cut`
silences it, which only the server's ping notices. `overlapped` are the orders of
which two updates were looked up at once.

### OrderFeed

What the feed promises about a screen, without streams, lookups, sockets or
reconnections: `version[o]` statuses of an order are published (`Publish`), a screen
is a set of at most `Rows` statuses, one of an order, and changes by one status at a
time (`Show`): in place of an older status of its order, or in a row of its own, for
which a full screen gives up another. An order two of whose statuses were mixed up
on their way (`MixUp`) may go back. `LiveTrades` implements it: a screen is the set
of the rows of a hook's list, `mixed` is `overlapped`. Events that lag, updates that
are lost with a connection, reconnections and pings are not seen in it. That nothing
need be shown is the truth about the code: nothing is sent again.

### RpcManager

`NextProbe` and `Probe` walk the endpoints under the write lock, `GetClient`
chooses under a read lock: the healthy endpoint of best priority and latency, or
the first. `NodeTurns` is the world: an endpoint goes down or comes up.

### PresetControl

The risk preset from an operator to the strategies. `PutPreset` with
`NotifyPython` is the API's route (its notice is refused for want of a key),
`PutPresetConfig` and `SeedConfig` the other writers of the row; `SetPreset`,
`StorePreset`, `ApplyPreset` Python's own route around its request to the API;
`BeginCycle`, `FetchPreset`, `ApplyFetched`, `FetchFails`, `RunStrategies` the
scan loop; `PatchParams` the PATCH that other parameters come from. `calm` counts
the cycles since anybody disturbed it.

### BotControl and BotStatus

`BotControl` is start, stop and PATCH of a strategy: `CallPython`, `Activate`,
`TimesOut`, `NextCall` for one strategy after the other, `Finish`. A call that was
given up joins `late` and may still be carried out. `PythonCrashes` and
`PythonStarts` are a restart by hand, which enables everything. `BotStatus` is
the page: `Poll`, `ProbePython`, `StatusArrives` are the route and its two
requests, `Press` the button, whose meaning depends on the status shown,
`Answered` and `Invalidate` what its answer does to the query.

### SettingsPage, AdminKey, TradesPage

Three kinds of form.

* `SettingsPage`: cards over one query (`ConnectionCard`, `ServiceUrlsCard`,
  `JitoMevSettingsCard`), each with its PUT. `TypeField`, `Save`, `WriteField`
  (field by field, no transaction), `PutEnds`, `Saved`, `SaveFails`, and the
  query with `Refetch`, `ServeConfig`, `ConfigArrives`. A save fails because a
  statement failed, after which its handler writes nothing more, or because its
  answer was lost, which the handler does not notice: what it has left becomes
  `strays`, which `WriteStray` writes at any time, over later saves too, until
  `StrayFails`. `Merged`, `Display`, `StatusSource` and `ConfigSource` are how rows,
  environment (in which a variable may be set to "") and defaults make a value.
  `SavedElsewhere` is another browser.
* `AdminKey`: cards that share a cached key (`WalletCard`, `WalletPresetCard`,
  `StrategyPresetCard`). `Click`, `Type`, `Confirm`, `Dismiss`,
  `ToggleRemember`, `Answer`; `Store`, `ClearAdminKey` and `Expire` are the
  cache with its timer. `LateAnswer` is the callback of a request that another one
  replaced.
* `TradesPage`: `Submit`, `Respond`, `BodyRead` and `ShowError` are a manual
  order through `customFetch`; `InferResponseType`, `ParseSuccessBody` and
  `ParseErrorBody` are its treatment of answers, which may be the API's or a
  proxy's, empty, of any media type, or broken off.

### OfflineBanner, Toast, MockupPreview

`OfflineBanner`: the probe socket, whose replaced predecessors keep their
handlers (`Reprobe`, `OnClose`, `Retry`, `DismissBanner`); `overlapped` says that a
click on Retry has closed a socket that was still connecting, after which the
banner never comes to rest; `Sockets` bounds how many
there are at once, and since they differ in nothing a new probe takes any free one.
`Toast`: the list, its limit, the removal timers and the counter of the ids;
`Without` is the filter of `REMOVE_TOAST`. `MockupPreview`: `Refresh`,
`Walked`, `RefreshEnds` are the plugin's walk with the note that a second call
leaves; `HotUpdate`, `Load`, `LoadEnds` are the page.

### Readiness, BondingCurve, Backtest

`Readiness`: `Ask`, `Connected`, `ConnectTimesOut`, `QueryEnds` are checks that
wait for a connection of a shared pool; one that comes too late must go back.

`BondingCurve`: the quotes and slippage bounds with their widths (`U64` is 2^64)
on every curve that `Bought` and `Sold` lead to. The trades are the program's on
the chain, which is external: of them the model takes that the product of the
reserves does not fall.

`Backtest`: the panel (`Select`, `RunBacktest`, `Replayed`, `BacktestFails`) and
the replay as operators: `Source` (rows or memory, with what is known of the
token), `Window`, `ShouldEnter`, `Pnl`, `Trades`, `Equity`, and the two drawdowns of
one tile, `MaxDrawdown` of Python and `PeakToTrough` of the panel. Folds take the
place of loops: `Entries`, `Equity`, `Falls` and `Troughs` are one loop each. A
drawdown in per cent is rounded to four digits, that is, to millionths of the peak,
so a fall that is less of a high peak may read 0 % beside an amount in SOL.
`DrawdownsAgree` therefore asks for a percentage only where a fall is at least a
millionth of where it starts, and says of the amount that it is the deepest fall of
the curve. Amounts are multiples of 1/`Unit` SOL, exact; the floating point numbers
of the code are not modelled.

### MCClients, MCServers, MCTradeFeed

`MCClients` and `MCServers` put components side by side that share no state. A
behaviour takes steps of one part only, which the variable `part` names: every
part is explored as if it were alone, and a property of a part holds in the
others by their standing still. `OrderSubmission` and the pages do meet in the
engine, but all they need of it is the deduplication above. In the part
"status" Python neither dies nor carries out a call that was given up
(`PythonIsWell`); the part "bot" has these.

| Conjunction | Consists of |
|---|---|
| `ScreensAreTrue` | `BannerKnows` (one probe, one to come, banner hidden while the connection is up), `PageIsTrue` (fields at rest show what is in force, status and config take a field from one place but for a variable set to "", a test result is of the URL shown), `PreviewAgrees` (module = files, view of the module), `MessageIsTrue` (= `SubmittedIsAccepted`, of the last click, and `NoMessageMeanwhile`) |
| `SubmissionIsHonest` | `OneOrderPerSignal`, `DuplicateNeedsFailedCall` (of a click's orders at most one is from a call that was not reported to have failed), `AnswersAreHonest` (success, refusal and "Engine not available" are so) |
| `ClientSteps` | `AutoSendsFreshKey`, `NothingRevives` (key), `SavedIsStored` (settings), `OpenToastStays` |
| `ClientsSettle` | `BannerHides` (= `HidesForGood`, unless Retry has closed a connecting socket, and `FlapsForEver`, if it has), `ToastsGoAway`, `PageFollows` |
| `WalletsAreSupervised` | `OneWorker`, `GivenUpForGood`, `BackoffEndsUnlessStranded` |
| `OperatorIsObeyed` | `StoredPresetIsUsed`, `BotObeys` (= `StopAllStops`, `FailureIsHonest`, `ShownAfterControl`) |
| `QuotesAreSound` | `CostIsExact`, `SalesAreBacked`, `QuotesAgree`, `BoundsBracket` |
| `BacktestIsTrue` | `NoForesight`, `LimitsHold`, `DrawdownsAgree`, no result beside an error |
| `ServerSteps` | `BackoffHonoured`, `ChosenFromOneRound` |
| `ServersSettle` | `EnabledIsServed`, `PresetConverges`, `RequestsAnswered`, `StatusConverges` |
| `FeedSteps` | `ResetByHealthyCall`, `StatusMovesForward`, `ImplementsFeed` (= `OrderFeed`'s `FeedSpec`) |
| `FeedRecovers` | `StreamRecovers`, `HookRecovers`, `NothingLeftBehind` |

## 4. The runs

`CHECK_DEADLOCK FALSE` everywhere: the instances have finitely many calls, and
the system rightly stops when all of them have ended.

| Run | Checks | Instance | What it shows |
|---|---|---|---|
| `order_pipeline` | `TypeOK`, `OneLiveCopy`, `SubmissionsWithinApprovals`, `ActiveIsAccountedFor`, `ExposureWithinLimit`, `HistoryMatchesDb`, `ExecutedWasSubmitted`, `NoOrderVanishes` | 2 orders, 2 permits, queue for 2, 1 retry, exposure for 1 order, no crash | no double execution, no more transactions than approvals pay for, the limit holds among concurrent tasks although nothing is locked between reading the sum and executing, memory and table agree, nothing is reported executed that was not sent, nothing accepted is forgotten while the process lives |
| `order_crash` | `ImplementsLifecycle` | 2 orders, 1 permit, queue for 1, 1 retry, exposure for 2, 1 crash | every step of the pipeline is a step in the life of one order, a crash, or none |
| `order_settles` | `AcceptedIsSettled` | the same without the crash, with fairness | permits come back on every exit of `process_order`, retries end |
| `pause_races` | `TypeOK`, `SingleFire`, `StreakLatches` | 3 calls, threshold 2, 1 operator action, 1 restart | latch and flag survive all orders of the atomics |
| `pause_reaches_db` | `LatchReachesDb` | 3 calls, threshold 2, fairness, any call dropped | an auto-pause that nothing resets is written by a task that runs to its end, the flag of a dropped call being taken by the next call that comes to it; the flag stays up for good only if none does |
| `duplicates` | `TypeOK`, `OneOrderPerWindow`, `AnswersAreOrders`, `CommittedUntilExpiry`, `ImplementsLease` | 3 calls with the key and 1 without, TTL 2, deadline 1, clock to 3, 1 crash | one order in a window over every interleaving of duplicates, failures, drops, late statements, clean-up and a crash; a duplicate is answered with an order that exists; a committed key stays; each step of the tiers is a step of `AtMostOnce` or none |
| `trade_feed` | `FeedTypeOK`, `FeedSupervised`, `LiveIsServed`, `FeedSteps`, `FeedRecovers` | 2 orders of 2 statuses, channel for 2, 3 ends of a call, 1 hook with a list of 1, 1 connection lost or silent | one stream or one restart, however a call ends; no early reset of the delay; no status shown before an earlier one; every change of a screen is one that `OrderFeed` allows; both ends recover and leave nothing behind |
| `clients` | `ClientsTypeOK`, `KeyIsKept`, `ScreensAreTrue`, `SubmissionIsHonest`, `BreakerFollowsResults`, `ClientSteps`, `ClientsSettle` | key: 2 cards, lifetimes 1 and 2, clock to 3. Banner: 4 sockets, 2 losses, 2 clicks. Settings: cards of 2 fields and of 1, 1 text, one variable set, one set to "", 2 saves, 2 edits, 1 mishap. Toasts: 1 shown, ids to 3. Orders: 2 signals and a click, 2 attempts, threshold 2, 3 faults. Preview: 2 files, 2 edits, 1 throw. Trades: 2 orders, 2 clicks | keys expire once and are not revived, screens are true, a second order of a click comes only from a call that was reported to have failed, a signal has one order whatever happens, a breaker is closed exactly below its threshold, and what settles does |
| `servers` | `ServersTypeOK`, `WalletsAreSupervised`, `TablesAgree`, `OperatorIsObeyed`, `AnsweredHoldsNone`, `QuotesAreSound`, `BacktestIsTrue`, `ServerSteps`, `ServersSettle` | supervisor: 1 wallet, 3 restart attempts, 3 operator actions, 1 failing statement, 1 crash. Preset: 2 presets, 3 cycles, 2 changes, 2 failures. Strategies: 2, with 2 requests and 1 death, or 1 request of the page and 1 fault. Endpoints: 3 of priorities 1, 1, 2, 2 latencies, 1 caller, 2 turns. Pool: 2 connections, 3 checks. Curve: reserves 3, 10, 7, width 48, tolerance 1/8 and all. Backtest: every series of 5 prices at most, 2 prices | workers are not doubled nor lost, tables agree, operators are obeyed, choices are from one round, connections come back, quotes are sound, backtests do not see the future |

Bounds. Two orders and two permits are the least where tasks contend, where a
retry's old and new task coexist (one order already does that), and where the
exposure sum holds somebody else's order; one retry has the first and the last
attempt, and the comparison with `max_retries` goes both ways. An exposure of 1
makes every pair of orders conflict, of 2 lets them run together; with a queue for
1 `QueueFull` happens. One crash reaches every state a crash can leave; after it
the calls that are left run in an empty process. The refinement is checked with one
permit, where old and new copies of a retry already meet in the channel; the
theorem has any number. Three calls at threshold 2 let two rejections race across
the threshold with a third call that approves, heals or takes the flag. Of three
calls with one key, one can hold the row, one race with it for memory or the
INSERT, and one retry when both have ended. A window of 2 is the least that
`2 * Deadline <= TTL` leaves with a deadline in which time can pass; a clock to 3
lets a row of time 0 expire and a second order be made.

In `trade_feed` two versions are the least that can overtake each other and two
orders let one go wrong while the other does not; the third end of a call comes
after a reset of the delay; a list for 1 makes the second order push the first
out. In `clients` two cards are one that answers late and one that stores in
between; a lifetime of 1 and one of 2 expire at different times within the
clock; four sockets let a replaced probe close after its successor has closed;
two saves overlap, the card of two fields can stop between them, and a save whose
answer was lost can write on over a second one; two attempts at
threshold 2 let a call open the breaker between its own attempts or find it
opened by another. In `servers` three restart attempts are the number of the code;
three cycles let a refresh be away from both neighbours; three endpoints have a
tie and a worse one; three checks compete for two connections. The curve is small
on purpose: with a width of 48 the product of a quote and its tolerance wraps
and a cost can saturate, which real reserves do only at extremes. In the
backtest the windows are 2, 3 and 3 bars for the 5, 20 and 3 of the code, the
least series 3 for 4, the curve is cut at 3 points for 200, and 1 SOL is 4 units, so
that every window starts inside a series and the cut happens.

Runs with `expect: violation` each check one sentence of a comment, and TLC finds a
behaviour of the code that contradicts it:

| Run | Sentence | Behaviour |
|---|---|---|
| `in_flight_counted` | exposure is the "sum of in-flight order amounts" | the retry copy is sent before the old task leaves `active_orders`; the new task enters, the old one removes that entry |
| `latch_holds` | reset when an operator resumes | the submission that raises the latch finds the row still `enabled` and lowers it again, before the pause is written |
| `acknowledged_processed` | "Release the reservation so retries can go through" | a refused order leaves memory before its row goes; a retry in between leaves a placeholder in memory that acknowledges all others for 60 s. `failed` in the property excludes the expected cases: a dropped call, a failed statement and a crash leave the same picture |

### Disagreements without a run

Of the order pipeline and the engine:

* "Cancel an existing order": the task, or the copy still in the channel, executes
  the order and overwrites `Cancelled` (`CancelActive`, then `Persist`).
* `pending_orders`, by its metric "Current pending orders", loses an order only to
  a cancellation, so the limit is used up by finished orders (`PushPending`), and
  `get_order` finds `Pending` for what was executed.
* "Self-healing resume" (`manager.rs:225`): the reset of the latch is three stores: a latch raised
  between them can lose its flag, so that its pause is never written, or stay up with
  a count of its own (`ResetPause`). A handler that is dropped in the query before it
  leaves the flag up until another call comes (`Drop`).
* A late `pause_wallet` task turns `halted`, which is called permanent, into
  `paused` (`PauseRegistry`, `PauseConfig` of `DecisionEngine`).
* `evaluate()` never reads the wallet's status (`Begin` of `DecisionEngine`),
  while `routes/wallets.ts:213` says "Pausing halts live order execution".
* The count stored with the auto-pause alert is read after the decision, when an
  overlapping approval may have set it to 0; `database.rs:451` calls it exact.
* `replit.md:57` gives the idempotency cache 5 minutes, `IKEY_TTL_SECS` is 60
  seconds.
* `order.amount` has two units: clients send lamports of SOL (`sniper.py:80`,
  `strategy_engine.py:389`, `bot.ts:112`) and the trade is recorded as SOL, while the
  buy instruction and `calculate_price_impact` take it for a number of tokens
  (`manager.rs:1162`); without a curve snapshot the bound takes the tokens for
  lamports (`manager.rs:1164`).
* `sol_for_tokens` rounds up: a sale whose tolerance rounds to 0 may be refused for
  one lamport on a curve that has not moved. An order of the virtual reserves or
  more is sent with a bound of `u64::MAX`.

* A wallet that is paused during its backoff has no entry when the timer fires, and
  nothing takes it out of `in_backoff` but a restart of the engine; runbook 01 resumes
  it and expects it to be trading again (`docs/runbooks/01-halted-wallet-recovery.md:150`;
  `BackoffEnds` of `Supervisor`, `stranded`).

Of the routes and the strategies:

* "Circuit breaker OPEN — order submission suspended" (`client.py:64`): a call that
  was sent before the breaker opened closes it by its success, and with it the count,
  before the recovery interval has passed (`RecordSuccess`).
* `GET /settings/status` takes a variable that is set to "" for none
  (`settings.ts:311`, `:319`), `GET /settings/config` returns it as a value (`:353`);
  `SourcesAgree` has this as its only exception.
* "Failed to save settings" after a lost answer: the handler (`settings.ts:378`)
  writes on, over what a second save has stored or reported since (`WriteStray`).
* `routes/bot.ts:90` takes a `clientOrderId` for "idempotency re-submit" but sends
  no `idempotency_key`, so the engine makes a second order.
* With nothing reached, DELETE of an order answers success, "Cancelled (offline)"
  (`bot.ts:209`), and PATCH of a strategy answers as if applied (`bot.ts:295`).
* A Python child that dies is never started again (`index.ts:330`).
* "Changes take effect on the next strategy evaluation cycle" (`Settings.tsx:474`)
  and "Presets apply immediately" (`Strategies.tsx:740`): the notice is refused with
  401, so it takes up to `PRESET_REFRESH_CYCLES`, as `Strategies.tsx:741` says.
* The preset "controls position size, stop-loss, and take-profit targets across all
  strategies" (`Strategies.tsx:708`): no strategy has an attribute for stop or take
  (`strategy_engine.py:270`), and `max_positions` is applied nowhere.
* The panel offers 90 days of backtest and its answer repeats them,
  `token-metrics.ts:48` gives 30. Prices from memory are reported as `"db"`, because
  the fallback fills `db_meta` too (`routes.py:272`, `routes.py:365`). A stored
  progress of 0 reads as 50 (`or 50.0`), so the sniper never enters such a token,
  which it does from memory. Express gives Python 4 seconds, Python may wait 5 for
  rows from the same Express. A backtest of one trade shows 0 % beside a curve that
  fell. An answer that arrives after another strategy was chosen is shown under it.

Of the dashboard:

* "Auto-reconnects every 5 s. Hides when reconnected." (`OfflineBanner.tsx:19`): when
  Retry is clicked while a probe connects, the close event of that probe sets a timer,
  which closes the socket that was opened instead, whose close event sets the next:
  the banner shows again every 5 seconds for as long as the page is open, with the
  server up. `FlapsForEver`, which `clients` checks, says that this always happens
  after such a click, `HidesForGood` that it happens only then.
* A manual order invalidates `listTrades`, a key no query has (`Trades.tsx:56`; the
  key is `/api/bot/trades`); two queries with different functions share the key
  `/api/bot/metrics` (`Dashboard.tsx:66` and `:75`).

### What the properties except

Some properties except what the code does not promise. The models reach all of
it; no property says that it goes well, because it does not:

| Excepted | In | What happens then |
|---|---|---|
| a crash, or `QueueFull`, after the INSERT | `NoOrderVanishes` | the row stays `Pending`, nobody executes it, at a restart neither |
| cancelled orders | `HistoryMatchesDb` | see above: `Cancelled` is overwritten |
| an engine that was reset (`healed`) | `StreakLatches`, `LatchReachesDb` | see above: the three stores |
| orders with two updates looked up at once (`overlapped`, `mixed`) | `StatusMovesForward`, `ImplementsFeed` | the older status may be shown last, and stays |
| silent connections, at the browser's end | `LiveIsServed`, `HookRecovers` | the page says "Live" while nothing comes |
| requests that were superseded | `NothingRevives` | the callback of the first one may store a key that was cleared meanwhile, for its hour at most (`KeyIsKept` has no exception) |
| saves that failed, failed reads, other writers (`excused`, `foreign`) | `FormsShowWhatIsStored`, `SavedIsStored` | forms are stale until the next answer |
| overlapping start and stop, calls given up and carried out later, deaths of Python (`alone`, `outlived`) | `StopAllStops`, `FailureIsHonest`, `ShownAfterControl` | strategies are half on, or on after a restart although they were stopped |
| wallets paused during a backoff (`stranded`) | `BackoffEndsUnlessStranded`, `EnabledIsServed` | see above: never served again |
| failed or interrupted writes of the engine (`torn`) | `TablesAgree` | the two status tables stay apart until something writes both |

## 5. Fairness

Weak fairness throughout, of steps the code takes by itself: a database or network
call returns or is cut off by its timeout, a timer fires, a message that is in
a channel is received. No order need be submitted or cancelled, no rule need approve
or reject, no operator act, no node, process or connection fail or come back.

| Specification | Fair steps | Why |
|---|---|---|
| `OrderManager` | the rest of a submission that was let through, the second half of a cancellation, every task's next step, `Dispatch` | each await returns or is cut off by `order_timeout`; the semaphore is fair and the loop does nothing else |
| `DecisionEngine` | each begun call unless it is dropped, each spawned pause task | they await one statement at a time. A handler that waits for the status may be dropped instead (`Drop`), which is nobody's duty; a pause task is detached, and is not |
| `Supervisor` | both channels, `Join`, the timers of backoffs, the second statement of the engine, the watcher | one `select!` loop, an interval and sleeps |
| `PresetControl` | the scan loop while Python is up, requests inside the preset route | the loop waits for at most its 4 seconds |
| `BotControl` | the next call of a request, and the end of a call | each call has a timeout of 4 seconds |
| `BotStatus` | those, the polling query, the answer to a press | the query's interval |
| `LiveTrades` | the stream's own events and timers, lookups, the browser's socket events, `Ping`, `Terminate` of a silent connection | intervals of server and browser; an engine that is up answers |
| `OfflineBanner` | events and the reconnect timer | the same |
| `Toast` | closing, removal | every toast has its own timer |
| `MockupPreview` | start and reports of the watcher, the end of a walk, hot updates, loads | the file system and vite deliver |

`Idempotency`, `OrderSubmission`, `AdminKey`, `SettingsPage`, `TradesPage`,
`RpcManager`, `Readiness`, `BondingCurve` and `Backtest` have safety properties
only and no fairness.

## 6. The proofs

| Theorem | Property | Inductive invariant |
|---|---|---|
| `OrderManagerProofs!TypeCorrect` | `TypeOK` | `TypeInv`: with `TypeOK`, a slot that is not idle owns an order; without it the counters indexed by `job[s].id` have no type |
| `NoConcurrentExecution` | `OneLiveCopy` | `CopiesInv`: adds that a submission that has not yet sent has no copy anywhere, so that `SendOrder` makes the first one |
| `SubmissionsBounded` | `SubmissionsWithinApprovals` | `BudgetInv`: relates, for the one live copy (hence `CopiesInv`), approvals to its retry count, and transactions to how far into Jito, fallback and RPC the task is |
| `ExposureAccounted` | `ActiveIsAccountedFor` | itself, with `TypeInv` |
| `ExposureLimited` | `ExposureWithinLimit` | `ExposureInv`: adds that `active_orders` is finite, so that its size is a number; the gate's sum and `CopiesInv` do the rest |
| `ExecutedIsBacked` | `ExecutedWasSubmitted` | `ExecutedInv`: a task that polls, confirms or has concluded `Executed` has sent |
| `AcceptedHasPlace` | `NoOrderVanishes` | `PlaceInv`: an order with a result is neither queued nor owned, only accepted orders get one, a task that settles has decided |
| `HistoryIsInDb` | `HistoryMatchesDb` | `RowInv`: between the UPDATE and the entry in the history the row holds the task's outcome, unless it was cancelled |
| `LifecycleImplemented` | `ImplementsLifecycle` | `FullInv`: `TypeInv`, `CopiesInv`, `BudgetInv`, `ExecutedInv` and `PlaceInv` together. A lemma for each action names the step of `OrderLifecycle` it is |
| `ResultsAreFinal` | `ResultsStay` of `OrderLifecycle` | none of its own: `LifecycleImplemented`, and what the steps of `OrderLifecycle` do to an order with a result |
| `DecisionEngineProofs!TypeCorrect` | `TypeOK` | itself |
| `PausesOncePerLatch` | `SingleFire` | `TokenInv`: a token is created by each rise of the latch and is carried by a call before `Flag`, by the flag, or by a call before `Spawn`; tasks spawned plus tokens carried never exceed the rises. The carriers are counted by `Cardinality`, so `Evals` is assumed finite |
| `StreaksAreNotMissed` | `StreakLatches` | itself, with `TypeOK` |
| `AtMostOnceProofs!LeaseKeepsOrdersApart` | `OrdersApart` | `LeaseInv`: every order was made under the lease that is held, or under one that had run out when this one was taken |
| `IdempotencyProofs!TypeCorrect` | `TypeOK` | itself |
| `TiersImplementLease` | `ImplementsLease` | `IInv`, see below |
| `OneOrderPerKey` | `OneOrderPerWindow` | none of its own: `TiersImplementLease` and the theorem about the lease |
| `AnswersNameOrders` | `AnswersAreOrders` | `NamesInv` of `IInv` |
| `CommittedKeysStay` | `CommittedUntilExpiry` | `IInv` |
| `ServerProofs!Supervised` | `WalletsAreSupervised` | `Supervision`: workers and ended workers of a wallet are one or none as `active_ids` says; who runs is neither in backoff nor given up; a wallet in backoff is asleep, in the channel or stranded, and only one of these |
| `BackoffIsHonoured` | `BackoffHonoured` | `Supervision` |
| `TablesAlwaysAgree` | `TablesAgree` | `TablesInv`: an unfinished write of the engine has its status in the registry, unless another write came between |
| `AnsweredHoldNone` | `AnsweredHoldsNone` | `ReadyInv`: a check has a connection exactly while it queries |
| `QuotesAlwaysSound` | `QuotesAreSound` | `CurveInv`: real and virtual reserves move together, the product never falls below the first one. The rest is arithmetic of rounded division, in lemmas of its own |
| `PresetIsUsed` | `StoredPresetIsUsed` | `PresetInv`: once more undisturbed cycles were begun than the loop's counter shows, the refresh at 0 lies after the last write, so what it fetched or what is traded with is what is stored |
| `BotAnswersAreTrue` | `StopAllStops`, `FailureIsHonest` | `CallsInv` and `AloneInv`, see below |
| `PageIsObeyed` | `BotObeys` | these and `ShownInv`: after a request whose success had the status fetched anew, a fetch without a fault has read what the request left |
| `OneRound` | `ChosenFromOneRound` | `RpcInv`: the endpoints probed so far are healthy exactly if they answered; between two rounds all are |
| `BacktestAlwaysTrue` | `BacktestIsTrue` | `BacktestInv`: what is shown is the replay of a source that was there. The rest is about the loops, see below |
| `OperatorIsAlwaysObeyed`, `NoServerMissteps`, `ServersTyped` | `OperatorIsObeyed`, `ServerSteps`, `ServersTypeOK` | those of the parts; for the types also `PoolInv`, which counts the connections that are taken |
| `ClientProofs!BreakerFollows` | `BreakerFollowsResults` | `BreakerInv`: itself with the types of the breaker |
| `SubmissionHonest` | `SubmissionIsHonest` | `HonestInv`: calls of a signal have one key; until Python is asked the only order of a click is the route's own; from then on every order but the last attempt's is of a call that was reported to have failed (`PostedInv`). `ToldInv` is what holds once the route has answered: an order that is accepted later is of a request that was out, so of a failed call |
| `KeyKept` | `KeyIsKept` | `KeyInv`: `CacheInv` (one timer, due at the expiry) and `CardsInv` (types of the cards) |
| `OnlyFreshKeysAreSent`, `NothingIsRevived` | `AutoSendsFreshKey`, `NothingRevives` | `KeyInv` |
| `MessagesAreTrue` | `MessageIsTrue` | `TradesInv`: a success that is still unread was given for an accepted order, and an order on its way has none yet |
| `PreviewsAgree` | `PreviewAgrees` | `ModuleInv`: a file in which disk and list differ, or that a walk may have missed, is still to be reported or has left a note; `PageInv`: a load in force, and what is shown, is of the modules the page has |
| `BannerAlwaysKnows` | `BannerKnows` | `BannerInv`: a socket closes only because it was replaced, and a held timer has still to fire |
| `PageIsAlwaysTrue`, `SavesAreStored` | `PageIsTrue`, `SavedIsStored` | `ConfigInv`: fields nobody edits show the query's data; between fetches these differ from the rows only in cards being saved; a field that a PUT has written is stored as sent, unless it is `foreign`; no row is empty |
| `OpenToastsStay` | `OpenToastStays` | `ToastInv`: ids come from the counter, an open toast has no removal timer |
| `ScreensAreAlwaysTrue`, `NoClientMissteps`, `ClientsTyped` | `ScreensAreTrue`, `ClientSteps`, `ClientsTypeOK` | those of the parts; for the types also `AttemptsInv`: a call about to try again has an attempt left |
| `LiveTradesProofs!StreamSupervised` | `FeedSupervised` | `StreamInv`: adds that a call that is not answered has no data and no health timer |
| `OnlyHealthyCallsReset` | `ResetByHealthyCall` | `StreamInv` |
| `LiveServed` | `LiveIsServed` | `HooksInv`: a hook waits without a socket, the server listens to open sockets only unless they are silent |
| `StatusesMoveForward` | `StatusMovesForward` | `UpdatesInv`, with `OrderInv`: from the engine to the screen (wire, lookups, socket, list) an update is newer than all of its order that are ahead of it; those ahead include what the screen shows. Between lookups and screen only for orders that never had two lookups at once |
| `FeedImplemented` | `ImplementsFeed` | `UpdatesInv` and `RowsFit` (no list is longer than `MaxTrades`), see below |
| `ScreensStayLists` | `ScreensAreLists` of `OrderFeed` | the same: a row for an order at most, no more rows than fit, nothing that was not published |
| `FeedTyped`, `NoFeedMissteps` | `FeedTypeOK`, `FeedSteps` | `StreamInv`, `HooksInv`, `UpdatesInv`, `RowsFit` |

`IInv` of `IdempotencyProofs` is what makes the row a lease. `OwnerInv`: from its
reservation to its end a call owns the row, for which `TimeInv` (a call in
progress is within its deadline) excludes that the row has expired under it.
`LateInv`: a late DELETE or UPDATE finds the row its own call left, again because
both together last no longer than a window, and a DELETE comes only from a call
without an order. `NamesInv`: whatever memory, the row or an answer names is an
order that was accepted. `KeylessInv` and `ToldInv` keep apart the calls that
have no part in this and those that have not been told yet.

`CallsInv` of `ServerProofs` ties a request to its calls: a call that is awaited is
the one its request is at, a late call has outlived its request, and Python has
carried out a call of a request exactly if the request counted an answer.
`AloneInv` follows a request that nothing disturbed: it has come past the first `k`
of its calls, and if all were answered no call is on its way and their strategies are
switched. Neither says by itself what `StopAllStops` says of the end.

`FeedImplemented` sees a list as a set. `RowsCounted` (a list with one row for an
order has as many statuses as rows), `ShownIs` (where `setTrades` puts an update)
and `ShownScreen` (which statuses that leaves, and that a full list gives up exactly
one) make `onmessage` a `Show`, with `OrderInv` for the promise that the status is
newer; `DataMixesUp` makes "data" a `MixUp`, since two updates of an order inside
`enrichUpdate` are two published statuses. Every other step of `LiveTrades` that
touches neither versions, `overlapped` nor lists is a stutter.

The loops of the backtest and the filter of the toasts are folds, that is, recursive
functions over sets of positions. `FoldLemmas` proves induction over the naturals for
a set (`SetInduction`, from the well-foundedness of the subsets of an interval), that
a fold has a table of its intermediate results (`FoldTable`), and that these are the
results after each element (`FoldRun`). Over that table `ServerProofs` shows what each
loop maintains: `EntriesStep` and `NoForesightAt` (the trades up to a bar depend on
the prices before it), `EquityIs` (the curve is the sums of the trades), `FallsTell`
(the percentage of Python is positive for every fall of a millionth or more, and for
no curve without a fall), `TroughsFind` (the loop of the panel finds the deepest fall
of the curve, and there is one so deep).

`PartsAreAlone` for `MCServers` and `ClientsAreAlone` for `MCClients` are why the
theorems of the parts hold of all of them side by side: a step of one part leaves the
variables of the others alone, so a behaviour of the whole is one of each part. For
the status page this is stated for any step of Python and the routes, deaths and late
calls included, although the run leaves these out.

An invariant has a lemma that it holds at first and lemmas that actions keep it,
one for each action or group that disturbs it. The theorems assume only the named
assumptions of the modules: limits are naturals, `NoOrder` is no order,
`2 * Deadline <= TTL`, `ShortTTL < HourTTL`, a pool has a connection, a new curve
has more virtual tokens than it sells and a first reserve within the width, a
slippage is at most the whole (`CurveAssumption`), the cards of the settings share no
field and an empty text is not an unset row (`SettingsAssumption`), a list of toasts,
a list of the feed and a returned curve have room for one entry, prices are positive and divide the unit
(`BacktestAssumption`; the code skips a price of 0). Each of them is evaluated by TLC
in a run. The theorems hold for any sets of orders, permits, calls, wallets, cards,
browsers, files and sockets, and any limits.

Only model-checked: what rests on fairness (`AcceptedIsSettled`,
`LatchReachesDb`, `FeedRecovers`, `ClientsSettle`, `ServersSettle`), because ENABLED
and with it weak fairness is out of the prover's reach; and the three sentences
the code contradicts, where TLC's counterexample is the result.

## 7. What the models do not cover

Of modelled components: readers (`get_order` and the queries), events and gauges;
amounts other than one size in `OrderManager`; which of the rules of `evaluate()`
rejects; what Jito, the RPC nodes and Postgres do inside, beyond answering, failing
or failing after the effect. The tables are assumed to execute each statement
atomically.

Not modelled:

* The sandwich cache (`mev/mempool.rs`, `sandwich.rs`): its insertion has no caller
  outside tests, so every order gets the same score.
* The token monitor (`websocket.rs`): a reconnecting producer whose consumer submits
  through `submit_order`, as any caller of `OrderManager`; nobody notices an event
  that is lost.
* `compute_buy_params`, `compute_sell_params` and the copy of `process_order` on
  `OrderManager` itself, `mark_error` of the RPC manager (`rpc/mod.rs:148`, the only other
  writer of an endpoint's health): nothing that runs calls them. `setBaseUrl` and
  `setAuthTokenGetter` of `custom-fetch.ts`: the dashboard calls neither.
* The scores of `signal_generator.py`, which tokens a strategy picks, and its
  positions: numbers without a protocol.
* Charts, tables, lists and navigation of the dashboard: they keep no state. Forms
  that post once and show what they get.
* Most of the TypeScript. About 11,500 of its 20,700 lines are two copies of one
  library of UI components, whose state is inside third-party primitives, and about
  1,700 are generated from `openapi.yaml`. Of the rest the modules model about
  2,570 lines, with 1,980 lines of Rust and 700 of Python.
