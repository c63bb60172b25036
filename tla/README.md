# Signal Forge Core: a TLA+ model

Signal Forge Core is a C++ library for automated trading inside Sierra Chart. The
chart calls a study function again and again; the study calls
`TradeSystem::Process`, which turns signals into orders under the eye of a risk
manager. Around that loop a few threads talk to a data server: parameters come in,
trade sessions and results go out.

This directory holds TLA+ modules translated from the C++ sources under
`src/Modules`, TLC configurations that check them on small instances, and proofs
for TLAPS of the safety properties of all of them. `PROJECT.json` maps every
definition to the lines it stands for and lists runs, mutants, hazards and findings.

Line numbers below refer to files under `src/Modules`.

## 1. Inventory

### How the parts interact

```
Sierra Chart --UpdateSCRef--> SierraChartPlatform (scMutex)
     |  study callback                 ^ orders, bars, statistics
     v                                 |
TradeSystem::Process --> ContextManager::ManageSession --> HttpClient (session posts)
     |   not ready + stale flag --> ContextManager::Initialize --> BacktestingManager
     |                                   |      --> ParameterManager (blocking fetch)
     |--> RiskManager.AuditActiveOrders --> platform.CloseOrCancelOrder
     |--> OrderManager.ManageActiveOrders --> user's order processor
     |--> SignalManager.GeneratePendingOrders
     |        generator -> SignalContainer <- LevelManager (Messaging, synchronous)
     |        processor -> pending orders; clear what was processed
     |--> RiskManager.AuditPosition, AuditPendingOrders; pendingOrderFilters_
     `--> OrderManager.ExecutePendingOrders --> platform.BuyEntry / SellEntry

data server --HTTP--> ParameterDataAccessServer (Server, pool thread)
     --> Messaging (own thread) --> ParameterDataAccess --> HttpClient (own thread)
     --> ThreadPool (8 threads) --> callback --> ParameterManager (mutex, stale flag)
any client  --HTTP--> MLTuningManagerServer (same port, same pool) --> Messaging
     --> MLTuningManager --> ThreadPool --> user's tuner --> HttpClient

ConfigManager --> FileIO --> FileIOMessaging: reading thread, writing thread --> files
any thread --> Logger's queue --> printing thread
```

### Components

| Component | State it keeps | Operations | What makes it correct | Where modelled |
|---|---|---|---|---|
| TradeSystem, RiskManager, OrderManager, filters | `activeOrders_`, the batch passed from stage to stage | `Process` and its stages | every entry passes every gate; risk is reduced before it is added; an order is tracked until a report says it is over; a close that failed is tried again | `TradeSystem` |
| SignalContainer | queue per key, index by id | add, front, pop, remove, find, attach | index and queues agree, nothing is in two places, order is kept | `SignalQueue`, `SignalStore`, `SignalPool`, `SignalContainer` |
| SignalManager, generator, processor, LevelManager | container, ids to clear, levels, last bar seen | `GeneratePendingOrders`, `ProcessLevelsAndGenerateSignals` | no signal lost or traded twice | `SignalPipeline` |
| ParameterManager, ParameterDataAccess and its server, BacktestingManager, `Initialize` | stored documents, `tradeSystemStale`, `backtestPrepared` | announce, fetch, store, copy, apply, reset | what is saved is applied in the end | `ParameterSync` |
| ContextManager sessions | `currentSession`, `lastSnapshotTime_` | `ManageSession`, `SaveCurrentSession` | sessions open and close in pairs, trading only inside one, what is posted is a session's opening or closing record | `SessionManager` |
| Messaging | bounded queue, `running_`, `mtx_`, subscribers | push, subscribe, process, stop | order, no lost wake-up, stop returns | `Messaging` |
| HttpClient, ThreadSafeQueue, ThreadPool | request queue, `running_`, tasks | `SendRequest`, `ProcessRequests`, destructor | each request is answered once; destruction returns | `HttpClient`, `ThreadPool` |
| SierraChartPlatform, trade functions | `scMutex`, the broker's orders | entry, exit, close, OCO, log | reports agree with the broker; calls return | `SierraOrders` |
| CommonTypes: dates and windows | none; the trading system keeps the converted windows | `IsTradingDay`, `DateTime`, `TradingWindow` | the window saved is the window traded in, on every day of the year | `TradingClock` |
| FileIO, FileIOMessaging, ConfigManager | four bounded queues, `running_`, the files | read, write, both also on the spot, destroy | a read returns what the file holds, the newest write stays, a read comes back | `FileIO` |
| Logger | queue, `running` | log, print, stop | what is logged is printed | `Logger`, composed in `FileIO` |
| Server, MLTuningManager | acceptor, accept loop, tuner's queue | construct, accept, reply, tune, stop | every post ends, in the right server; what is acknowledged is tuned | `Servers` |
| SierraChartPlatform, market data and statistics | none of its own | bars, ranges, trade statistics | | not modelled: copies of the chart's arrays |
| TradeSystemBuilder, object lifetime | shared pointers, singletons | build, destroy | each object is destroyed once | the setup in `SignalPipeline`; destruction is undefined behaviour |
| Calculations, LevelUtilities | none | statistics, filters | | not modelled: no caller |
| MLModelTraining, MLSignalGenerator, Profiling, Timing, tests, build files, vendored code | none | none | | not modelled: stubs or not the program |

### Hard behaviours

* **Stale data inside one iteration.** The position is read once per batch
  (`TradeSystem/TradeSystem.cpp:141`); readiness is recorded by the call that asks for
  it and asked twice (`SignalManager/LevelManager/LevelManager.cpp:54`).
* **Orders nobody tracks.** A resting entry is answered with `nullopt`
  (`TradingPlatform/SierraChartPlatform.h:46`) and may fill at any later time.
* **Threads against the study.** Documents are stored from pool threads while
  `Initialize` copies and applies them; the container is shared with callers of its own.
* **Order and loss of messages.** Two fetches of one document overtake each other, the
  queue drops what does not fit, subscribers arrive after the server, posts get lost.
* **Waiting.** The study waits in `future.get()`, destructors join threads, and trade
  functions that hold a mutex call functions that take it.
* **Clocks.** The chart's local times pass for UTC, windows are converted on one day and
  used on another, and the clocks change twice a year.
* **Destruction.** Servers, clients, file threads and the logger are stopped while their
  work is queued, and pool tasks outlive the objects they use.
* **Errors nobody catches.** A body that is no JSON is acknowledged and then ends the
  program from `Messaging`'s thread (`MLTuningManager/MLTuningManager.cpp:27`); an order
  processor's exception loses the reports of its batch.
* **Boundaries.** Full queues, a pool without a free thread, sessions when the window is
  replaced, partial against whole fills.

`PROJECT.json` lists each with its line and with the properties that watch it.

## 2. Modules and how they correspond to the code

**`TradeSystem`** is one iteration of `Process` as a chain of stages (`pc`), one
action per stage with the early returns the code has. `activeOrders` is
`activeOrders_`. What stands behind an interface is not decided here. The order
processor answers with any vector of reports, on any ids, tracked or not, for an active
order as for a pending one, or throws; the verdict on the position is any verdict,
since the library has no limit of its own; a call of `CloseOrCancelOrder` closes
something, or nothing, or never returns. One thing is taken for granted: a filter
keeps some of the orders it is given and adds none.
A vector of reports comes to what its last report on each id says, as both loops of the
code leave it; the reports of `ManageActiveOrders` are stored twice with different erase
conditions. `None` stands for `PartiallyFilled` as well, and `Cancelled` for
`Rejected`: no code modelled here tells them apart. A call for which `ManageSession`
answers FALSE is in `SessionManager` and `ParameterSync`. What Sierra Chart's
`CloseOrCancelOrder` does is in `SierraOrders`. `OrderManager.h:20` says that only
orders "remaining after audit" are managed; the code, and so the model, passes all of them.

**`SignalStore`** holds the operations on a `SignalContainer`: per key a queue,
and an index by id, with the container and the id counter as its variables. **`SignalQueue`** is
the part about sequences of signals that the abstract pool shares; `Without`, which takes signals out of a
queue, is a recursive function on the positions of the queue, as the code's loop is. **`SignalContainer`** shares one store between threads, each
operation being one step under the container's mutex. **`SignalPool`** is its abstract specification:
a pool of waiting signals per key, with no index at all.

**`SignalPipeline`** composes `SignalStore` with the platform's readiness test, the
generator, the level pass with its synchronous `Messaging` (which calls the subscriber
before `PushRequest` returns), the processor and the clearing. The strategy `default`
is the repository's own classes, `custom` what a user may derive: a generator may take any
waiting signals and make any number of signals of any keys, up to `MaxEmit`; a processor may
take any signals, mark any others and make orders for any, and none of the three obliges
it to another; a level pass may make any levels and signals and clear any levels.
The throttle of `ShouldProceed` is 0 in its only caller. Ids are counted by the
signals made; the id that `FromJson`'s throw-away constructor draws is not counted.

**`ParameterSync`** follows a saved document, represented by its version number, from
the database to the platform's settings: announcement, `Messaging`, `HttpClient` and
its pool (both reduced to their order: first-in first-out and any order), callback,
store, stale flag, `Initialize`. `PrepareForBacktest` fetches once; `SetBarPeriod`
reads the whole period before it touches the platform, so a version it cannot read
(`BadVersions`) leaves the old period and the flag. `GetTradingSystem` returns a reference after
releasing the lock, so the copy is a step with a beginning and an end, and a store in
between may leave a mixture (`Torn`).

**`SessionManager`** is `ManageSession` with its snapshot, its session record and its
posts, under a wall clock and bar times that may go back (a full recalculation) and a
window that a pool thread may replace. A post is lost or arrives, in any order. The
statistics are a count of the chart's whole trade list, as the code reads it. `UpdateSessionStatistics(false)` compiles where
the compiler takes `false` for a null `shared_ptr`; the model covers those builds.

**`Messaging`** is the asynchronous mode, at the grain of its mutex: `cv_.wait` is
its test, its release of the lock and its wake-up, spurious ones included.
**`HttpClient`** is the client, its queue and the pool; a processing thread that
waits on the queue before the queue is constructed is a choice of outcomes. **`ThreadPool`** is the
number of threads that `HttpClient` and `Servers` share.

**`SierraOrders`** is the trade functions of `SierraChartPlatform` with `scMutex`: a
call is one step until it calls another function of the platform. What
`sc.BuyOrder` returns is taken for the filled quantity, as the code takes it; a
refused entry changes nothing; one that rests, or whose details are not found, is at
the broker and reported to nobody. An OCO order whose details are missing for a leg throws,
with one leg at the broker or two. Only the study's thread calls.

**`TradingClock`** is the way of a trading window from the saved "HH:MM" to
`IsTradingDay`: `FromTimeString`, `DateTime`'s constructor and `ToTimeT` with their
hour of correction, `CombineDateAndTime` with its GMT fields read as local ones, and
`GetDayOfWeek`. Each is an operator of the same name. Time is in hours of standard time;
the minutes of a time take part in no step. `TZ=America/Chicago` (set in
`TradeSystem::Initialize`) is a name in which the Windows C runtime finds no number: it
takes an offset of 0 and the summer time of the United States, and so does the model. The
chart's bar times are wall clock times handed over as UTC; the wall clock is six hours
behind. Actions are an hour passing with a bar, and a fetch that converts the
windows anew. `lag` puts the chart in the past, for a replay.

**`Logger`** is the log queue and its printing thread: a component whose threads log
extends it and makes `LogMessage` part of its steps. The queue
(`boost::lockfree::queue`, 1024 nodes to begin with) grows, so that a push does not fail.
**`FileIO`** extends it with `ConfigManager`, the two threads of `FileIOMessaging`, its bounded
queues and the files. Opening for writing truncates, writing is a second step; two
writers of one file may leave a mixture (`Torn`). A reading thread whose parser throws
answers with null or with the part it has read, and `ReadConfig` returns it. One thread
calls, as the queues between it and the two threads allow (`ConfigManager` has no
caller in the library). Several log entries about one error count as one. A full
request queue drops a write in silence, and a dropped write is not counted as the
newest.

**`Servers`** is both servers, from a client's connection to the reply and the tuner. Both
bind 127.0.0.1:5005 with `reuse_address`: the second shares the port, or its bind fails
and its constructor returns early (`deaf`); both outcomes are allowed. Accepted sockets are
tasks of the pool; `HandleRequest` reads without a time limit, pushes, and answers without
a look at whether the push found room. Each queued request becomes a task of its own for the
tuner, and tasks may change places and run at once. `Stop` clears `running_`, closes the acceptor (which
wakes a waiting `accept`, as `closesocket` does on Windows) and joins the thread. A task that then uses
a server or a tuner that is gone sets `program` to `misused`, after which nothing is said: the use
is undefined behaviour.
A post of `Faulty` may go wrong wherever a post can: the connection breaks while it is read, or its
body is no JSON, which the data server finds before it pushes, and then no reply is sent; the reply
cannot be written after the push; the tuning manager's subscriber cannot parse what the
server has acknowledged, or the user's tuner throws, and no thread catches either
(`terminated`). The pool is the one `HttpClient` uses: its exchanges hold up to `Hung` of the threads
(`held`), for as long as they like. What `HttpClient` calls `PoolSize` is, the other way round,
what the servers' tasks leave to its exchanges.

`MC*` modules only define model values, windows and symmetry sets for the runs.
The `*Proofs` modules hold the proofs: `SignalProofs` of `SignalContainer`, the pool and
`SignalPipeline`, `SessionProofs` of `SessionManager` and `TradingClock`, `HttpProofs` of `HttpClient`
and `Servers`, the others of the module each is named after. Two modules that one proof module extends
name their operators apart (`ContainerSpec`, `ClockSpec`, `ServersSpec`). Definitions that no action
uses (`PushRequestReplacing`, `EntryFilled`, ...) are the mutated forms `PROJECT.json` names.

## 3. What the runs check

| Run | States | Question and answer |
|---|---|---|
| `trade_system` | 85,010 | Do entries pass every gate, is the close of every unacceptable order requested before an entry, is a tracked order kept until a final report, and is an order that stays unacceptable closed again and again? Yes, the last unless a call of `CloseOrCancelOrder` never returns. |
| `signal_container` | 17,049 | Do queue and index agree, and does the container implement the pool, order included? Yes. |
| `signal_pipeline` | 5,267,524 | Is every signal waiting unless it was taken out or marked, and none traded after that, whatever the user's classes do? Yes. |
| `parameter_sync` | 86,394 | Does a saved change reach the chart? Yes, but for the two windows the properties name: a store between Initialize's copy and reset, and answers that change places. |
| `session_manager` | 3,228,546 | Do sessions pair up under any windows and replays, and is what the data server holds of a session its opening or its closing record? Yes. Whether the closing record is the session's own is another matter: its count is of all the chart's trades (below). |
| `messaging` | 106,176 | Order, no lost wake-up, drained queue, Stop returns. Yes. |
| `http_client` | 2,303 | Is each request answered, once unless its callback throws, and does the destructor wake the thread it joins, and return, while a request hangs? Yes. |
| `sierra_orders` | 3,601 | Does a report agree with the broker? Filled means whole; no exit is ever reported as Filled. |
| `trading_clock` | 649,632 | Is the window saved the window traded in? Yes in the season it was converted in; in the other season it moves by one hour, never by more. The exceptions are named, below. |
| `file_io` | 98,975 | Does a read return what the file held, does the newest write stay, does every read come back, is every entry printed? Yes, but for the exceptions the properties name. |
| `servers` | 71,040 | Does every post end while either server is stopped and an exchange holds a thread, with a reply from the right one or a reason for none, is no post lost on the way, and is what was acknowledged tuned? Yes, the last unless the queue was full, the server stopped or an exception ended the program. |
| `sierra_close` | violation | `CloseOrCancelOrder` holds `scMutex` and calls an exit, which locks it again: it does not return. |

Every property of a passing run has a mutant: a plausible bug put into a mapped
definition, under which TLC finds the property violated.

What `trading_clock` leaves out of "the window is kept" is exactly named in the module, because the
code is off there: the hour from 23:00 of a summer day already looks the next weekday's
window up; a window that opens or closes in the hour after midnight wraps to the end of
the day when it was read in summer; and the hours around a change of the clocks. A window
that ends after midnight is empty on every day: the code puts both ends on one date.

Other divergences met while modelling, without a run of their own:

* `DefaultSignalProcessor.h:15` looks a signal up by its key in the index by id, so that
  the default processor, whose comment promises "pending orders", never makes one;
  the signals it would mark go to a member that hides the base class's.
* `ContextManager.cpp:111` says "Save snapshot if the interval has passed"; line 114 calls
  `UpdateSessionStatistics(false)`, whose parameter is a `shared_ptr`: line 192 writes through
  an empty pointer. `SessionManager` stops at that step (`SnapshotCrash`).
* `ContextManager.cpp:191` says "Collect and update statistics for the current session";
  `GetCurrentSessionTradeStatistics` counts the chart's whole trade list, and so does the model:
  a later session's closing record counts the trades of earlier ones. The `endDate` of both
  posts is the wall clock of the opening, whatever the session's end.
* `DefaultSignalManager.cpp:13` says that in synchronous mode levels are processed
  "immediately"; the pass over them asks `IsReadyForTradeIteration` a second time, which
  answers no because the first call has recorded the update. Levels are processed on the
  first bar of a full recalculation only; `LevelsNeedRecalculation` proves that this is what
  the code does, not that it should.
* `LevelManager.cpp:69` stores levels under the current price and clears them under their own: a level
  of another price stays for ever. `SignalPipeline` takes both steps as they are.
* `MLTuningManagerServer.cpp:13` answers "Data received" to a body it has not parsed; if it is no
  JSON, `MLTuningManager.cpp:27` throws in `Messaging`'s thread, and the program ends.
* The configuration and the repository's README give `updateIntervalType` as a string
  while the code parses a number; that README says optimised parameters are sent back while the
  code logs them; the default risk assessment is `acceptable = false`, so that
  pending orders built from defaults are never accepted.

### Bounds and why they are enough

* `trade_system`: two pending orders, two ids, two filters. Two orders make batches and partial
  rejection happen, two ids an order that is reported on beside one that is not, and two filters
  a chain. The proofs below remove the bounds.
* `signal_container`: two keys, four ids, two clients. A signal can sit before, between
  and after others of its key, and two threads can want the same one.
* `signal_pipeline`: two bars, two prices, two keys, four ids and at most two signals in a call: a burst
  of both keys or of one, signals before and behind a marked one, and iterations enough to make,
  attach, mark and clear. `ShouldProceed` leaves room for two ids, so that every call can
  make as many as it may. The proofs remove the bounds.
* `parameter_sync`: two versions, one of them of a group as well and one unreadable:
  enough for one request to overtake another and for a store to hit the copy.
* `session_manager`: three minutes, windows `{1}` and `{2}`, two sessions, two trades: open,
  close, reopen, replace the window while open, go back in time, with trades before,
  during and after a session.
* `messaging`: two producers of three requests on a queue of two: it fills and wraps.
* `http_client`: a pool of two with one request that hangs and one whose callback throws.
* `trading_clock`: a year of 200 hours with four days of summer time, weeks of two days, three windows
  (inside the day, from midnight, to the last hour), live or 72 hours behind: fetches in either
  season meet bars in either season, on every hour of the day. The proofs remove the bounds.
* `file_io`: two files, one read-only, three calls, queues of one: a write queued, one under way
  and one dropped; a read beside a write; a write on the spot beside a queued one.
* `servers`: two posts for the tuner on a queue of one, of which one may go wrong, and a faulty one for
  the data server whose client may stay silent, in a pool of three that shares one thread with an
  exchange: the queue fills, one thread is left, and either server may stop at any step.
* `sierra_orders`: three ids, quantities up to two: an OCO pair and one entry, partial
  fills and partial exits.

`CHECK_DEADLOCK FALSE` stands where the bounded system may really stop: after
destruction, after a crash, when a call hangs, or when the ids or versions of the
bound are used up and nothing is left to do.

### Fairness and why the code justifies it

* `TradeSystem`: weak fairness of `Process`: the chart keeps calling, and a call goes on. It says nothing
  of `CloseOrCancelOrder`, which need not return; nor does a close need to succeed, now or ever.
* `ParameterSync`: the study, the threads, the callbacks, and an answer *or a failure*
  for each request. `HttpClient` sets no time limit, so a server that accepts and never
  answers would block the study for ever: that assumption is on the server. Nobody has to save.
* `Messaging`: the processing thread, notifications under way and `Stop` once it is
  called. Pushing, subscribing and destroying are left to the environment.
* `HttpClient`: construction, worker, pool and destructor; an exchange only for
  requests that do not hang.
* `FileIO`: the reading and the writing thread, the printing thread, a call under way and a
  destructor under way. Nobody has to call or destroy anything.
* `Servers`: the accept loops, the pool, the requests of clients that send, `Messaging`'s
  thread, the tuner, and a destructor under way. Nobody has to connect, start or stop, and an exchange that
  holds a thread need not end. That silent clients and exchanges leave the pool a thread is the
  instance's choice, and needed: a hung Python server under eight exchanges stops every post.
* `SierraOrders` (`sierra_close` only): a call that is under way goes on if it can.
  The call stops all the same, because it waits for its own lock.

## 4. What is proved

Proofs are checked for every value of the constants that satisfies the modules' named
assumptions (any sets of pending orders and ids, any number of filters; any producers, a positive capacity; any numbers of versions, sessions,
requests, orders and quantities).

`TradeSystemProofs` (from `TradeSystemAssumption`):

* `TypeCorrect`: the type invariant is inductive by itself, one step per action. It
  rests on lemmas about the map operations: what `StoreOrders` and `StoreManaged` return
  for each id, and that both stay in `Orders`.
* `TrackedUntilFinalHolds`: what the two passes over the reports do together is the
  lemma `SecondPassDecides`: whatever the first pass erased, the second decides alone.
* `EntriesAreGated` and `ClosesBeforeEntries`: each from an inductive strengthening that says,
  stage by stage, what the batch and the maps contain (`GateInv`, `CloseInv`). `EntryGated`
  alone is not inductive: it says nothing of the orders not yet submitted.

`MessagingProofs` (from `MessagingAssumption`):

* `TypeCorrect`: the queue's length and the ownership of `mtx_`.
* `WakeupsAreNotLost`: `NoLostWakeup` with the types and the fact that `running` is
  cleared exactly when `Stop` has begun: the lock taken by the push excludes the
  moment between the test and the wait.
* `DeliveryIsInOrder`: the sequence of accepted requests is the concatenation of missed,
  delivered, in hand and queued.

`ParameterSyncProofs` (from `ParameterSyncAssumption`):

* `TypeCorrect`: in two parts, of which the first is what the other proofs need.
* `LossIsOvertaking`: `LostInv` says for every stage of `Initialize` what is true of the
  stored, the copied and the applied trading system; a store raises the flag, and only
  a store after the copy can see its flag reset.
* `GoingBackIsOvertaking`: `OrderInv` says that a kind that was never requested twice at once
  has one request, in one place, whose answer is no older than what is held.

`SignalProofs` (from `SignalStoreAssumption` and `SignalPipelineAssumption`):

* `IndexAndQueuesAgree`, `EverySignalInOnePlace`: `StoreOK` says that a queue repeats no id, holds
  signals of its own key only, and holds just what the index holds; `ContainerInv` adds the signals in
  the threads' hands, and that every id is smaller than the next one.
* `ContainerIsAPool`: initial states map to initial states and every step to a step or a stutter of
  `SignalPool`, one lemma per call. Removal by id looks into one queue, the one the index names; that the
  others hold nothing of that id is `StoreOK`.
* `PipelineTypes`, `SignalsAreAccountedFor`, `SignalsTradedOnce`, `LevelsNeedRecalculation`, from one
  invariant, `PipelineInv`. `Settled` says that what was taken or cleared neither waits nor has an order
  now, and that what is marked waits until the stage that clears it; `Paced`, that an iteration past its readiness test is on the first bar of a
  recalculation or has used the update's readiness up. `NoSignalTradedTwice` alone is not
  inductive: it says nothing of the ids that wait to be cleared.
* What `Without` and `AddSignals` compute is proved by induction on the length of a queue. The library's induction takes an operator as a parameter; here it is
  stated for sets (`InductiveSet`), from the fact that every non-empty set of natural numbers has a
  least element. A recursive function is shown to exist before it is unfolded.

`SessionProofs`, sessions (from `SessionManagerAssumption`): `TypeCorrect`, `SessionsArePaired`,
`TradingIsInSessions`, `RecordsAreAsOfTheirCalls`. The inductive
invariant numbers sessions without a gap (so that a new id is new) and says of every
record, open, posted or received, that it agrees with the history of its session.

`SessionProofs`, the trading window (from `TradingClockAssumption`: summer time is longer than two
days): `ClockTypes`, `WindowIsKept`, `WindowMovesALittle`, `TimeIsReal`. The inductive invariant says that
the windows are those converted at `readAt`, and the current time that of the bar at `clock - lag`; what is
left is arithmetic, in lemmas: what a time of day becomes by a conversion in each season, and what
`CombineDateAndTime` makes of it, with the facts about `\div` and `%` by 24 they rest on.

`HttpProofs`, the client (from `HttpClientAssumption` and `ThreadPoolAssumption`): `TypeCorrect`,
`CallbacksAreCalledOnce`. A callback is
called by a task, so the strengthening has to say that a request is in one place at a
time: queued, taken, posted or in a task, and only once in each sequence. `RequestsAreKeptHolds` says that it
is in one place at least, and with the pool once the destructor has returned; `JoinIsWokenHolds` that the
destructor never waits for a thread that waits on an empty queue.

`HttpProofs`, the servers (from `ServersAssumption` and `ThreadPoolAssumption`): `ServersTypes`,
`RepliesAreTrueHolds`, `PostsAreKeptHolds`. `ServersInv` says where a post is on its way (in the backlog of the server it
connected to, with the pool, in the tuner's queue, in a task of the tuner, tuned or dropped), that no queue
repeats it, and, for a connection that ended without a reply, what ended it; a post whose reply could not
be written is on its way to the tuner all the same. `PostsAreKept` is the other half: an accepted post is
in one of those places, whatever server is stopped in between, as long as the program runs.

`SierraOrdersProofs` (from `SierraOrdersAssumption`): `FilledIsWholeHolds`,
`ExitNeverFilledHolds`, from the types, the fact that a call under
way holds `scMutex`, and the fact that no report has a requested quantity. The second
gives `CloseNeverReturns` as well, the general form of what `sierra_close` finds: once
`CloseOrCancelOrder` has reached its exit, the study's thread has no step left.

`FileIOProofs` (from `FileIOAssumption`): `TypeCorrect`, `ReadsAreCurrent`, `NewestStaysHolds`, `EntriesAreInOrder`. `ReadInv` says where the
one request of a call under way is (queued, in hand, answered, and nowhere else), so that no
answer of an earlier call is left, and that the answer in hand is one the file has held
since the call began. `NewestInv` says that the last queued write of a file is its newest, or
the one in hand is, or the file holds it; the write on the spot is the
exception it has to carry. `EntriesInOrder` is about the
logger: printed and queued entries, one after the other, are all that was logged, in order.

`RequestsAreKept`, `JoinIsWoken`, `PostsAreKept` and `EntriesInOrder` are the safety half of
liveness properties that the runs check: what has to go on is always there to be gone on with. `RequestsAreKept` and
`EntriesInOrder` are stated beside their proofs and are no run's property.

**Only model-checked.** Liveness, which needs fairness and ENABLED, out of the prover's
reach: `CloseIsRetried`, `StaleIsApplied`, `ProcessReturns`, `QueueIsDrained`,
`StopReturns`, `EveryRequestAnswered`, `DestructorReturns`, `ReadReturns`, `LoggedIsPrinted`,
`EveryPostEnds`, `AcknowledgedIsTuned`. Every invariant and every action property of a passing run is
stated by a theorem.
No module uses RECURSIVE. Where a type invariant is proved, no run repeats it.

## 5. Not modelled

* `ThreadPool::Join`, at the end of the process; `SaveResults` and `TrackProgress`,
  which have no caller; `LevelManager`'s asynchronous mode, which no constructor selects.
* The names and group ids that select a document, and the conversion to and from JSON.
* The market data functions of `SierraChartPlatform`: they copy arrays of the chart into
  records and keep no state. `GetBarRangeByOffset` and `GetBarRangeByTime` take `scMutex`
  shared twice, which blocks only beside a writer on another thread; the library has none.
  `InitializePlatform` sets flags of the chart no other code of the library reads.
* `ToJson` and `FromJson` of the records in `CommonTypes.h`, most of that file: no decision modelled
  tells their fields apart. A document that cannot be parsed is an outcome in `ParameterSync`
  and `FileIO`.
* The explicit destructor calls (`TradeSystem.h:41`, `ParameterManager.cpp:19`) destroy objects a
  second time: undefined behaviour without outcomes to enumerate. `Servers` models the
  destruction of what has threads, in the order the code gives it.
* `Calculations` and `LevelUtilities`: floating point, no caller.
* Message texts and wording. `AddMessageToLog` appears in `SierraOrders` for the lock it takes.
* The parts that are stubs.

## 6. Plan

Done, in this order: `TradeSystem` and its proofs; `SignalStore`, `SignalPool`,
`SignalContainer`; `SignalPipeline`; `ParameterSync`; `SessionManager`; `Messaging`;
`HttpClient`; `SierraOrders`; `TradingClock`, `Logger` and `FileIO`; `Servers`; the proofs of all
their invariants, action properties and the refinement.

Next, by importance:

1. A composition of `TradeSystem` with `SierraOrders` behind its order processor, and of
   `SessionManager` with `ParameterSync` and `TradingClock`.
2. `Lifecycle`: destruction of the study while callbacks are under way, as far as its
   outcomes are defined.
3. `TradeStatistics` on a trade list against a reference definition.

Proofs to come: that the reports of the composition of 1 are reports of `TradeSystem`; that a request the study waits
for in `FileIO` or `ParameterSync` is always in a thread's hands or queued, the safety half of `ReadReturns` and
`ProcessReturns`, as theorems of their own.
