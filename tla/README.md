# OpenMarketSim in TLA+

OpenMarketSim simulates a financial market: C++ nodes run a discrete-event engine with
exchanges, order books and trading actors, and a Go orchestrator drives the nodes. This
directory holds TLA+ models of it, the TLC configurations that check them, and proofs that
TLAPS checks. Paths below are relative to the repository (`src/` here).

Part 1 is the inventory of the system, part 2 the modules, runs and proofs that exist,
part 3 the plan for the rest.

## 1. Inventory

| Component (source) | State | Operations | Correct when | Here |
|---|---|---|---|---|
| Order book, matching engine (`engine/src/order_book.*`) | `orders_`, `bid_levels_`, `ask_levels_`, per level a list, `order_map_`, `total_volume_` | submit limit/market, cancel, modify, clear, queries | price-time priority; never left crossed; executions reach the callbacks; no order lost; lookups agree with lists; loops end | `OrderBook`, `PriceTimeBook`, proofs |
| Event engine (`engine.*`) | clock, event queue, periodic callbacks, `is_running_`, `mutex_` | schedule, run_for/until/until_condition, register, add callback, initialize | events in order, none early, lost or doubled; callbacks keep up; runs last to their end; no self-deadlock | `SimulationEngine`, proofs |
| gRPC node (`main.cpp`) | `g_running`, session flags, maps of exchanges and actors, a detached simulation thread | Initialize, CreateExchange, AddInstrument, RegisterActor, ExecuteOrder, CancelOrder, RunSimulation, GetSimulationState | one run at a time, in an open session; the flag tells the truth; requests live as long as they are used | `SimulationNode` (RunSimulation; proofs), `Orchestrator` (set-up handlers), `Exchange`, `Traders` (order handlers) |
| Exchange (`exchange.*`) | session flag, books, last trades, subscriptions | add instrument, submit, cancel, subscribe, open/close, process trade, broadcast | subscribers end up with the book as it is; actors can withdraw what they have; closing leaves nothing | `Exchange`, proofs |
| Actors (`actor.*`) | active orders, positions, capital, quotes, price history | on_order_executed, submit, cancel, observations, decisions | capital + position at cost = initial capital + realized profit; one quote per side, never out of sight; targets reached | `Accounting`, `Traders`, `Exchange`, proofs |
| Orchestrator (`orchestrator/orchestrator.go`) | nodes, `Running`, goroutines and channel of a run | SetupSimulation, RunSimulation, collectData, main | nodes run what was set up; nil means started; `Running` follows the goroutines; all ends with the context | `Orchestrator`, proofs |
| Kubernetes controller (`k8s_controller.go`) | phase, times and node count of each simulation; caches; work queue | Reconcile by phase, create resources | phases only go forward, across conflicts and restarts; every simulation ends | `SimulationController`, proofs |
| Message broker (`messaging.go`) | sockets, four bounded channels, websocket clients, `running` | Start, receive, broadcast, SendRequest, Close | a reply answers its own request | not modelled, section 2.11 |
| Clock synchronizer (`clock_sync.go`) | offsets, master | SynchronizeClocks, SetMasterNode, AdjustTimestamp | offsets map node time to master time | not modelled, section 2.11 |
| Configuration (`config.go`), options (`options.hpp`), market events (`event.hpp`), bindings, Helm charts | | | | not modelled, section 2.11 |

How they interact: the orchestrator calls the nodes over gRPC. A node's RPC thread calls
exchanges and the engine directly; a simulation thread, started by RunSimulation, runs the
engine, whose events call actors, which call exchanges, which call matching engines and
books. A book calls back: to its matching engine and from there to the exchange, which tells
the actors and schedules market-data events back in the engine. Nodes publish over ZeroMQ to
the message broker, which broadcasts to websockets. The controller creates the pods the nodes
run in.

What is hard: the book's several indexes of one order, updated by different loops; exceptions
out of those loops; callbacks under the engine's lock; RPC threads beside the simulation
thread; flags that are tested and then set; requests used after they are freed; callbacks that
reach an actor in the midst of its own decision; goroutines that outlive the call that started
them; stale caches, write conflicts and restarts of the controller. Each hazard is listed at its
line in `PROJECT.json` with the properties that catch it, or the reason why none does. The
repository has no tests.

The C++ does not compile as it stands. The models take its evident meaning and, where a reading
is needed, the following: `PriceLevel` has no default constructor although
`operator[]` needs one, and a level that `operator[]` just made reads price 0.0, the test that
`add_order` makes; erasures through the const reference `level.orders()` are erasures from the
level's list; where `exchange.hpp` and `exchange.cpp` define a member twice, the `.cpp` counts;
where `actor.cpp` has a null pointer "assume we have a reference to the right exchange" in place of
the exchange (and uses an `engine` that is not in scope, line 304), the models assume the reference.

## 2. What is modelled

### 2.1 `OrderBook`: book and matching engine

State: Order objects are named by handles, numbered in order of arrival, because ids may be
reused: `order` is the sequence of all objects, `orders` the map `orders_`, `levels[side][price]`
a `PriceLevel` with its list, its `order_map_` and its `total_volume_` (`live` says that the map
has the key). `pc`, `px`, `it`, `taker` and `trades` are the locals of a call in progress;
`reported` and `withdrawn` are history: what the callbacks were told, what clients took out.
Prices and quantities are whole ticks and lots.

Actions: a call is entered by `SubmitLimit` (add_order, then match_orders), `SubmitMarket`,
`Cancel`, `Modify` or `Clear`; the loops go on by `EnterLevels`, `MatchPair`, `LeaveLevels`,
`MatchDone` and `EnterLevel`, `Fill`, `LeaveLevel`, `MarketDone`, one step per iteration; `Notify`
gives one trade to the callbacks, `Return` ends the call. `MatchThrows` and `FillThrows` are the
exception of `Order::execute`, which leaves the book as it is and drops the vector of trades.
`RemoveDangling` is the undefined behaviour of erasing through an iterator to a node that a
matching loop already erased: either the process aborts or another, later order is unlinked; the
model then stops (`pc = "undefined"`), claiming nothing of what follows. Order types other than
LIMIT and MARKET only set the status of an object the book does not keep: no step. Trade ids and
timestamps are left out.

`PriceTimeBook` is the abstract specification: sets of resting orders, and executions that
only ever take the first order of a side. `OrderBook` implements it (`ImplementsPriceTimeBook`,
refinement mapping at the end of the module).

| Run | Bounds | Shows |
|---|---|---|
| `order_book_safety` | 3 orders, 2 ids (reusable), 2 prices, quantities 1-2, one revision, all calls | type and inductive invariant; never left crossed; every execution told once; no order lost or kept; volume never understated; price-time priority; the loops implement `PriceTimeBook` |
| `order_book_ids` | 3 orders, ids used once, 2 prices, quantities 0-2, limit, market, cancel | lookups agree with lists; exceptions leave no empty level; every call returns or throws |

Three orders are one more than a matching pair: a level with two orders against one, two levels
against one, a partial fill followed by another. Two ids among three objects force reuse. Ids
are symmetric in `order_book_safety`, since the book only compares them; where ids are used once,
the unused one that comes next is fixed instead (`Usable`). Prices and quantities are compared
and are not symmetric; prices are positive. The book really may stop, in undefined behaviour or
when `MaxOrders` objects exist and clients make no other call, so deadlock is not checked.
`MaxOrders` bounds the objects ever created; market orders, which create no
object in the book, are unbounded.

Fairness, used only for `CallsReturn` (`order_book_ids`): `WF_vars(Proceed)`, since a call is a function on a
running thread.

Where the code departs from its comment: `RemovalIsDefined` (run `removal_is_defined`; cancelling a
filled order erases through a dangling iterator). What else the model shows, without a run of its
own: `total_volume_` is not maintained by matching (only `VolumeNotUnderstated` is true);
modify_order adds the old terms again, since the setters for the new ones are commented out; with
an order of quantity 0 match_orders throws and leaves a crossed book, and trades executed before
the exception are told to nobody (`ExecutionsAreTold`); a second order at price 0 replaces its
level (`NoOrderLost`); an id in use again hides the earlier order (`AnswersToId`). `orders_` also
keeps filled orders, which get_all_orders returns.

### 2.2 `SimulationEngine`: clock, queue, runs, callbacks

State: `clock`, `event_queue` (a set, ordered by `Before` as by `Event::operator>`), `next_id`,
`callbacks`, `is_running`, the owner of `mutex_`, and per thread `pc` and its locals. `popped` is
history. Handlers, callbacks and `Actor::initialize` are the application's: they may construct
and schedule events (`Construct`, then `Schedule`, two steps, as the timestamp is read before the
lock is taken) from the places `Sources` names, and throw from those `Faults` names.
Critical sections that call nobody are one step; `next` (waiting for the lock) is apart from
`loop` (reading `is_running_`), because another thread may act in between. `std::mutex` is
not recursive: a thread that owns it and schedules waits for itself. `is_running_` and the clock
are read without synchronization; on the supported targets the reads yield the current value,
and process_next_event is a lock operation the compiler cannot move them across.
`register_exchange`, `set_config` and the vectors of actors and exchanges feed nothing in the
engine; checkpoints write a version number only. Nothing waits on `cv_`.

| Run | Bounds | Shows |
|---|---|---|
| `engine_two_runs` | 2 threads that both run, 3 events, 1 callback, delays -1, 0, 2, handlers that throw | callbacks keep up; no handler early; each event handed out once; every call returns |
| `engine_order` | 1 thread, 4 events, intervals 0-2, registration, initialization, exceptions in handlers, callbacks and actors | events in order of time, then construction, from each initialization on |

Delay 2 jumps over an interval of 1; delay -1 is a latency whose jitter exceeds its base
(exchange.cpp:23-32); an interval of 0 keeps the callback loop, and the lock, for ever. Three
events allow one in process, one queued and one not yet queued. Fairness: weak, on
each thread's own steps, since a call runs on its thread and handlers return; it suffices because
with finitely many events the lock is taken finitely often. For the same reason
`engine_two_runs` registers no actors (a client that registers without end could keep the lock from
a run, and `std::mutex` promises no turn) and has no interval of 0; both are in
`engine_order`. `RunReturns` says nothing of actors that schedule without end at one time.

Departure: `NeverWaitsForItself` (actors that schedule in initialize, as both implemented actors
do; periodic callbacks that schedule, `Sources` with "callback", do the same). Also visible in
the model: run_until compares the end time after processing, so an event later than the end is
processed; an event stamped before another thread's event moves the clock is processed late
(`NeverEarly` is what remains true); and of two runs the one that ends first ends the other
(`RunStopsForAReason` fails in the bounds of `engine_two_runs`).

### 2.3 `SimulationNode`: RunSimulation around the engine

EXTENDS the engine: its threads are RPC threads (`Clients`) and simulation threads (`Runners`), and
its steps are taken by them as the node allows. `rpc` follows the RPC handler (check, set, open,
start, respond), `sim` the detached thread (started, running, close, closing). `borrowed` says whether the
request whose address the thread captured is still alive; a duration read from a freed request
is arbitrary. An exception on the simulation thread ends the process (`terminated`); one from
`std::thread`'s constructor reaches the catch block (`StartFails`). Exchanges open and close
together and are one flag.

`node_safety` (one client, 3 events, 1 callback, exceptions in handlers; it stops after
std::terminate, hence no deadlock check): one run at a time, handlers only in an open
session, `g_running` covers the run, `RunStopsForAReason` of the engine, whose assumption of
one runner the node meets although Initialize may reset the engine in mid-run, and the
node becomes free again, or has ended. Fairness: weak, on the handlers and threads in progress
(`NodeProceed`); clients are not obliged to call. Not in the runs, since any property fails at once:
with two clients both calls may pass the check of `g_running` before either sets it (the theorems
of `SimulationNodeProofs` therefore assume one), and the duration may be read after the
request is freed (`Begin` takes any).

### 2.4 `Exchange` and `Accounting`: one instrument, its book and its actors

EXTENDS `OrderBook`, whose steps it takes as the code's calls do. State: `is_trading_open`, the
number of `listings`, the `owner` (actor_id) of every Order object, `subscribers`, `last_trade`,
`feed` (the last snapshot scheduled for each subscriber), and per actor `active_orders` and
`accounts`; `stage`, `caller`, `batch` and `closing` are the locals of the call in progress, `used`
the ids ever sent. A limit order goes through `SubmitLimitOrder` (add_order, whose callback
broadcasts the book before matching), the loops (`Match`), one `TradeCallbacks` per trade (the book's
callback broadcasts, then the matching engine's calls process_trade), `OrderProcessed`, one
`ProcessResult` per returned trade (process_trade again) and `Submitted` (the last broadcast).
`CloseTradingSession` takes all that get_all_orders returns, `CloseOne` removes them in arbitrary
order. `AddInstrument` replaces the book, with or without the initial liquidity, whose orders
belong to `Nobody`. `UpdatePosition` (`Accounting`) is Actor::update_position over exact fractions.

The model takes calls one after another; `SimulationNode` is about threads. Five levels of initial
liquidity are one; latency only delays what `feed` holds; fees are computed and dropped. As in the
code, an actor is told of a trade only if get_order still knows its order (never a market
order); rejected orders and market orders stay in `active_orders_`; closing a session tells nobody.

| Run | Bounds | Shows |
|---|---|---|
| `exchange_sessions` | 2 actors, 1 subscriber, 3 orders, 2 prices, quantities 1 and 3, 2 listings | last snapshot is the book; what rests can be withdrawn; a closed session leaves nothing of an actor |
| `executions_counted_twice` | 2 actors, 2 orders | departure: each execution moves positions twice |

Quantity 3 against 1 is an execution in part; two listings are one re-listing over a book with
orders; three orders are two of an actor's against one, or the liquidity's two and one. No
fairness: calls of the book return (`CallsReturn`), and nothing here waits.

### 2.5 `Traders`: market maker and trend follower

One actor of either kind, and of the exchange what it sees. `known` is the exchange's `orders_`
restricted to its orders; `calls` the notifications not yet delivered, innermost first, since a
notification may submit an order (`Rebalance`, manage_inventory) that causes others. An order that comes
in, a quote among them, is matched at once: `incoming` is the order, `MeetOwn` executes the best of the
actor's orders it faces, `MeetOther` another's (whose book is left open: price and lots are those a book
could hold beside the actor's orders), until nothing is left of it or nothing faces it, and `Settle`
lets the rest of a limit order stay and queues the executions (`trades`) in the two passes of process_trade. So a market
order sweeps as many of the actor's own orders as there are, and what a crossing bid quote sets off is over
before the ask quote is sent. `Told` is process_trade's choice of whom to tell of what: an actor that
trades with itself is told of its purchase only (exchange.cpp:549).

The market maker's decision is `Decide`, `CancelQuote` and `QuoteCancelled` per side, `PlaceQuotes`, one
`SubmitQuote` per side, `QuotesPlaced`; notifications (`Deliver`) come in between. The code's aliasing
is kept: cancel_order erases from `active_orders_` the id it holds by reference to the string in
`active_quotes_`, which the notification may have cleared (`QuoteCancelled`). Clients trade in the
actor's name (`ClientOrder`, `ClientCancel`: ExecuteOrder and CancelOrder), others send orders that meet its
own (`OthersOrder`), sessions open and close. Quotes and market orders carry no actor_id, so the actor is
never told of their executions. The trend follower keeps its history, computes its signal and
sends orders, counted in half lots because half a position may be sold; a target has the sign of the
capital, and an order of negative size has no effect (`Ordered`). Quote prices and sizes are
constants; prices of the follower's windows are integers, as are the sizes of rebalancing orders (the code's fifth of a
position may be a fraction). Left out: clients' market orders in the actor's name (`Exchange` has
them), and which of several own orders at one price comes first (either may).

`traders_quotes`: either actor, 2 client orders of 1 and 3 lots, orders of others of 3, 2 prices, a limit of 2, a
capital of 4, windows 1 and 2, 2 mid prices. Properties: accounts balance through every crossing of zero; one quote per side; a
resting quote is known and active between calls; calls return while the session is open; the signal is
of the latest prices; the orders sent reach the target.

Of the two client orders the larger brings the position above the limit from either side, so that the maker rebalances;
one execution of it crosses the position that the smaller left; and they may meet each other and both quotes; the prices are those of the quotes, so that client orders cross them, rest with them or away from
them; a capital of 4 can be used up. Others' 3 lots fill a client order and a quote, or one of them in part
after the other. Windows 1 and 2 are the smallest that differ, and the history is cut off at 4. A client's id is
used once and others' orders only come where they meet an own one; otherwise both kinds of order are
unbounded. Fairness: `WF_vars(Going)`,
since a handler that was called goes on, and a matching ends. In a closed session each rejected rebalancing order
notifies and rebalances again without end: hence `ReturnsWhileOpen` stops there. The system may stop in
undefined behaviour, so deadlock is not checked.

### 2.6 `Orchestrator`: set-up, run, goroutines, nodes

State: what each `node` holds (exchanges created, instruments listed, subscriptions, sessions, run),
how many requests of SetupSimulation are answered, `running`, and per caller of RunSimulation its
`run`: a `worker` goroutine per node, the `collector`, the `waiter` that waits, closes and clears
the flag, and the `errors` in the channel. A node's handlers are atomic here (`CreateExchange`,
`AddInstrument`, `RegisterActor`, `OpenAndRun`); `SimulationNode` opens the last one up. `SetupStep` sends
the next request, to the node drawn for it; `SetupFails` loses it or its answer. `Answered`, `NoAnswer` and
`SendError` are a node's goroutine; `ReturnError` leaves the others behind. `Signal` ends the context,
`Restart` the process, whose nodes live on with what they hold; `NodeRestarts` the reverse.
A request that is in flight when the process ends counts as handled by then or never.
A set-up call that is never answered (RegisterActor of an actor that schedules, section 2.2) is a
set-up that stops: `SetupStep` is never obliged. What collectData collects is read by nobody.

exchangeNodeMap leads from the name of an exchange to the node it was created on (`Home`), the last one if
the configuration gives a name twice: the exchange an earlier node was told to create then stays there
without instruments (config.go:415 refuses such a configuration, but main builds its own and does not call
that). An actor is subscribed to the instruments it names (`Watches`) on every exchange of its node.

`orchestrator_runs`: two nodes, three exchanges with two names among them, two instruments, an actor that names one of
them, two callers, one fault, one restart. The name given twice lands on both nodes. Two nodes are
needed for one error to be returned while another goroutine goes on, two callers for the flag to
matter (main has one; the mutex is there for more). Properties: after set-up, whatever an
earlier process left, each exchange is on the node its name leads to, with every instrument, and every actor is
subscribed on one node to what it names; a node that accepted the run has all its exchanges open; one generation of goroutines at most, and
`running` set as long; nothing is sent on a closed channel; nil means every node started; all
ends with the context. Nodes restarted meanwhile (`lost`) are excepted: nothing sets them up again, and
such a node accepts a run with nothing to trade. Fairness: weak, on each goroutine and on calls, which
are answered or end with the context. Worth knowing: because the collector is among the goroutines that
are waited for, RunSimulation returns nil only when its context ends (or the file could not be
created), not when the simulations do, as orchestrator.go:348 suggests.

### 2.7 `SimulationController`: reconciliation

Controllers (the operator; several in the theorems, since templates/configmap.yaml:14 turns leader
election off) read the simulation and its resources from caches (`seen`, `view`, `seenReady`), work on a
`copy`, and write it back. Versions are abstracted to whether a copy or cache entry is `current`.
`Reconcile` handles the copy up to its first request, which is then one step each:
`UpdateStatus` or `Conflict`, `CreateResource` or `KeepResource`, `CheckNodes`. The two services are one
resource. `RequestFails`, `Crash`, `NodesFail`, `ResourceDeleted`, `Delete` are faults, bounded by
`MaxFaults`; `WatchSimulation` and `WatchResources` bring caches up to date and fill the work queue;
RequeueAfter and an error both leave the simulation in the queue. Stored times are whole seconds
(`Stamp`, `Second` ticks; metav1.Time is written so), while the duration is compared with the clock itself:
stored start and completion may be up to a second less apart than the duration, and `TimesAreKept` says so.

`controller_faults`: one operator, three faults, a second of 2 ticks, duration 2, grace 0, so that the simulation
completes or fails within a few ticks; three faults are a deleted resource, a crash and a lost node.
Two operators give several million states, too many for this run; the theorems cover any
number. Properties: the stored phase only goes forward; start and completion are stored once and Completed
comes after the duration, less a part of a second (without that allowance TLC refutes it); a running simulation has all resources nobody deleted; every simulation
ends or is deleted. That Failed is stored with no nodes, after the grace period, is left to its theorem. Fairness: weak, on the steps
of the workers, on watches and on time.

### 2.8 What is proved

TLAPS checks the following for every value of the constants that meets the modules' assumptions; a
hypothesis on top of those is named in the last column, and is what the code needs, too.

| Theorem | Of | States |
|---|---|---|
| `TypeCorrect` | book | `TypeOK`, no assumption on quantities |
| `BookInvariant`, `NotCrossed` | book | `BookInv`, `NotCrossedBetweenCalls`, with `PositiveQuantities`: an order of quantity 0 is the failure without it |
| `AlwaysAnswers` | book | `AnswersToId`, with positive quantities, ids used once and no modify_order |
| `NoLevelEmpty`, `VolumeCovers` | book | `NoEmptyLevel`, `VolumeNotUnderstated`, for all quantities and prices |
| `PriceTime`, `ToldOnce` | book | `PriceTimePriority`, `ExecutionsAreTold`, with positive quantities |
| `NothingLost`, `Refines` | book | `NoOrderLost`, and `ImplementsPriceTimeBook` (initial states and every step), with positive quantities and `PositivePrices`: a second order at price 0.0 replaces its level |
| `EngineStructure` | engine | `TypeOK`, and that the code under `mutex_` is run by its owner |
| `CallbacksAlwaysKeepUp` | engine | `CallbacksKeepUp`, if callbacks do not throw (`CallbacksReturn`; a throw leaves the loop before the catching up) |
| `HandlersNeverEarly`, `EveryEventOnce` | engine | `NeverEarly`, `EachEventOnce`, for any number of threads, if none of them initializes (`NeverReset`; initialize() in mid-run sets the clock back and clears the queue) |
| `EventsInOrder` | engine | `InOrder`, with one thread and no negative delay (`OneUser`, `DelaysForward`; section 2.2 has the failures without either) |
| `OneRun`, `SessionOpen`, `FlagCovers`, `RunsLast` | node | `OneRunAtATime`, `OpenWhileRunning`, `FlagCoversTheRun`, `RunStopsForAReason`, with one client (`OneCaller`) |
| `SnapshotsAreCurrent` | exchange | `SnapshotIsCurrent` |
| `BookInExchange` | exchange | three of the book's properties, in the composition, where ids are fresh by `used` |
| `PromisesInExchange`, `NothingLostInExchange` | exchange | price-time priority and the book's four other promises for the book of an exchange, with sessions, liquidity and re-listing; the second, `NoOrderLost`, with `PositivePrices` |
| `RestingStaysActive`, `ClosedSessionIsEmpty` | exchange | `RestingIsActive`, `ClosedMeansEmpty` |
| `OneQuote`, `QuotesKnown` | market maker | `OneQuotePerSide`, `QuoteIsKnown` |
| `SignalOfLatest`, `TargetReached` | trend follower | `SignalIsOfLatest`, `OrdersReachTarget` (action properties) |
| `AccountsBalance` | accounts | `BooksBalance` |
| `SetUpCompletes`, `SetupIsRun` | orchestrator | `SetUpIsComplete`, `RunsAsSetUp`, for any lists, names given twice included |
| `OneGenerationAtATime`, `ChannelOutlivesSenders`, `NilStartsEveryNode` | orchestrator | `OneGeneration`, `NoSendAfterClose`, `NilMeansStarted` |
| `ControllerTypes`, `ResourcesMade`, `FailedCounted` | controller | `TypeOK`, `ResourcesAreThere`, `FailedWithoutNodes` |
| `PhasesForward`, `TimesKept` | controller | `PhasesGoForward`, `TimesAreKept` (action properties) |

The book (`OrderBookProofs`). `Shape` is what every step keeps in any case: types, handles within bounds,
lists that name orders of their own side and price, iterators at existing levels. `Calm` adds what
positive quantities give: lists without filled or repeated orders, and a crossed book only
while match_orders is at work. Matching could leave the book crossed in three ways: by ending
early, but `MatchDone` is the loop's condition; by an exception, but an exception needs an order
with nothing left, and `ListsLive` excludes it; by a later call adding to the book without
matching, and only modify_order does, with the price of the order it removed. `Ids` adds that ids are
unique and that both kinds of map lead from an id to an order of that id. The module begins with what
RemoveAt does to a sequence and what the operations do to one level and to the book.

What the book promises (`PriceTimeProofs`). `InArrivalOrder` and `NothingEmpty` hold for all constants: handles
are numbered by arrival and only added at the end, and only the levels a loop works on may be empty, also
where it throws, since the lists under its iterators are not. That executions come
from the fronts is not obvious of match_orders, whose two iterators move on independently. It holds
because in a crossed book only the newest order overlaps with the other side (`NewestOverlaps`): one
iteration of the inner loop either fills that order or moves past it to the end of its list, so
that no pair behind the first is ever matched (`MatchesFronts`). With `Complete` (an order is in
its list exactly while it has quantity left and no client withdrew it) and the same fronts each step is a
step of `PriceTimeBook` or a stutter. The sums of `ExecutionsAreTold` and `VolumeNotUnderstated` are recursive
functions (`Total`); what adding, erasing or lowering an element does to a total is proved by induction
over the sets of numbers for which it holds, from the well-foundedness of intervals. `Accounted` is then an
account per order, and `Fits` one per level: loops take quantity from the orders but not from
`total_volume_`, which can only overstate.

The engine (`SimulationEngineProofs`). `Structure` is types and lock; each of the four theorems adds one
invariant. `BehindOnlyInLoop`: a callback is behind only while a thread is in the loop over them and has not
come to it, and the catching up brings the next call past the clock by one interval at most.
`ClockReached`: a thread that has an event has a clock past it. `InOnePlace` with `NoTwins`: an event
is on its way to the queue, in it, or taken. `InTurn`: what is still to be taken comes after what
was, and is not in the past of the clock.

The node (`SimulationNodeProofs`): a handler past its check finds no thread; the engine's steps are only
expanded for `RunsLast`, where nobody but the thread that runs is inside a run of the engine.

The exchange (`ExchangeProofs`). `FeedInv`: each step either broadcasts what it leaves
or makes the exchange busy, and `Submitted` broadcasts last. `BookPart` is the book's invariant
(`Shape`, `Calm`, `Ids`) with `Owners` and `UsedIds`: a step of the exchange is a step of the book, whose
lemmas apply, or a listing, which starts a new one. The step lemmas of `PriceTimeProofs` are about `AnyStep`, any
call of any client and whatever the book does, which covers the exchange's steps as well as `Next`; a listing withdraws
what rested and begins with one order in a list, in a level of its volume (`Relisted`). `Activity`: an order leaves `active_orders_` when
it is filled or cancelled, never otherwise; `NamedTrades` says that trades in the batch name
existing orders. `Sessions`: while a session closes, every resting id is still in `closing`.

The actors (`TradersProofs`). `InHand`: while one of the actor's orders is matched, nothing rests under its id and no
notification is pending, and a quote is matched only where the market maker submits it. `QuoteInv`: the actor is told of a quote only when nothing of it is left
(`Gone`), and where a quote may rest the market maker knows of it (`Tracked`), at each place of its
decision: while it cancels, the side already dealt with has no quote; when it places them, neither has. So no
notification that comes in between clears the id of a quote that rests, and none is sent over another. `Remembered`:
the prices observed last, as many as the long window takes, are the end of the history. `BalanceInv`: update_position has
three kinds of trade (it extends, reduces or reverses the position), and each keeps the balance, which is
an equation of fractions; `FracValue` says that bringing one to its lowest terms
divides both of its numbers by the same factor.

The orchestrator (`OrchestratorProofs`): `Waited` (closed only when every goroutine is done) and `Told`
(while the caller reads, a goroutine that is done was accepted or left its error). `SetupInv` says what the requests
answered so far have left on their nodes (`Created`, `Listed`, `Subscribed`), whatever was there before; the requests
are concatenated sequences, so that the place of each follows from quotient and remainder. The last exchange of a name
exists because a finite set of numbers has a greatest (`GreatestNumber`, by well-foundedness), and an exchange
is created again under its name only before any instrument is added. `RunInv`
adds that an accepted run opened what was set up.

The controller (`SimulationControllerProofs`): `Caches` and `Copies` say that what is current equals what
is stored, up to the change under way (`Basis`); hence a write is accepted only if its basis still holds. `StartIsKnown`, a part of `TypeOK`, says that every
cached simulation and every copy past its first status has a start time, which handleRunningPhase
dereferences; a stamp is within a second of the time it was made from (`StampBounds`). `Made`
says what a reconciliation has passed was created by somebody.

### 2.9 Only model-checked

The liveness properties `CallsReturn`, `RunReturns`, `NodeBecomesFree`, `ReturnsWhileOpen`, `SimulationEnds` and
`ShutsDown`: fairness and ENABLED are out of TLAPS's reach. The departures of the code from what is said of it
(`RemovalIsDefined`, `NeverWaitsForItself`, `PositionsAreExecutions`) are counterexamples of TLC. Every
other property of the runs is stated by a theorem. TLC checked each inductive invariant, or its parts, on small
instances before it was proved.

### 2.10 Conventions, running

`X_...` variants next to a definition are mistakes a programmer could make there; with the
definition replaced by the variant, the property named in `PROJECT.json` (`mutants`) fails. `MC...`
modules give constants values for TLC. Every module states its type invariant; the runs list those of
the book (within `BookInv`) and of the controller, which say more than types, while `TypeOK` of
`Traders` and `Orchestrator`, `NodeTypeOK` and `ExTypeOK` hold in the bounds of the runs and are left
out of their lists, and that of `SimulationEngine` is proved (`EngineStructure`).

    tlc -config OrderBookSafety.cfg MCOrderBook.tla
    tlapm OrderBookProofs.tla

### 2.11 Not modelled

- Data races between RPC threads and the simulation thread on books and exchanges: every
  outcome is possible after one, so a model of them refutes any property.
- Latency: snapshots have random delays and may arrive in another order than sent (exchange.cpp:521);
  nothing in the code orders them.
- Message broker: messages are decoded and passed on in order of arrival or discarded when a channel is
  full; SendRequest and Close, whose behaviour would be worth stating, have no callers.
- Clock synchronizer: averages and regressions over floating-point samples of real time; nothing
  reads the offsets.
- The type `Controller` (k8s_controller.go:790-965): nothing creates it and its work items do nothing.
  Conditions of a simulation's status, which nothing reads; an unreadable Duration, an error for ever.
- GetSimulationState, shutdown and the ZeroMQ publisher (I/O); configuration loading, validation and
  manifests (sequential, data only); options pricing and quote prices (floating point); market events
  (declared, not defined); bindings; charts.
- Stop, iceberg, fill-or-kill and immediate-or-cancel orders, which README.md:107-114 lists, are rejected
  by the matching engine; HighFrequencyTrader and RetailTrader (actor.hpp:192, 231), which RegisterActor
  names, are declared and not defined.

## 3. What is left

1. Two market makers on one `Exchange`, with delivery of market data through `SimulationEngine`.
