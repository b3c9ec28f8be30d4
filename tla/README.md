# A TLA+ model of the Polymarket market-making bot

The bot quotes binary markets on a central limit order book. Book events come
in over a websocket; for each of them the strategies state the orders they
desire, a diff against the confirmed orders yields cancels and placements, a
risk gate drops placements, and an actor sends the rest to the exchange. All of
it runs in one asyncio process: a step ends only where the code awaits, and
between two awaits the other tasks, the exchange and the threads of the executor
move. The models are about what can happen there.

Paths in this file are relative to the repository root (`src/` in the project's
map).

## The system

| Component | State | Operations | Correct when |
|---|---|---|---|
| Order diff (`core/execution/execution_actor.py`, `diff`) | none | `diff(desired, confirmed)` | it settles, on exactly the desired quote; no own order is crossed |
| Execution actor (same file) | rejection tracker per token | `apply`, `_place_with_retry` | an intent is placed at most once; an awaited cancel comes before the placements; every call ends |
| Risk gate (`core/execution/risk_gate.py`) | none; judges a `RiskState` | `check`, `filter_intents` | limits bound what is open on the exchange |
| Orchestrator (`core/orchestrator.py`) | `_running`, market registry, per-token books and inventories, queues, background tasks | `start`, `stop`, `_on_scanner_update`, book and fill handlers | events are handled once, in order, by a live consumer; shutdown leaves nothing open and ends |
| User stream (`core/execution/user_stream.py`) | socket, three bounded queues | `connect`, `_handle_message` | fills are neither lost, repeated nor reordered; the reader never stops |
| Market stream, book state (`market_stream.py`, `book_state.py`) | local book per token, crossed-book counters | snapshot, delta, resync request | the books the strategies see were the exchange's, in order, uncrossed; every token is subscribed |
| Order ledger, recovery (`core/ledger/order_ledger.py`, `recovery_coordinator.py`) | order records, resync flag | `record_*`, `recover` | ledger and exchange differ only by what is on its way or could not be known |
| Positions, inventory (`fill_position_ledger.py`, `inventory/manager.py`) | fills, positions, inventories | `record_fill`, `apply_fill` | positions are the sum of the fills; the inventory the strategies see is the position |
| Redemption (`auto_redemption.py`, `reward_rebate_ledger.py`) | redeemed condition ids | `auto_redeem`, `record_redemption` | a condition is redeemed once |
| Relayer, EOA failover (`auth/relayer.py`) | outage timer, `eoa_active`, cached Safe address | `submit_with_failover`, `get_or_deploy_safe` | an order is submitted once; the Safe is deployed once |
| Fee cache (`fees/`) | entries with expiry, miss counts | `get`, `set`, `on_fill`, the refresh loop | a served rate was charged at most TTL and a request ago; each registered token has one |
| Quote engine, strategies | strategy flags | `compute`, `evaluate` | quotes do not cross the book or each other, and do not outlive their market |
| Liveness, stale quotes (`liveness.py`, `reporting.py`) | miss counters, order timestamps | periodic loops | a dead session is noticed; stale quotes are cancelled |
| Scanner, enricher, ranker, parameters (`core/control/`) | selected markets, watchlist | `scan_once` | the registry holds the best of the markets that accept orders |
| Storage (`storage/`) | pools, fill buffer, schema version | migrations, buffer | each application of a migration is accounted for; no trading on an old schema |
| Alerts, metrics, configuration, credentials, scripts | | formatting and I/O | |

How they interact. The market and user gateways are background tasks that put
events on bounded queues; the orchestrator's `_consume_book` and
`_consume_fills` are the only consumers, and three of the queues the orchestrator
makes (acks, cancels, resyncs) have none. `_consume_book` alone calls
`ExecutionActor.apply` and awaits it. Fills go to the position ledger and to the
inventory the strategies quote from. The scanner task replaces the registry by a
callback, which drops inventories, fetches missing fees and subscribes; a refresh
loop fetches fees beside it. A signal makes `stop()` run as one more task.
`recover()` fills the order ledger once, before the event loop starts; afterwards
nothing in the program writes to it, so *Confirmed* is, for the life of the
process, what recovery found. `auto_redeem`, `submit_with_failover` and the
`record_*` calls of the order ledger are written and tested but not called by the
program: their callers in the models are those of the tests and the PRD.

What is hard: `stop()` running beside a suspended `apply()`; cancels nobody
awaits; requests that time out although they took effect; a reader, a queue and a
consumer waiting for each other; state read before an await and used after it;
counters whose window rolls in the middle of what they count; books patched by
deltas of which one was lost; a ledger reconciled with an answer older than
itself; an inventory that does not see all fills. `PROJECT.json` lists each at its
line, with the properties that cover it.

## Modules

| Module | Models | Uses |
|---|---|---|
| `OrderDiff` | `diff()` as operators | |
| `DiffRounds`, `ExecutionProofs` | the reconciliation loop the diff is written for: quote, diff, apply, confirm | `OrderDiff` |
| `ExecutionActor`, `ExecutionProofs` | `apply()` against the exchange | `OrderDiff` |
| `RiskGate` | `check()` | |
| `QuoteLoop`, `ExecutionProofs` | one life of the process around the actor | `ExecutionActor`, `RiskGate` |
| `FillFeed` | what the user stream promises the position ledger | |
| `UserStream`, `UserStreamProofs` | the user gateway's reader, queues, fill consumer | `FillFeed` |
| `BookFeed` | what the market stream promises the quote engine | |
| `MarketStream`, `MarketStreamProofs` | gateway, book queue, book stores, the exchange's books | `BookFeed` |
| `Quoting` | quote engine, strategies, fee gates, skew, as operators | |
| `Positions` | positions and profit, as operators | |
| `Trading`, `TradingProofs` | quotes, fills, positions, inventories, registry changes | `Quoting`, `Positions` |
| `OrderLedger` | order records and reconciliation, as operators | |
| `Migrations` | `run_migrations()` by two processes | |
| `Session`, `SessionProofs` | lives of the bot: startup, recovery, heartbeat, crashes | `OrderLedger`, `Migrations` |
| `Relayer`, `RelayerProofs` | failover to the EOA, deployment of the Safe | |
| `FeeCache` | the cache, its requests, the exchange's rates | |
| `Catalogue`, `CatalogueProofs` | scanner, registry, subscriptions, fee tasks | `FeeCache` |
| `Redemption`, `RedemptionProofs` | `auto_redeem()` and its ledger | |
| `MC*` | constants for TLC | the module named |

Definitions whose comment starts with "Mutant of" are deliberate mistakes, kept
beside the definition they would replace. No action uses them; putting one in
place of its original makes TLC find the property violated that `PROJECT.json`
pairs with it, which shows that the property depends on that code.

### OrderDiff and DiffRounds

An intent is `[token, side, price, tick, terms]`. Prices are integers in units of
the smallest tick, so `abs(a - b) < tick + 1e-9` becomes "at most a tick apart";
`terms` stands for size, time in force and post-only, which `diff` compares for
equality. Placements are a function from the intent's position in Desired, which
keeps their order. `DiffRounds` starts from any book of `Books`, a list of orders
in ledger order, and lets the quote become any list of `QuoteLists` at will; a
round is one `diff` whose mutations all succeed: orders that stay keep their
places, placed ones come behind them. It is deliberately kinder than the process,
and asks whether the diff's two uses of "within a tick" (satisfied, and too close)
can keep it from settling. They can for a while: a kept order a tick off its
intent may be cancelled as a self-cross of the placement beside it, whose own
replacement meets the next such order a round later. With opposite quotes three
ticks apart one round settles; with two ticks it takes at most as many rounds as
there are quotes. With one tick, as far apart as Strategy A's last gate asks for, two
quotes of which one is filled replace each other in every round (`OneForTheOther`).

### ExecutionActor

`pc` says where `apply()` is suspended: the awaited cancel, a post, a backoff
sleep. `posts` holds requests until both sides are done with them, so a client
timeout may come before or after the exchange takes the order
(`PlacementFails` on a request that is still `sent`). `cancelTasks` are the
`ensure_future` cancels. `live` is the exchange's book of this account.
`accepted` is history. A tracker's `old` flag says that sixty seconds have passed
since its window started; the next `record_*` call then rolls it. An order id is
`<<batch, position, attempt>>`, which is what `OneOrderPerIntent` needs to tell
whose order it is.

Assumed of the exchange: a duplicate-id rejection leaves no order behind, ids are
unique, `cancel_orders` can be awaited, as the code does. `apply()` takes the
confirm-cancel mode from the first cancel's token; batches have one token because
the orchestrator makes them so, which `CancelsOwnToken` confirms.

### QuoteLoop

`QuoteLoop` extends `ExecutionActor`: `TakeBook` calls `Apply` in the step that
takes the event (nothing between the two suspends), `ResumeApply` is any step of
the suspended call. `consumer` has the state of both consumer tasks; an exception
in `apply()` ends the book consumer, and `gather(return_exceptions=True)` keeps
it quiet. `StopCalled` and the steps under `Stop` are the awaits of `stop()`;
`KillTakesEffect` is the `cancel_all` request, which runs in a thread and takes
effect whether or not `wait_for` still waits. `Boot` is the stretch of `start()`
behind its last await that suspends; the client is made in it, so that a signal before
it finds nothing to cancel with. `ImplementsActor`, the specification of `ExecutionActor`
without its fairness, is the abstract specification this module implements; no
refinement mapping is needed as its variables are those of the actor.

### UserStream and FillFeed

A frame is a list of events; the reader works it off one `put` at a time and
waits while the queue of that kind is full. An event is numbered by its place in
`sent`, the history of what the exchange sent. `Way` lists the stations an event
passes, from the handled fills back to the frames on the wire; `FillsInOrder` says
that along it the fills are in the exchange's order and, while no connection was
lost, all there.
When the socket breaks, frames that had come in are still read, the rest is lost,
and the reader reconnects when it is done.
`FillFeed` is the abstract specification: a set of fills under way, of which the
earliest is handled next; a break gives up some of the latest. `UserStream` implements
it with `UnderWay`, all fills at the stations behind `handled`, for the set: reader
and queue are stutters of the feed, only the consumer's last step is a delivery.

### Redemption

Every posted transaction is kept with what the relayer did and what the caller
was told; `timeout` is an exception for a transaction the relayer took or may
still take. `Restart` empties the ledger, which is a dict in memory. One task
calls `auto_redeem`, as in the tests. An alert that cannot be sent raises
nothing: `Alerter` catches it.

### MarketStream and BookFeed

A book is a set of levels (side, price); sizes are left out, so a delta is what it
adds and removes. The gateway keeps a level under a key: the price as a snapshot
spells it, or `str()` of the price in a delta (`KeyOf`). A frame is written in one of
`Spellings`, `Str` is what `str()` makes of it, and a local book is a set of pairs of
level and key, of which a delta finds those under its own key only (`Applied`).
What is emitted has the prices as floats (`Emitted`). `history` holds the states of the
exchange's book, the version of a book its place there. The gateway knows no versions:
`version` and `sound` in its local books are history variables. `sound` says that the
book came from a snapshot, and that since then no delta was missing or spelled
otherwise. `Break` cuts the wire anywhere, what came in is still read; `subscribe()`
and `connect()` meet in any order. `consuming` is the life of `_consume_book`, which
may end with any event (`TakeBook`): `apply()` raises, or `stop()` was called.
`Receive` is `_apply_and_emit` up to its `put`, which are the steps `Emit` and
`AskResync`. `BookFeed` is the abstract specification, which `MarketStream`
implements under the mapping of its `INSTANCE BookFeed WITH` (the view of a token is
the book the strategies last got, with its version and soundness): the view of a token moves
only to newer states of the exchange's book, is never crossed, and is that very
state while it is sound.

### Quoting, Positions and Trading

Prices are integers in basis points of a dollar, the four decimals the strategies
round to; averages and profits are exact fractions, pairs that are compared by
their cross products. The rounding of the code (half to even, cut to an integer)
is kept where a result is rounded.
`Desired` is `compute()`: A, B and C in this order, each under its gates, then
the reward band. `Trading` composes them: `HandleBook` lets the exchange accept
any of the quotes a book event states, `Fill` takes any part of an order,
`HandleFill` is `_handle_fill_event`, with the inventory only if the token has one
and the fill record under the order's id. `ScannerUpdate` replaces the registry
and drops inventories. `accounts`, `oversold` and `missed` are history: what was bought,
sold, paid and earned per token, the tokens of which a fill sold more than had been
bought, and those whose inventory lacks a fill. `AccountsBalance` compares the ledger's
position with these accounts, not with itself, so that a lost or doubled fill shows.
`Situations` are books and times in which the quotes are judged in every state,
besides the `Events` that drive it.

### OrderLedger, Migrations and Session

The ledger is a function from orders to states; a transition of an order with no
record does nothing, and none of a known one is refused. `Reconciled` keeps what
the exchange lists, closes what it does not, adds stubs. `Migrations` has a
process per runner: the bot and `scripts/migrate.py`; script and row are two
transactions, and a second row of the same version raises. `Session` puts lives of
the bot around both: a life begins with its migrations, recovers, is up, and dies
at any step; requests it sent may still be served. The caller records answers and
reports and recovers again after a reconnect, with an answer (`Answer`) that may be
older than the ledger it is applied to (`Reconcile`). Missed heartbeats let the
platform cancel all orders. `missed` and `astray` are history: closings and openings
the ledger had no way to learn of.

### Relayer

Calls and starts are processes. A request is on its way, taken, refused or not
answered; a failure without an answer (`Unreachable`) starts the outage clock or,
past the timeout, switches to EOA mode; both are shared by the calls that overlap.
An answer that is an error (`Refused`) and a connection that breaks otherwise or
answers with no JSON (`BrokenOff`) leave the call and touch neither.
Under EOA mode each call probes the relayer first. `lastSuccess`, `placed` and
`unanswered` are history.

A start's lookup (`GetDeployed`) finds the Safe, or reads "not deployed": rightly, or
because there was no answer, one with an error status, or one without an address; or
it raises. Its request may be taken, refused, never sent, or given up while it is under
way. `doubtful` is history: the starts that began while another was at work, were told
"not deployed" of a Safe there is, or gave up on their request before the relayer took
it. `DeployedOnce` says that of any two starts that deployed a Safe one is such a one.

### FeeCache and Catalogue

Time is counted in ticks of ten seconds, the timeout of a request. A request
remembers when it was sent; its answer is the rate of now or one the exchange had
since the request was sent (`past`, history).
`Catalogue` scans page by page a listing that may change between two pages; a page
that fails ends the scan with what there is. `Update` replaces the registry and
starts the warm-up of tokens without a rate, `Subscribe` ends it. `faithful`,
`failed` and `late` are history: whether the last scan saw one listing, tokens
whose last fetch failed, whether a refresh cycle took time.

## Runs

| Run | Instance | Checks |
|---|---|---|
| `diff_settles` | prices 1..5, books of up to 3 orders, quotes of up to 3 intents, those of Strategy A at least one tick apart, three rounds | `Settles`, `QuietMeansQuoted`, `OneForTheOther` |
| `actor_safety` | one token, two recovered orders, two batches, two attempts | `OneOrderPerIntent`, `NoCrossWhenAwaited`, `RejectionsBounded` |
| `loop_safety` | one token, two book events | `LoopTypeOK`, `OneMoreEvent`, `ImplementsActor`, `EveryEventTaken` |
| `loop_tokens` | two tokens, one book event, one fill, up to exit | `CancelsOwnToken`, `ExitsUnlessWaiting` |
| `loop_leftover` | as `loop_tokens`, one token | violated: `NothingOpenAfterShutdown` |
| `stream_fills` | queues of one place, frames of up to three events, six events, one lost connection | `FillsInOrder`, `FillsGetThrough`, `ImplementsFillFeed` |
| `redeem_once` | two conditions, two calls of three attempts, one restart | `RedeemedOnce`, `CallsEnd` |
| `trading_books` | an ordinary and a neg_risk market, two book events, three fills, three scans | `AccountsBalance`, `InventoryBracketsPosition`, `OrdinaryMarketsAreNeverSold`, `QuotesRespectBook`, `QuotesStayApart`, `GtdLivesInItsWindow` |
| `market_feed` | two tokens, three books of which one opens, queues of one place, two spellings, two changes, one lost delta, one lost connection, one frame on the wire | `TypeOK`, `CrossedMeansMissed`, `SubscriptionsReachSocket`, `ImplementsBookFeed`, `CatchesUp` |
| `session` | one order, two migrations, two lives, one lost stream, two recoveries besides startup's | `TypeOK`, `RunsAccounted`, `GhostsExplained`, `OrphansExplained`, `OnlyRecoveryIsUndone` |
| `relayer` | three orders, two starts, an outage timeout of two ticks, four ticks; orders and starts are interchangeable | `PlacedTwiceOnlyUnanswered`, `DeployedOnce`, `FailoverNeedsOutage` |
| `catalogue` | two tokens, four listings, pages of one market, a registry of one market, TTL 3, refresh 2, requests of up to one tick, five ticks, two scans, two other events | `ServedRateWasCharged`, `RegistryIsBest`, `RegisteredAreSubscribed`, `RegisteredHaveRates` |

Each module states its properties with the code they are about. Read together
they say this.

- *Orders.* The diff settles on exactly the stated quote, in one round if opposite
  quotes are three ticks apart, and in as many as there are quotes at two; at one tick
  it need not settle at all; an intent
  gets at most one order, through retries and late acceptances; an awaited cancel
  leaves nothing to cross; the process does to the exchange only what the actor may
  do, acts on at most one event after `stop()`, and then exits unless a consumer
  waits for an event that never comes.
- *Fills and books.* No fill is lost, doubled or overtaken on a connection that
  holds, and each gets through unless the reader is stuck behind a queue nobody
  empties. The strategies see states of the exchange's book in order, never crossed,
  and exact until a delta is missing or spelled otherwise than the snapshot was. A
  subscribed token gets its snapshot and catches up with the newest state, unless its
  book was spoiled in one of these ways, the newest delta was lost, the reader is stuck
  or the consumer has ended.
- *Money.* A position is never short and never lacks a bought share; realised profit,
  cash, cost and shares balance for any order of partial fills until one oversells.
  The inventory bounds the position from both sides as long as it
  saw every fill. Quotes stay off the book and apart at every skew, and alive, but
  for the exceptions the properties name, which are listed under "Divergences".
- *Failures.* After crashes, lost streams and stale recoveries an order open on one
  side only is explained by something on its way or beyond knowledge; what a report
  ended stays ended but for an answer older than it. The EOA takes over only when no
  call has had a success for the configured time; a refusal in between is an answer,
  but does not reset that clock. Orders are doubled only behind a request that timed
  out, redemptions only behind one without an answer, Safes only by starts that
  overlap, are told "not deployed" of a Safe there is, or give up on a request.
- *Catalogue.* The registry is the best of what an undisturbed scan saw; its tokens
  are subscribed and have rates, unless a fetch failed or a refresh cycle took time;
  a rate that is served was charged at most TTL and a request ago.

`loop_leftover` is violated by what the code does: FR-211 and the shutdown
requirement of the PRD ask for no open orders after the kill switch. `stop()`
cancels first and lets the consumer finish afterwards; its placement lands behind
the cancel.

Deadlock is not checked: behaviours end, by the bounds or because the process
exits.

Why the bounds are enough. Three orders and three intents are the least at which orders
compete for an intent, intents for an order, and kept orders stand in the way of
placements one after the other, which costs a third round; five prices hold two quotes
three ticks apart with room outside. A second batch is needed for confirm-cancel mode,
which the first one's rejections bring about; a second attempt shows retries, a third
adds only one more of the same (the theorems hold for any number). Two book events are
one in hand and one taken after `stop()`; a queue of one place is full at once, and the
1000 of the code only delays that. Redemption uses the code's three attempts. Two
changes of a book, one of them lost, are the least that leave a local book crossed, or
wrong and not crossed; the books of two bid and two ask levels show both. Two spellings,
of which `str()` makes one, are the least at which a delta misses the level it is about;
one frame on the wire is the one that outlives a lost connection, the exchange sends the
next when it was read. Two book events and three fills let the bot buy in parts, be
skewed, and sell on the neg_risk market what it does not hold; the situations put books
from one tick to very wide (the gateway emits no locked one) and times on both sides of
the edges of the windows in front of every inventory so reached. One order passes
through every state a record has, and two lives, a drop and two recoveries are enough
for each way ledger and exchange come apart; migrations are two, so that one can be
applied and the next not. Three calls are a failure, a success that overtakes it and a
call behind both. A registry of one place lets tokens push each other out and back in;
TTL and refresh period keep their order of size. The safety properties of all passing
runs are also proved without any bound.

## Fairness

Only the process's own tasks are fair. `WF(Resume)`: every await of `apply()` ends, as
the HTTP client answers or raises and sleeps end. `WF` of the two consumers, of
`stop()`, of startup and of exit: asyncio runs every task that is ready. `WF(Reader)`
and `WF(FillConsumer)` in `UserStream`, `WF(Reader)` and `WF(TakeBook)` in
`MarketStream`, `WF(Resume)` in `Redemption`: the same. `TakeBook` is enabled only while
the consumer lives, so that its fairness promises nothing of one that an exception has
ended. `WF(Service)` in `MarketStream` has the exchange serve the subscriptions it was
sent, with a snapshot each. Nothing forces the exchange to accept, the relayer to
answer, books to change, events, signals or time windows to come. `Trading`, `Session`,
`Relayer` and `Catalogue` state safety only and no fairness.

## Proofs

All theorems hold for every value of the constants that satisfies the named
assumptions, and are checked by TLAPS. The bounds on events are among the
constants: a theorem for every bound is one about every finite behaviour. Each
safety property of a passing run, and each refinement, is a theorem.

The assumptions, at the constants they are about: bounds are natural numbers, queues,
attempts and pages positive. `RoundsAssumption`: the intents of a list have one tick
(one market), the orders of a book distinct ids (keys of the ledger).
`SettingsAssumption`: sizes are positive, the halt threshold at most 1.
`WindowsAssumption`: Strategy A stops before a resolution no later than the expiry's
buffer; both are two hours in `config/settings.py:56` and `:85`, and nothing in the
program compares them. `MarketsAreTyped`, `SituationsAreTyped`: prices and times are
integers, ticks positive. `MarketsAssumption`: `neg_risk` of a market does not change.
`CatalogueAssumption`: the refresh interval, `max(10, TTL - 5)` seconds, is at most the
TTL, which holds from ten seconds on (the default is 30); `ListingsAssumption`: a token
belongs to one market. `MarketAssumption`: the exchange's own books are uncrossed, and
`str()` of a spelling is a spelling. `ActorAssumption`: quotes and recovered orders of a
token are the token's.

`ExecutionProofs`, of the actor:

- `OneOrderPerIntentHolds`. The invariant alone is not inductive: one must know
  what an unfinished request may still do. `PlacementInv` adds that a placement
  has at most one request in `posts`, that a request beside an accepted order of
  its placement is that order's, and that nothing is in flight or accepted for a
  placement that is still to do or sleeps before its retry.
- `TypeCorrect`. `TypeOK` with `BatchInv`: the cancels of a batch are recovered
  orders, and no recovered order outside them crosses one of its placements.
- `NoCrossWhenAwaitedHolds`. `BatchInv` follows from a lemma about `Diff`
  (`DiffCancelsCrossed`, FR-210a: an order the batch would cross is among its cancels).
  `LiveInv` adds that in a batch whose cancel was awaited its cancels are out of
  `live` once the await is over, and that what rests of the batch is one of its
  placements.
- `RejectionsBoundedHolds`. `WindowInv` counts the rejections the placement in
  progress has caused (`attempt`), so that a roll in the middle of a placement is
  paid for by the "+ 1".

Of the loop around it:

- `LoopTypeCorrect` (`LoopInv`): the actor's types through the refinement, and what
  the consumers, the stop sequence and the batch may be at once.
- `LoopImplementsActor`: the initial states agree, and each action of the loop
  is a step of the actor or leaves its variables alone; `KillTakesEffect` and a
  failed boot map to `OrdersLeave`.
- `LoopOneOrderPerIntent`, `LoopInheritsActor`: the actor's three safety properties,
  inherited through it.
- `OneMoreEventHolds`: strengthened (`LateInv`) with where the consumer is once
  `_running` is false (a consumer that took its late event never returns to `get`).
- `CancelsOwnTokenHolds` (`CancelInv`): every batch comes from an event of its token.

Of the rounds, for any books and quotes, from `ListsInv` (finite lists, distinct ids):

- `QuietMeansQuotedHolds`: a diff that asks for nothing is a one-to-one assignment.
- `SettlesHolds` from `SettleInv`: with `InTheWay`, the orders within a tick of an
  opposite quote, their number, the rounds and one more never exceed the number of
  quotes while the diff has not settled (opposite quotes two ticks apart). Facts
  about `Diff`'s greedy assignment, a recursive function over positions, are proved
  by the least position at which they would fail, as the induction theorems of the
  library cannot be instantiated.
- `OneForTheOtherHolds`: with two quotes a tick apart and one order, the order is kept
  for the quote it meets, then cancelled as a self-cross of the placement for the
  other. What is placed meets the other quote and is in the way of the
  first: the situation has come back with the two quotes exchanged.

`UserStreamProofs`: `FillsInOrderHolds` and, from the same invariant,
`UserStreamImplementsFillFeed`. The invariant is about the whole `Way`: its
events ascend, all are in `sent`, which numbers by place, and no fill is missing while
no connection was lost. Each step of the reader or the consumer does one of five things
to a way (moves a head to the next station, drops an event that is no fill, removes
an empty station, adds one of larger numbers, cuts stations off), for each of which
a lemma says that the order is kept. For the refinement the stations become sets
(`Held`); the order along them makes the consumer's fill the earliest under way, and
the fills of the frames that a break cuts off the latest.

`MarketStreamProofs`:

- `MarketStreamImplementsBookFeed` and `CrossedMeansMissedHolds` from `FeedInv`,
  which follows a book from the wire to the local book, the reader's hand, the
  queue and the view: versions of a token never decrease along that way and never
  pass the exchange's, each delta on the wire is the difference of two neighbouring
  states, and what is sound anywhere on the way is the exchange's at its version. A
  sound local book has all its levels under one key (`KeptUnder`), which is what lets a
  delta of that key change it as the exchange's own book changed.
- `SubscriptionsReachSocketHolds`, and `TypeCorrect` from `CountInv` (a counter is
  at its threshold only in front of the resync queue) and `ServiceInv`.

`TradingProofs`, all six theorems from `TInv`:

- `InventoryBracketsPositionHolds`. The bracket must also be known of tokens that
  have no inventory (their position is empty unless they are `missed`), or it
  would be lost when the scanner drops a token and a book event brings it back.
- `OrdinaryMarketsAreNeverSoldHolds`. On a market that is not neg_risk the `no`
  shares stay 0, so that whoever holds enough to sell is at full skew
  (`FullySkewed`), which is one of the gates (`GatesKeepSkewAway`); the other
  strategies only buy (`WhoSells`). It needs `haltThreshold` to be at most 1 and
  `orderSize` positive (`SettingsAssumption`), and `neg_risk` not to change between
  scans (`MarketsAssumption`).
- `AccountsBalanceHolds` (`Accounted`): each token without a position has an empty
  account; until a token is oversold its shares are what the fills left (`Exact`), and
  a purchase and a sale keep the balance of fractions (`PurchaseBalances`,
  `SaleBalances`, one polynomial identity each); afterwards the floor at zero only
  raises the shares above that difference.
- `QuotesRespectBookHolds`, `QuotesStayApartHolds`, `GtdLivesInItsWindowHolds`, for every
  book, time and inventory: every quote is one of four signals after the skew
  (`WhatIsStated`); the skew moves the two quotes of A together, so that they stay
  symmetric to a shifted midpoint (`AroundTheMidpoint`), and the reward band keeps
  their order (`Banded`).

`SessionProofs`:

- `GhostsExplainedHolds`, `OrphansExplainedHolds`, `OnlyRecoveryIsUndoneHolds` from
  `SInv`. The invariant relates four views of an order: its request, the reports
  under way, its record and the exchange. Its core: the report that closes an order
  is the last one of it; as long as any is under way for an order that is not open,
  its closing is too; of an order a report has ended nothing more is reported; and
  an order that an answer of recovery lists although it is closed by now is closed in
  the ledger, in `missed`, or has its closing under way.
- `RecoveredAreListed`, of the operator `Reconciled` for any ledger and answer: the
  records open afterwards are the listed ones that had not ended, and the same answer
  again changes nothing.
- `RunsAccountedHolds` and `TypeCorrect` from `MInv`, which counts the applications
  of a script against its row, the runners between script and row, and the runs
  that ended there, and from `Beat`.

`RelayerProofs` (`RInv`): `FailoverNeedsOutageHolds`, as no outage starts before the
last success; `PlacedTwiceOnlyUnansweredHolds`, as the relayer places only what it
takes, and a call on its way to the EOA client had no answer to that;
`TypeCorrect`. `DeployedOnceHolds` from `DInv`, about the starts that are not in doubt
(`Clear`): one of them at a time is at work, a request the relayer may yet take is
awaited, and only one of them has a request that is taken or may be (`OneAtATime`).

`CatalogueProofs`:

- `RegisteredAreSubscribedHolds`, by itself inductive with where the scan is.
- `CTypeCorrect`: the types of caches, requests and scan.
- `ServedRateWasChargedHolds` (`EntriesInv`): an entry holds the rate of now or one of
  `past` that ended at most the length of a request before the entry was made.
- `RegisteredHaveRatesHolds` (`RatesInv`): while no cycle took time, each registered
  token failed, is asked for by the warm-up, or has an entry that outlives the next
  wake-up of the refresh loop (`Covered`).
- `RegistryIsBestHolds` (`BestInv`): an undisturbed scan holds exactly the entries of
  the positions before its offset.

`RedemptionProofs` (`IInv`): `RedeemedOnceHolds`. Two taken transactions of a
condition need to know that the ledger has every redemption that was answered, that
the one awaited is the only one whose outcome its caller does not know yet, and
that every earlier one was refused or given up. `TypeCorrect` gives the types.

The types of actor, relayer, catalogue and redemption are theorems that no run
checks separately.

Only model-checked are the five liveness properties (`EveryEventTaken`,
`ExitsUnlessWaiting`, `FillsGetThrough`, `CallsEnd`, `CatchesUp`): they rest on fairness
and on what is enabled, which is beyond the prover.

## Divergences

What the models showed of the code beside its documents, apart from the violated
run. Properties that hold name these as exceptions; none is a verdict on which side
is right.

- "The minimum mutation set from Desired → Confirmed" (`execution_actor.py:96`): of
  Strategy A's two quotes a tick apart, which its last gate permits, one is missing at
  any time once one was filled: each round cancels the one that is open for crossing
  the one it places (`OneForTheOther`).
- The gate is given a fresh `RiskState()` for each event
  (`core/orchestrator.py:530`) and the ledger never learns of placements, so that the
  total exposure of FR-301 is held against each order by itself.
- "Consume events from all queues until `_running` is False" (`:429`): a consumer
  that waits in `get()` does not notice (the exception of `ExitsUnlessWaiting`).
- Behind the thousandth ack or cancel the user stream's reader waits for ever
  (that of `FillsGetThrough`), and behind the hundredth resync the market stream's
  (that of `CatchesUp`): nothing takes from those queues.
- `core/execution/market_stream.py:12` promises "always a complete, self-consistent
  snapshot"; after a reconnect, or past a lost delta, an uncrossed mixture of books is
  emitted (`BookFeed`'s unsound views).
- "Crossed book signals a missed or out-of-order delta" (`market_stream.py:199`): a
  snapshot is kept under the prices as they are spelled (`:157`), a delta under `str()` of
  them (`:172`), so that a frame that spells a price otherwise leaves a stale level, and
  a crossed or a wrong book, with no delta missing (`KeptUnder` in `Applied`).
- "`deploy()` is called only once" (`relayer.py:94`): a lookup answered with any status
  but 200 reads "not deployed", as one without an answer does, and starts may overlap
  (`doubtful` in `DeployedOnce`).
- The redemption ledger is "across restarts" by its docstring and a dict in memory.
- While there are no NO shares the skew is 1 at any price, above the halt threshold, so
  that from the first BUY fill on Strategy A quotes no more on an ordinary market
  (`OrdinaryMarketsAreNeverSold`). Nothing sets `yesPrice`; a SELL adds NO shares and
  takes no YES shares (`InventoryBracketsPosition`), although the comment at
  `core/orchestrator.py:479` takes `yes_shares` for the net count.
- A GTD quote before a game is given the two hours of the resolution, and in the
  last two hours is born expired (`GtdLivesInItsWindow`). Strategy C expires by its own
  default of two hours, whatever `GTD_RESOLUTION_BUFFER_MS` says (`SnipeBuffer`).
- Strategy C's bid for a market all but lost is the other token's price; the reward
  band follows a midpoint of the last scan, and can push a quote over the book (both
  in `QuotesRespectBook`).
- Strategy B's total budget is compared with a sum nothing raises.
- A fill for a token without an inventory is missed by the skew (`missed`).
- A failed page makes a partial list the registry (`faithful` in `RegistryIsBest`);
  among equal rewards tokens without a cached fee rank first.
- A refresh cycle is sequential, and with slow fetches longer than the TTL (`late` in
  `RegisteredHaveRates`).
- Recovery comes before the user stream is connected, and the closing of an order
  the ledger does not know yet is dropped: an older answer then makes it a ghost
  (`missed`). `record_submitted` behind a recovery's stub reopens a record
  (`OnlyRecoveryIsUndone`).
- The heartbeat is a GET, and nothing restarts its task after two misses.
- Two runners of the migrations collide on the primary key of a version, after both
  applied its script.

## Not modelled

Listed in `PROJECT.json` with the reason. In short: `DRY_RUN` (nothing leaves the
process), formatting, logging, alerts, metrics, credentials, HTTP and database
calls, operator scripts. Within the modelled parts: `order_timestamps`, which
only the stale-quote loop reads; that loop, whose list of active orders stays empty;
`is_resyncing()`, which is false whenever the event loop runs; a second signal during
shutdown; frames that spell their own levels in several ways; malformed frames, on
which the handlers of both gateways raise in the middle, so that the rest of the frame
is lost and the reader reconnects.

Code without a caller in the program is left out where the tests give it no caller
with a state worth following: the ranker, the sports adapter, the parameter service,
`should_resume`, markouts, the fill buffer, simulated fills, `record_miss`,
`should_exclude`, `check_deviation`, `invalidate` and `fetch_fee_rate` of the fee
cache, `unsubscribe`, `start_resync` and `complete_resync` of the market stream, the
scanner's watchlist and `run_forever`, `filter_intents`.

Three hazards of `PROJECT.json` are beside these boundaries and have a note in the
place of a property.

## Plan

1. The loop with its inventory: `QuoteLoop` and `Trading` composed, once the ledger
   is written by the handlers.
2. Callers of the code that has none yet, as the program gains them: the ledger's
   records, `auto_redeem`, the failover, the scanner's watchlist.
