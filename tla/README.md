# d8x-trader-backend: TLA+ specifications

Specifications of the concurrent core of the D8X trader backend, model-checked
with TLC and, where stated, proved with TLAPS. Every definition is translated
from the TypeScript under `src/packages`; `PROJECT.json` gives, per definition,
the lines it stands for (`map`), the runs, a mutant per property (a plausible bug
that the property catches), the hazards and the findings.

Contents: 1 the system, 2 modules and code, 3 runs and bounds, 4 fairness,
5 proofs, 6 what the runs found, 7 what is not modelled, 8 plan.

## 1. The system

Two Node.js services share nothing but the chain. Each is one event loop:
code between two `await`s is atomic, and whatever is called without `await`
goes on by itself. That is where the hard behaviour comes from.

**history** (`packages/history`) copies contract events into SQL tables and
serves them. **api** (`packages/api`) serves exchange data over HTTP and relays
events and prices to websocket clients.

| component | state | operations | hard behaviour | must hold |
|---|---|---|---|---|
| chunked log scan (`historicalDataFilterer.ts`) | cursor, chunk length, back-off | `genericFilterer`, `saveEvents` | chunks shrink and grow with errors; one `try` around query and saving | no block swallowed at a chunk boundary, chain order, termination |
| ingestion (`main.ts`, `backfillRunner.ts`, `gaps.ts`, `listeners.ts`, `db/*`) | table rows with the flag `is_collected_by_event`, watermarks of a run, guard `backfillRunning`, timers | initial run, redundancy run, gap filler, live listener, inserts | inserts are never awaited; watermarks are read while rows change; the gap filler ignores the guard; crashes | nothing missing behind a watermark; everything stored in the end |
| history connection (`main.ts`, `listeners.ts`) | WS and HTTP provider, `lastEventTs`, `isSwitching` | `resetRpcFunc`, `listen`, heartbeat | switching while the old provider hangs | events arrive on one provider; a dead one is replaced |
| names, earnings, withdrawals (`db/set_oracles.ts`, ...) | one table each | find-then-create inserts, repairs | un-awaited inserts that read each other's rows | intervals do not overlap; signs and flags right |
| RPC queue (`rpcManager.ts`) | URL queue, health, time of last probe | `getRPC` | callers share an array around an `await` | no URL lost; a call gives up only after trying |
| websocket subscriptions (`eventListener.ts`, `D8XBrokerBackendApp.ts`) | two maps client/perpetual, order-book contracts, provider | subscribe, unsubscribe, close, `resetRPCWebsocket` | the provider is replaced while clients come and go | the maps agree; each subscribed perpetual is listened to, once |
| exchange-info cache (`sdkInterface.ts`) | redis hash, two in-flight promises, three time stamps | `exchangeInfo`, `cacheExchangeInfo`, `refreshProxyInstance`, `updateExchangeInfoNumbersOfPerpetual` | read-modify-write across awaits | converges to the chain; refreshes limited |
| index prices (`indexPriceInterface.ts`, `eventListener.ts`) | prices per index, premia per perpetual | feed messages, `UpdateMarkPrice` | handlers overlap at their reads; one index serves several perpetuals | clients are told what the service has; nothing is taken back |
| event relay and heartbeat (`eventListener.ts`, `D8XBrokerBackendApp.ts`) | ring of ten hashes per handler, market-order counts | event handlers, heartbeat | duplicates, missed events, deafness to one contract | no early repetition; a deaf connection is noticed, a good one kept |
| block search (`utils.ts`) | two ends | `calculateBlockFromTime` | bounded number of calls, equal block times | never too late, not much too early |
| the rest | none to speak of | REST routes, brokers, start-up, metrics, formatting | | |

Interactions. The ingestion runs call the scan; the scan calls back with each
entry; the callback starts an insert. Timers start runs, rows decide what a run
skips. In the api, both main loop and SDK calls take URLs from the RPC queue;
the main loop resets the event listener's provider with one of them; websocket
messages ask the exchange-info cache for a perpetual and then subscribe; chain
events patch the cache and are relayed to subscribers.

## 2. Modules and code

```
ScanContract  <--implements--  ChunkScan            (scan, its abstract contract)
     ^ abstracted by
HistoryIngest                                       (all runs over the plain tables)
EventLog <- PerpetualNames, LiquidityTables
                 ^ composed by
            HistoryTables                           (runs over the tables that read rows of other events)
HistoryConnection                                   (why the listener hears an event or not)
BlockSearch                                         (where a scan of history starts)
RpcManager      Subscriptions      ExchangeInfoCache
DuplicateFilter <-- IndexPrices                     (prices told to clients)
EventHeartbeat                                      (why the provider of Subscriptions is replaced)
```

**ScanContract** is what callers of a scan rely on: entries of a block range are
handed over in chain order, some may be given up, the scan finishes or throws.

**ChunkScan** is `genericFilterer` with `saveEvents`. `next` and `delta` are the
cursor and chunk length, `wait` the back-off, `buf` the entries of the chunk being
saved, `known` the blocks whose timestamp it has. `QueryFail` has one branch for each class of error the catch block
distinguishes (payload too large, rate limit, other); `GetBlockRetry` and
`GetBlockThrow` are the retries of `getBlock` in `saveEvents`. `dropped` and
`streak` are history variables.

**HistoryIngest** has the chain as a log of events, `row` for the tables,
`tasks` for the inserts that are in flight, and one record per runner: the
guarded one of `main.ts` and the gap filler. A run reads the watermarks table by
table (`ReadWatermark`), picks its block range (`StartScan`), and hands events to
inserts (`HandNext`); a scan is abstracted to ScanContract (`GiveUp`). Trades are
upserted; funding payments are looked up and then created (`FindRow`,
`CreateOrUpdate`); settlements and token flows follow one of the two. `Redundancy`,
`GapTimer` are the timers of `main.ts`; the gap filling chained to the initial run starts in the
step that ends that run (`EndMain`). `Crash` is any exit of the process. Identical inserts in flight are merged, since they write the same
values; `fresh`/`NewBlock` say whether the newest event is in the newest block, which the
last query of a scan may or may not reach.

**EventLog** describes the events that need more than a position: kind, transaction,
block time, what they are about and the wallets they name.

**PerpetualNames** is `set_oracles.ts`. An insert is a record in `naming` that goes from
query to query (`at` = find, pred, adjust, create); `AlignTimestamps` is the SQL statement
that repairs the intervals, with the choice LEAD has when two names begin together.

**LiquidityTables** is `estimated_earnings.ts` and `liquidity_withdrawals.ts` with the
handlers that call them. A handler is a record in `booking` that goes through its
legs, each a find followed by a write; the lookup is by transaction and type, the
update by pool and transaction, as in the code. The number of an event stands for
its amount, so that rows show which event they are from and with which sign.

**HistoryTables** composes the two with the listener, the guarded runs, the scans of
transfers that nobody awaits (`p2p`) and the final alignment. What HistoryIngest already
has (window, gap filler, watermarks read one by one) is left out here: a run reads its watermarks at once.

**HistoryConnection** is `resetRpcFunc` with the heartbeat timer. A provider is
`<<"WS", n>>` or `<<"HTTP", n>>`; `pc` names the await at which a reset is ("leave":
destroying the websocket after moving to HTTP; "replace": destroying it before a new one is
created; "probe": waiting for a first block). It runs on its own: HistoryIngest and
HistoryTables let the listener hear any subset of the events in `Heard`, which is what
any behaviour of the connection amounts to for the tables.

**BlockSearch** is `calculateBlockFromTime` on a chain of block times: `latest`, `left`
and `right` with their times as in the code, `calls` the loop counter. A step is one RPC
call, which may fail. The history filters use its left end as their first block.

**RpcManager** is `getRPC`/`cycleRPCs` with any number of calls under way. `Take`
pops the last URL; one whose health is unknown or old is held (`pc = "probe"`)
while it is tested, and only then put back. `tried` is a history variable: the URLs tried
since a call began, by it or by the calls under way beside it, and those in their hands.

**Subscriptions** has the two maps of the event listener (`subs` and
`subscriptions`, with their key sets `clients` and `open`), and the order-book
handlers on the current provider: `attached` through the latest contract of a
symbol, `stray` through an earlier one that nothing refers to any more.
`Message`/`Subscribe` are the two halves of the websocket handler around its
await; `ResetStart`, `Connected`, `ResetDone`, `ResetFails` those of
`resetRPCWebsocket`.

**ExchangeInfoCache** models redis commands as node-redis runs them: they take
effect in the order issued and their replies come in that order (`replies`), so a
continuation runs when its entry reaches the head of the queue. `job` is the pull
in flight, `renewing` the proxy renewal in flight, `req` the `exchangeInfo` calls.
The three time stamps are abstracted to "recent or not" (`query`, `mutex`,
`cooldown`), which age at any time. A perpetual's numbers are one version.
A turn of the event loop handles one or several replies, or one other event; then the calls
whose await of `refreshProxyInstance` is over go on one after the other (`RenewalSkipped` or
`ProxyRenewed`, then a `Resume` for each), each with the look at the mutex it had before the await.
Turns take no time: that a second ends between two replies of one turn, so that one call renews
the proxy and the next is told that none is due, is left out.

**DuplicateFilter** has the two operations of `grantEventControlPassage` on one ring.
**IndexPrices** uses it for `UpdateMarkPrice`. A feed message goes through `inbox`,
`fetching` (one read of redis under way, answered in the order asked, the indices
still to read and those read) and `ready`, the await before the broadcast; event handlers run
between any of these. A price is the record of what it was computed from: index value,
premium, and how often the 1+x of prediction markets was applied. `told` is what clients
were last sent. An event of a perpetual deployed after the start ends the process (`Restart`).

**EventHeartbeat** has the two counts and the age of the last event and of the counts, abstracted
to "more than ten minutes". Which contracts are heard is a set, so that a connection may be deaf
to one of them; `sets` is the number of order-book handler sets, which Subscriptions shows to be
one or two. `skewed` is a history variable: some event was missed, counted twice, failed, or is a trade in a
perpetual nobody follows, since the counters were reset.

Each `MC*` module only instantiates its specification; the `.cfg` files of the
same name give the constants. Definitions marked "Mutant" in the modules are not
part of a specification: they are the altered forms that the properties catch.

## 3. Runs and bounds

| run | shows | bounds |
|---|---|---|
| `scan` | `Accounted`: every entry before the cursor has been handed over, is in the chunk being saved, or was in a chunk whose saving threw. `InChainOrder`: the entries handed over form a sequence in chain order without repetition. `ThrowsOnlyAfterBackoff` (five failures in a row), `Terminates`, and `ImplementsContract` | five entries in blocks 1-13, two in one block, chunks of 2 to 8 blocks: chunk boundaries fall before, on and after entries; up to seven failures, so that a back-off can run out and start again |
| `ingest` | `NoSilentHole`: behind a backfilled row nothing is missing that is not stored, in flight, ahead of a run, or recorded as failed. `BackfilledStays`: a confirmed row stays confirmed in tables that find before they create. `EventuallyStored`, whatever the listener misses and wherever a crash hits | two tables with different write policy and watermark, three events (the third makes a row behind which two may be missing), window 2 so that an event can fall out of it, one crash |
| `ingest_gaps` | `NoSilentHole` with a gap filler that overlaps the guarded runs and one failure of any kind; `GapsHeal`: after it, gap detection stores what is missing between two confirmed rows | one table, three events, threshold 1: one missing event in the middle is the smallest gap |
| `tables` | `SharesTrue`: rows of added and removed liquidity keep wallet, amount and sign. `NamesChained`: in the end the intervals of a perpetual's names follow one another. `RemovalsBooked`: a removal in the earnings gets its withdrawal row. All with one failing query, scan or run, or an exit anywhere | two names of one perpetual, and a transaction that removes liquidity and transfers shares (two types of event under one hash); two inserts in flight, that is every pairwise interleaving |
| `tables_missed` | violation of `BackfillPicksUp`, see 6 | a transfer the listener misses and an addition it hears while no backfill runs; the times are further apart than the search for the first block may be early (6 hours) |
| `connection` | `ListensToOpen`: the listener is never on a destroyed provider. `ReplacedDestroyed`: a replaced websocket provider was destroyed or hung. `Recovers`: blocks arrive again and again | exit after three new providers (100 to 200 in the code), four faults: enough for every await of two consecutive resets to meet one |
| `rpc` | `Conserved`: no URL lost or duplicated. `FailsAfterAll`: a call gives up only when every URL was tried since it began, by it or by a call beside it, or is in the hands of one. `CallsEnd` | three URLs, two calls |
| `subs` | `IndexSound`, `IndexComplete`: the two maps agree. `SubscribersHeard`: after a complete reset each subscribed perpetual is listened to. `AtMostOneStray`: an event is delivered at most twice | two clients, two perpetuals, one trader, two resets, one failing registration; clients are symmetric |
| `cache` | `HandlersFindContent`: no handler parses a missing copy. `LateCallsJoin`: a call whose look at the mutex is out of date joins a pull and starts none. `Converges`: once events stop, the copy becomes and stays what is on chain | two perpetuals, one of them possibly deployed later, two versions, two clients |
| `blocks` | `SinceCovered`: what happened at or after the time asked for lies at or after the block found. `NotTooEarly`: blocks before it are within the precision, or fewer than the chain over 2^calls | all chains of 1, 2, 3, 5 and 8 blocks with gaps of 0, 1 or 4 and every time before, on, between and after the blocks; two calls and a precision of 3, so that the loop ends for either reason |
| `heartbeat` | `AlarmHasCause`: counts condemn a connection only if an event was missed, repeated or foreign, or half of the orders wait. `HeardAgain`: while market orders are posted and executed, both contracts are heard again and again | three open orders, counts up to ten: twice the smallest number that is compared (five, as in the code) |
| `prices` | `ToldCurrent`: what clients were last told of a perpetual is what the service has, or a handler is about to tell them. `PassedOnce`: an event passes the filter again only after as many others as the ring holds. `FeedReaches`: once the feed is quiet, its values have been sent | four perpetuals on two indices, one deployed later, two prediction markets on one index; two changes of each index, four events of which two have the same sum, ring of two, one failing read |

The bounds on failures (`MaxFaults`), crashes, resets, versions, inserts in flight and
log length are constants with a comment "bound"; the other constants are parameters of the
code (`Window` 30 days, `GapWindow` 7 days, `Lookback` one hour or none,
`Precision` six hours of block search), scaled to positions in the log. HistoryIngest has one bound on
timing, `InTime`: while the initial run scans, the chain grows by at most `GapWindow`. The code has no such
limit, but the gap filling that follows looks back seven days from its own start: after a scan that took longer it
could confirm rows behind which lie events that were mined during the scan and missed by the listener,
and redundancy runs would skip them. In `ingest`, which has no gap filler, `GapWindow` is the length of the log and
the bound restricts nothing.

`NoSilentHole` says "recorded as failed" and `GapsHeal` "or the gap is no longer
visible" because the code allows both: a failed insert below the watermark is not
tried again by redundancy runs, and a late live upsert of a trade sets the flag of
a backfilled row back.

The runs of ChunkScan, BlockSearch, EventHeartbeat and IndexPrices leave the types to section 5.

Deadlock is checked except in `scan` and `blocks`, where a scan or search is over at some time, in
`subs`, where all clients may have closed, and in `prices`, where feed and events are used up.

## 4. Fairness

A Node.js process runs every continuation that is ready, so steps that only
wait for a reply, a query or a timer are weakly fair: inserts, runs and their
timers, getRPC's steps (a probe ends within its timeout), redis replies. A
stopped process is started again by its container. Nothing forces events to be
mined, the listener to hear them, or a client to subscribe. Strong fairness is used
where something is only possible now and then and must succeed at some time: the gap timer
(which must find the guard released), and in the cache the SDK query and the renewal of the
proxy, which may fail any number of times, and the ageing of its time stamps, which happens between
two turns. In `tables_missed` (`FairScans`) it is also the scan of transfers, which the bound on inserts in flight
may delay again and again. In HistoryConnection a block is strongly fair:
the listener's provider may change, and the heartbeat may find it stale, again and again,
but a provider that works delivers a block well within the minute between two
heartbeats, while the awaits of a reset are bounded by timeouts of 10 and 30 seconds. In
HistoryTables each stage of each event's insert is weakly fair by itself, since every query returns. `Converges` also needs clients that
keep asking, because only a request starts a pull. In IndexPrices the handlers of the feed are
weakly fair, in EventHeartbeat the main loop's heartbeat and the passing of time; the reset is strongly
fair, because it may time out, but not for ever. `HeardAgain` has the market as its premise: orders are
posted and executed in followed perpetuals whenever that is possible again and again, for
without traffic there is nothing to compare.

## 5. Proofs

Every invariant and every action property of the runs is a theorem, for all values of the constants. Eight
modules hold the proofs; each theorem follows from an inductive invariant (`IInv` or a name
that ends in it), which TLC has checked on the run's instance before it was proved.

`ScanProofs`, ChunkScan (any log, range, chunk bounds and number of failures). The
invariant `Accounted` is not inductive by itself. `IInv` adds the types; that `buf` is empty
outside saving (`BufOnlyInSave`); that what was handed over lies before the
cursor (`Behind`); that an entry handed over precedes those in `buf` or behind the cursor
(`Ordered`); that the wait counts the consecutive failures (`Backoff`); and
`ThrowsOnlyAfterBackoff`. From it:
`TypeCorrect`, `NoBlockSwallowed`, `ChainOrder`, `ThrowsLate`, and
`ScanImplementsContract`: initial states map to initial states, and each action to
one of ScanContract's or a stutter.

`RpcManagerProofs` (any set of URLs, each in the queue once, and of callers). `IInv` is type
correctness, `Conserved` and `TriedOK`: while a call is under way, the URLs not tried yet are at the end of the queue from
which URLs are taken, behind as many others as the call has put back, because what is put back goes to the
other end, and what other calls take meanwhile counts as tried. When `numTries` has reached the length of the queue
nothing untried is left: `FailsAfterAll`. Lemmas say what popping and putting back do to a queue without
repetitions and to the untried URLs in it.

`HistoryConnectionProofs` (any limit of resets and number of faults). `IInv` adds to types and
`ReplacedDestroyed`: on a websocket the listener is on the latest one, which is open, and
no reset is under way (`OnLatest`); a provider being probed is open (`ProbesOpen`); only
providers that were created have been destroyed (`Existed`), so that a new one is
open; and only the last probe is at the limit of resets (`BelowLimit`). `ListensToOpen` follows:
on HTTP nothing is ever destroyed, on a websocket it is `OnLatest`. The step that needs
the strengthening is the end of a probe, where the listener moves to a provider
created two awaits before.

`ScanProofs`, BlockSearch (any chain whose block times do not decrease, any time, number of calls and
precision). `SearchIInv` says that the two ends bracket the time unless an end has not moved (`Bracket`), that the
blocks between them times 2^calls are fewer than the chain's (`Halved`, the variable `weight`
being the power), and why the loop stopped (`Stopped`). `SinceCovered` is then the order of
block times; `NotTooEarly` needs `Halved` or the precision.

`EventRelayProofs`, EventHeartbeat (any smallest count, number of open orders and bound of counts). `HeartbeatIInv` adds to the
types that the counts balance: unless skewed, orders created are those executed plus those open
(`Balanced`). An alarm means that the difference is at least half of the larger count, which is then
the number of open orders.

`EventRelayProofs`, IndexPrices (any perpetuals, indices, events, size of the ring and number of messages under way).
`ToldCurrent` needs that nothing was sent before the initialization (`Silent`), because a broadcast before it
is forgotten. `PassedOnce` needs that the ring holds the last hashes (`RingHolds`): the
hash remembered before `age` others is in the slot that many before the pointer, around the ring
(`SlotOf`); `HoldsNext` shows that this stays so when the pointer wraps.

`SubscriptionsProofs` (any clients, perpetuals, traders, and numbers of resets and faults). `IndexSound` and
`IndexComplete` are inductive with the types. `SubscribersHeard` is not: `OpenHeard` adds that, unless a
registration threw, what is open is in `symbols` (the loop of the reset renews handlers for those) and, once
the reset is over, has handlers. `AtMostOneStray` needs `StrayFollowed`: a perpetual with handlers that nobody
follows has no stray set, and while a reset runs no perpetual has one.

`ExchangeInfoProofs` (any perpetuals, clients and number of versions). Four parts support the two
properties, each about the actors of one await:
- `CallsOK`: before the initialization is over nobody asks and no renewal runs; of calls that await a renewal, calls
  that were told that none is due, and calls that have been woken there are never two kinds at a time. Hence nobody sets
  the mutex while a call awaits a renewal, and between two turns a set mutex means that no call found it unset; among the
  woken calls of one turn the first may set it, and its pull is in flight until all have gone on: `LateCallsJoin`.
- `QueueOK`: at most one reply is under way for each call, only for one that reads, and the copies of handlers list what is
  handled.
- `PullOK`: the initialization finds no pull under way, so that its own is the first to store anything; a
  snapshot lists what was handled when it was taken.
- `CopiesOK`: what is handled is known to the proxy instance and listed by the content, whoever wrote it
  last. With `QueueOK` this gives `HandlersFindContent`.

`HistoryIngestProofs` (any log, tables, lookbacks, windows, numbers of gap fillers, faults and crashes).
`NoSilentHole` counts an event as safe that any run is going to hand over, which is not inductive: a skipping run may
drop it once it knows its watermark. `IngestInv` therefore works with `Settled`: stored, being stored, ahead of a
run that skips nothing, or recorded as failed. `Covered(f)` says that everything before f in reach of an initial run is settled,
and the invariant says it of each position from which something may be concluded: confirmed rows and confirming
inserts in flight, watermarks already read (they outlive the rows they were read from), the start, base, gaps and cursor
of each run. The main lemma is that a step leaves settled what was settled (`Keeps`); the exceptions are the newest
event, which a scan may just not reach, and a crash, after which nothing is claimed until the next start: its
initial run, which skips nothing, is ahead of everything from the raised `floor` on. The end of the initial run is the one place that needs `InTime` (section 3).
From it: `TypeCorrect`, `NothingSilentlyMissed`, and `ConfirmedStays`, which needs no more than the types.

`HistoryTablesProofs` (any log of events, numbers of inserts in flight and failures). The types are
inductive once handlers are known to be at legs their event has (`LegsFit`: only a transfer has a receiver's leg);
they include one row per key in each of the three tables. `SharesTrue` is not inductive: a lookup finds a
row by transaction and type, the update after it goes by pool and transaction, and between the two other handlers
write. `SharesIInv` adds that a row which a lookup has found is still there when its answer is used
(`LookupsStand`), and that every row, of transfers too, is the one of an event of its type (`Traced`). Then the row
found and the row updated are the same. This needs that no transaction has two events of a type
(`OneOfAType`), which is the hypothesis of `RowsTraced` and `AmountsTrue` and true of the runs' events: with two
removals in one transaction the code does write the amount of one into the row of the other, see 6.
`TypeCorrect` does not need it.

Assumptions: the named `ASSUME`s of the modules, and `OneOfAType` where it is named. Out of the prover's reach
and left to TLC: liveness (`Terminates`, `CallsEnd`, `EventuallyStored`, `GapsHeal`, `NamesChained`,
`RemovalsBooked`, `Recovers`, `Converges`, `HeardAgain`, `FeedReaches`), since ENABLED is not supported.

## 6. What the runs found

- `tables_missed`: an event the listener skips "to let the backfill pick it up" is lost if it is a
  transfer and its pool has a later row: every later scan of transfers starts there. In TLC's trace the
  listener misses the transfer and stores the addition after it, and every later run starts at the addition. The scan
  may start up to six hours early, so a transfer shortly before the row would be found.
- Not a run (ExchangeInfoCache, `Resume`): "prevent multiple clients calling at the same time via MUTEX" is not what
  the mutex does for calls that waited for one renewal of the proxy: each goes by its look from before the await, sets
  the mutex again and calls `cacheExchangeInfo`. One pull results all the same, because of the in-flight promise
  there (`LateCallsJoin`).
- Not a run, but visible in ChunkScan (`GetBlockThrow`): the cursor moves before the chunk is saved.
  When saving throws, the log says "retrying", but the rest of the chunk is not fetched again by
  this scan; `Accounted` excepts these entries.
- Not a run (LiquidityTables): sender and receiver of a share transfer have the same transaction and
  type, so the receiver's leg finds the sender's row. The receiver gets no row; and when
  the backfill hands the transfer over, the sender's amount becomes negative.
- Not a run (LiquidityTables): two additions (or removals) by one transaction in one pool share one row. When the
  backfill hands the second one over, the row keeps the first one's wallet and gets the second one's amount
  (the hypothesis `OneOfAType` of section 5).
- Not a run (ExchangeInfoCache): two mark price updates in flight read the same copy, and the
  second write takes the first one back, until the next pull (`Converges`).
- Not a run (IndexPrices): the feed handler turns the probability of an index into a price once per prediction
  market, on a shared variable, so the second one is sent 2+x; the event handler sends 1+x. `ToldCurrent`
  leaves these perpetuals out. An event is recognised by the sum of its numbers, not by what it is: a
  premium that returns to its value of a few events ago is dropped, and the service keeps the one in
  between until the premium changes again.
- Not a run (EventHeartbeat): trades are heard of all perpetuals, orders only of followed ones, so trades
  in the others alone get a healthy connection replaced; `AlarmHasCause` counts them as skewed.
- Not a run (RpcManager): a `getRPC` call may throw "No healthy RPCs" although a URL is healthy, having tried
  one URL twice and that one never: other calls shorten and rotate the queue meanwhile. What holds is that one
  of them has tried it since, or had it in hand (`FailsAfterAll`).
- Not runs either: a client that subscribes while a reset waits for its new provider
  gets two handler sets, one of which nothing can remove (`AtMostOneStray` says that they do
  not pile up); of two names that begin in the same block each ends at once after
  the alignment; of two `SetOracles` events of one transaction the second is never
  stored; and a name whose insert failed leaves its predecessor closed.

## 7. What is not modelled, and why

- In modelled parts: a failing gap query (logged, the table is skipped); more than one gap filler at a time;
  token amounts and prices of the earnings; in Subscriptions the exit after 100-200 provider resets; `addRPC`,
  which nothing calls; a failing redis; start-up attempts that overlap after a timeout.
- Of the relay: the formatting of messages; of the prices: their arithmetic, the prices sent with
  every pull of the exchange info, a second initialization in one process.
- Open interest: a map of last observations beside a redis series, written by two event handlers.
- Token prices use floating-point returns; the REST routes only read and format; brokers sign;
  start-up, metrics and logging keep no state that others rely on.

## 8. Plan

Done, in order of importance: ChunkScan, HistoryIngest, RpcManager, Subscriptions,
ExchangeInfoCache, HistoryTables, HistoryConnection, IndexPrices with DuplicateFilter, EventHeartbeat,
BlockSearch.

Modules to come:

1. Overlapping start-up attempts in ExchangeInfoCache and IndexPrices.
2. The first observation of open interest, stored after an await.
3. An abstract specification of the tables (what is stored is a function of the events
   handed over), refined by HistoryTables.

Theorems to come: what the modules above add, and safety lemmas about the intervals of names while inserts
are in flight (an open row is the last one, or a failed or running insert is the reason). Each run
asks one question of the system; new components share a run with those they are composed with.
