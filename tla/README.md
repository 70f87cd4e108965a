# The trading bot, specified

TLA+ specifications of the stateful core of the repository's crypto trading bot
(Node.js, one process per account, Binance spot), the TLC configurations that
check them on small instances, and theorems about them that the TLAPS proof
system checks for every value of the constants.

The bot's decisions are floating-point scoring and are left alone here. What is
specified is the machinery that carries them out against the world: one process
whose handlers interleave at every `await`, an exchange that fills orders while
nobody looks, sockets that drop messages, files replaced one after another, and
restarts. Every definition stands for lines of the source that `PROJECT.json`
names (`map`).

| module | models | theorems in |
|---|---|---|
| `BookView`, `LocalOrderBook` | a view of an exchange's book; `src/market/localOrderBook.js` | `BookAndEntry_proofs` |
| `StreamCoordinator` | `src/runtime/streamCoordinator.js` | `MarketData_proofs` |
| `BotManager` | `src/runtime/botManager.js`, `botLifecycleStateMachine.js` | `BotManager_proofs` |
| `LiveBroker` | `src/execution/liveBroker.js`, `liveBrokerReconcile.js`, `executionIntentLedger.js`, and their callers in `src/runtime/tradingBot.js` | `LiveBroker_proofs` |
| `MakerEntry` | the resting entries of `src/execution/liveBroker.js`, with what of the reconcile and the intents they meet | `BookAndEntry_proofs` |
| `DurableStore`, `StatePersistence` | a store that only grows; `src/storage/stateStore.js`, `src/runtime/persistenceCoordinator.js`, `stateBackupManager.js`, and the loading and saving in `tradingBot.js` | `StatePersistence_proofs` |
| `OrderRequests`, `RestGateway` | an order's request as its caller sees it; `src/binance/client.js`, `src/runtime/restBudgetGovernor.js` | `RestGateway_proofs` |
| `ReconcilePolicy`, `TradingCycle` | the classifier and marks of `liveBrokerReconcile.js`; the cycle of `tradingBot.js` with `cycleRunner.js`, `healthMonitor.js`, `exchangeSafetyReconciler.js`, and the operator's requests of `botManager.js` | `TradingCycle_proofs` |
| `PaperAccount`, `PaperBroker` | the paper portfolio and its promise; `src/execution/paperBroker.js` with its callers in `tradingBot.js` | `PaperBroker_proofs` |
| `MarketHistory` | `src/storage/marketHistoryStore.js`, `src/runtime/marketHistory.js`, `marketScanner.js`, and the repair in `tradingBot.js` | `MarketData_proofs` |

`TradingCycle` extends `ReconcilePolicy` (operators only). Four modules are
abstract specifications that the ones beside them are shown to implement:
`LocalOrderBook` implements `BookView`, `StatePersistence` `DurableStore`,
`RestGateway` `OrderRequests` and `PaperBroker` `PaperAccount`. `MakerEntry` and
`MarketHistory` prefix the names of their specifications (`MakerSpec`,
`HistorySpec`), so that their proofs stand in one module with those of the
component they share the exchange or the market data with. Every other module has an `MC` module that
gives its constants small values, and one `.cfg` per run. Paths in this file are
relative to the repository's root.

## 1. The system

### Components, their state and how they meet

    dashboard / CLI / desktop
            |  init, start, stop, setMode, run once, status
            v
       BotManager ------- owns ------> TradingBot (one instance at a time)
       lock, loop, lifecycle              |  runCycle:
                                          |   reconcile -> manage -> scan -> enter -> save
              +---------------------------+--------------------------+
              v                           v                          v
         LiveBroker, PaperBroker  StreamCoordinator          PersistenceCoordinator
         positions, intents       sockets, timers, chains     queue of saves
              |                     |             |                   |
              v                     | depth diffs | order reports     v
         REST client                v             v              StateStore, backups
         queue, bans, retries   LocalOrderBook   LiveBroker      runtime/journal/model.json
              |
              v                  scanner, backfill, repair -> MarketHistoryStore
           exchange                                           partitions, manifest

| component | state | operations | what makes it correct |
|---|---|---|---|
| Bot manager (`BotManager`) | lifecycle, stop request, failure count, the bot instance and whether it must be renewed, the loop promise, the mutation lock | init, start, stop (with a timeout or without), one cycle, setMode, status reads, self-heal, adopting an edited `.env` | one loop, one cycle, one open instance; a stop ends the loop; what is reported is true |
| Live broker (`LiveBroker`) | positions with the list that protects them and their reconcile flags; the intent ledger | enter, exit, scale out, refresh protection, reconcile at start and in every cycle | quantities agree with the exchange; nothing is bought twice, forgotten while held, or left unprotected without a flag; intents settle |
| Resting entries (`MakerEntry`) | the working order and its replacements, the executions an entry knows of, the entry intent, exchange conflicts | submit, recover, read, amend, replace, cancel, fall back to the market, protect, flatten; the reconcile that cleans up | no position claims more than is held; an entry leaves no order behind, the next one waits; what was lost track of is seen, and its intent lifted |
| State and persistence (`StatePersistence`) | `runtime.json`, `journal.json`, `model.json`, manifest, backups; the chain of saves | persist a bundle, persist the runtime file alone, back up, load, quarantine, restore | a finished save survives; a booked trade does not come back as a position; damage and staleness are noticed |
| Streams (`StreamCoordinator`) | sockets, listen key or subscription, keep-alive interval, restart timers and promise chains | init, loss, stall, restart, subscribe, close | lost streams come back; a closed coordinator opens nothing; timers belong to a socket |
| Local book (`LocalOrderBook`) | per symbol: book, last update id, buffer, synced flag, cached summary, priming and its cooldown | depth events, priming from a REST snapshot with retries, reset, universe changes, reads | a book that says synced is the exchange's; a priming ends |
| REST client (`RestGateway`) | the chain of fetches, ban and backoff, attempts of each call and of its clock request, the futures cache with its fetch in flight | place an order, read trades through the budget governor, read futures data; retry, synchronise the clock | no order is carried out twice by a retry and what is reported is true; a ban is heeded and never shortened; every call ends |
| Trading cycle (`TradingCycle`, `ReconcilePolicy`) | flags of every position, the journal, exchange truth and the freeze of entries, the health circuit, what is not yet saved | reconcile, journal, manage, clear entries, scan, enter, save; forced reconcile, review, audits | no entry while a position is in doubt; each trade booked once; success means saved; degradations stay; a freeze ends |
| Health circuit, self-heal | failures in a row; counters of incidents | record, open, close; decide | the count is in `TradingCycle`; the decisions are free choices in `BotManager` |
| Paper broker (`PaperBroker`, `PaperAccount`) | free balance, fees, realised profit, positions with their stops | enter, exit, scale out, tighten a stop, rotate, scan and loop over candidates | the account balances with the journal; the limit on positions holds; a stop never loosens |
| Market history (`MarketHistory`) | partition files, manifest, a file of the old layout, what each operation has read | load (migrate, quarantine, rebuild, clean up), upsert, scan, backfill, repair | stored candles stay found; lost ones are fetched again |
| Request budgets, feed registry (`src/utils/requestBudget.js`) | cooldowns and counts per provider | acquire, succeed, fail | not modelled |
| Auto-reconcile coordinator | none that decides | plan, report | not modelled: no gate of a cycle asks it |
| Order lifecycle, auditors; policy ladder, capital governor; fast lanes | none of their own | pure views | not modelled |
| Strategy, models, risk, learning | weights | score, learn | outputs are free choices |
| Providers, news, events; audit log, recorder, read model; dashboard, CLI, desktop; config, accounts; research, replay, backtest | derived or offline | - | not modelled (reasons in `PROJECT.json`) |

### What is hard here

* **Interleaving at awaits.** The manager serializes mutations with a promise
  lock, but the loop, status reads and the cleanup of a timed-out stop do not
  take it. The user stream is started across an await of its key.
* **The exchange moves on its own.** A protective list fills between the reads
  of one reconcile, and between sending a cancel and hearing of it.
* **Answers get lost.** An order that timed out may have been executed; the
  ledger of intents is what remembers that it was sent.
* **The process dies** between two renames, between a request and its answer,
  in the middle of restoring a backup.
* **Requests come beside the cycle.** The manager's lock orders the operator's
  requests with each other, not with the loop's cycle: both reconcile, journal
  and repair the same data.
* **Limits are learned late.** A ban is known when the answer that tells it has
  been read; by then the queue has sent the next request.
* **Streams lose, repeat and reorder** messages, and the timers and promise
  chains that restart them outlive the sockets they were made for.

`PROJECT.json` lists forty hazards of this kind, each at its line, with the
properties that catch it or the reason why none does.

## 2. How the modules correspond to the code

JavaScript runs a handler from one `await` to the next without interruption, so
an action is what a handler does between two awaits, with every call it makes
that changes state; where nothing else can observe the stages in between,
several awaits are one action (named below). An actor that is suspended is a
program counter: `prime` in the local book, `at[a]` in the manager, `pc` in the
broker, `phase` and `save` in the persistence, `call` and `timer` in the streams.

### LocalOrderBook

`Depth[n]` is the exchange's book after update `n`. A diff event `[U, u]`
carries the final quantity of each level its updates changed, which is all that
`applySide` uses. The stream is any sequence of events (lost, repeated,
overlapping, out of order), the snapshot any `Depth[n]` cut to the levels a
request of `streamDepthSnapshotLimit` may return (`CutTo`, any set of `Window`);
`reach` remembers which, and is read by properties only. `handleDepthEvent` is
five actions by the branch it takes; `ensurePrimed` is split at its awaits
(`waiting`, `snapshot`, `backoff`), and its replay loop, which is synchronous,
is one step per event with the event loop held (`Free`). `prime` idle or not is
`primingPromise`. `summary` is `lastDepthSummary`, what `getSnapshot` serves.
`BookView` is the promise without the mechanism: the copy is silent, or shows
levels of the book, all of them as one of the exchange's updates left them
(however old when it opens), and until it is silent again it only goes forward
and loses sight of none. Left out: warm-up telemetry,
imbalance figures and `estimateFill`.

### BotManager

`op` is the mutation inside `withLock`, `at["task"]` the await it is suspended
at; `"reader"` is an unlocked status read, `"cleanup"` the continuation a
timed-out stop leaves on the loop's promise, and each member of `Loop` one call
of `runLoop`. `open` is the set of instances initialised and not closed, `uses`
the instance an actor holds in a local variable across its await. What a cycle
leaves behind is `exposure`, the two things the mode-switch guard asks for.
`Happens` chooses the requests and incidents of a run; with `"unclosed"` among
them the close of an instance may throw (`Closes`), which a stop logs and
ignores and a renewal does not. Left out: read-only
views, profile previews and setup checks (they change nothing modelled), and
the reasons of a self-heal, which is a free choice.

### LiveBroker

One symbol, `Lot` units bought by a market entry. `Send` is the code up to the
awaited request, an `Exchange` action is what becomes of the request (carried
out, refused, never seen; answered or timed out), and the action named for the
reply (`Bought`, `CancelFoundFill`, `OcoFailed`, ...) is the code after it,
including its saves. `ledger` is the intent ledger by dedupe key, `disk` what
the last flush saved. A reconcile reads the account, then the orders and lists,
then decides on the position, then looks for what is not tracked; `snap` keeps
both readings because the code keeps using the first one. `init` is the same
reconcile with `boot` set. Bounds of the abstraction:

* no maker or pegged entries (`MakerEntry`), synthetic exits below the minimum
  notional, dust, small quantity drift or demo-paper autonomy; one reason to exit, one to scale
  out, one operation of management in a cycle;
* the settings that turn a sound snapshot into a retry or a manual review
  (prices, notional caps, ages, the read of recent trades) are free choices, so
  `RetrySnapshot` and `ManualReview` are always possible; an unrelated cooldown
  is possible whenever the position is not in normal mode;
* the adopt branch cannot be reached in live mode, nor the start-up cleanup of
  orphan orders for the sell legs the bot places; both are left out;
* the reads of open orders and of lists fail together, because the code treats
  every mixture as a partial snapshot; a cancel's uninformative reply is left out;
* a request that timed out is over: the signed `recvWindow` (5 s, `client.js`)
  is shorter than the client's timeout (10 s);
* the flushes of one handler are one write, and flushes do not fail here
  (`StatePersistence` has the failing ones); the ledger is not pruned;
* a list's id is used again when neither the exchange, the position nor the
  file refers to it, which keeps the state finite and loses nothing.

### MakerEntry

One symbol and its buy orders, each with a size, what is filled of it, and
whether it is live. `pc` is the await `placeLimitMakerBuy`,
`placePeggedLimitMakerBuy` or `enterPosition` is suspended at: the two helpers
are the same but for the replacement (limit only) and the read after an amend
(pegged only). `entry.known` is `executions`, by order, as `mergeExecutions`
keeps them; an error forgets them, because they are local to the helper that
throws, and `RecoverPending` reads the one order the error names. `Fill` is
possible at any await. A request and what becomes of it are one step, as is the
read of an order with its trades. `conflict` is what the reconcile of this cycle
leaves for the gate in `openBestCandidate`. Left out or simplified:

* the position is managed and protected in `LiveBroker`: here its list is
  placed or not, nothing sells it, and it goes when a reconcile closes it;
* of the classifier, what a buy order or a balance enters: a sound snapshot may
  always be retried or sent to review, which the settings decide;
* prices: whether a fresh bid differs is a free choice, so is whether an order
  can be amended; the rest that is below the minimum may or may not be bought;
* an order placed and refused later (`EXPIRED`) is one that is over;
* the start-up cleanup of orders without a position (`liveBroker.js:2946`),
  which runs after a restored backup only (section 5).

### StatePersistence

The contents of the files are trades: `open` in `runtime.json`, `booked` in
`journal.json`, `learned` in `model.json` (with `model-backups.json`, written
right after it), and a count of operator changes in the runtime file. A file is
replaced by rename, so one action per rename; a crash falls anywhere between
and may leave one readable file damaged, since nothing is forced to disk before
the rename. `queue` is the chain on `persistPromise`: a bundle is cloned when
`persist()` is called, a runtime-only save takes the memory when its turn comes.
The manifest is not state, because `StateStore.init` drops what its check says.
Two callers save, each awaiting its own save: the cycle, and the operator whose
requests the manager's lock serializes. An orderly close is a `persist` and then
nothing. The move of a damaged file may fail, and the restore then replaces it
where it is. The reconcile that `init` runs between load and first save is the
broker's. `DurableStore` is the promise without files: as long as nothing on
disk is damaged it only grows, and whoever is told that his save is done is told
so of something that is there. Left out: the schedule and pruning of backups (a
backup may be taken whenever the cycle is between operations and is always
readable), schema migration and read-only starts.

### StreamCoordinator

Public chunks, the futures socket and the user socket are values; `chain[k]`
counts the unsettled links of `publicRestartPromise` and its like, `timer[k]`
tells whether the one restart timer of a kind is armed and who asked for it.
Restarting a market stream awaits nothing outside, so it is one action;
`startUserStream` waits for the listen key or the subscription (`call`).
`close` cannot meet `init`: the manager learns of the bot only after `init`.
`setWatchlist` is called before the streams open, where it restarts nothing, so
`restartPublicStream` through it is unreachable and left out. The monitor's
interval (5 s at least) is longer than the reconnect delay (1.5 s): it does not
interrupt its own restart. What messages do to the market data is left out,
except for the local book, which is `LocalOrderBook`.

### RestGateway

A call (an order, a read behind the budget governor, or a read of one key of
the futures cache) has a place (`pc`), is in its `main` request or in the clock
request that a `-1021` makes (`stage`), and counts the attempts of both. `queue`
is the chain of fetches (`enqueueRequestWeightFetch`); its head is on the wire
until the headers arrive (`FetchSettles`), the body and what it says of the
limits come later (`ReadBody`), or are cut off by the timeout or a reset of the
connection. `ban` counts down in steps of its own, and a
sleep may end at any of them. An order is carried out, if the exchange gets to
see it, when its fetch settles, whatever the bot hears of it. `flight` and
`cached` are the one key of the cache. `OrderRequests` is what all of this comes
to for whoever sends an order, and what `LiveBroker` and `MakerEntry` assume of
their requests: it is carried out at most once, its caller is told so, that it
was refused, or that nobody knows, and then nothing of it is left. Left out or
simplified:

* API-key and unsigned spot requests are retried like futures reads and share
  no state beyond queue and limits, so the futures reads stand for them;
  `getExchangeInfo` caches in the same way (its `forceRefresh` is left out);
* the demo venue is live; missing credentials throw before anything happens;
* the weight pressure of the governor is a free choice, as are the lengths of
  all sleeps; a synchronisation takes one clock sample; the chance that the
  last attempt of a call still synchronises the clock is kept.

### ReconcilePolicy and TradingCycle

`ReconcilePolicy` is the classifier of a reconcile with the evidence it tells
apart, the marks each verdict makes on a position, and the lifecycle state that
follows. `TradingCycle` runs it: `at` and `todo` say where the loop's cycle and
the operator's forced reconcile are, one action per position and await. The
broker's calls appear as the ways they end (`ManageClosed`, `ManageFailed`,
`EnterExposed`, ...). `truth` and `frozen` are the two freezes, `failures` the
health circuit, `unsaved` what only memory has. History variables: `dropped`
(trades an error took), `overlapped` (a forced reconcile ran beside a cycle),
`undisturbed` (no request since entries were cleared), `streak`. Left out:

* the demo venue, the auto-reconcile coordinator (inert, section 5), the trade
  of a recovered entry that turned out flat, analysis and other dashboards;
* the age of pending actions is looked at where entries are cleared only;
* foreign balances and orders are a number of mismatches; a symbol's journal is
  counted from its latest position;
* the pending actions that are not a position's. Those of the exchange truth
  (`tradingBot.js:13676`) name symbols that `mismatchCount` counts, so entries
  are frozen with or without them. An ambiguous intent freezes entries in live
  when it is old (that it is lifted is `AmbiguityLifts` of `MakerEntry`). Blocks
  of one symbol and `executionBlockers` (`:21974`) only take candidates away, and
  `Scan` lets any set of them through.

### PaperAccount and PaperBroker

`PaperBroker` keeps the money of `paperPortfolio`, the open positions and the
profit the journal adds up to, in integers. A cycle manages (stop, scale-out,
exit), scans under the guards, then loops over the candidates with the rotation
of a weaker position. A start may find a position it did not pay for, of the
demo venue or refused by the validator: `sound` says that it did not.
`PaperAccount` is the promise without the mechanism: money moves between the
free balance and a stake, and what a sale returns beyond its stake is both
realised profit and journal. Left out: slippage, latency and funding of the
fill simulation (a price and a partial fill are free choices), sizing, labels.

### MarketHistory

One series; a candle is its open time. The files, the manifest with its ranges
and the file of the old layout are the disk; `job[a]` is the operation of an
actor with what it has read (`have`), will add (`out`) and writes (`keep`). One
action per rename, removal or save, and per partition that a load or a rebuild
reads; the load's two reads of the manifest are one action, as are the requests
of one backfill. An error ends the operation, but not the scan whose own load it
left: that goes on to the exchange (`Throws`). `noted`
is `recoveryActions`, which concurrent loads share. History variables:
`promised` (candles of upserts that finished with nobody else changing the
series), `alone`, `mistaken` (a load met the gap between moving a damaged
manifest away and saving its successor). Left out:

* candle values; reads that only report after an upsert; temporary files and
  quarantined copies (a rebuild lists them under keys no read asks for);
* selection, cooldown and budget of the repair, which become fairness; whether
  a locked file can be moved is a free choice; the limit of 24 gaps per repair;
* a damaged file of the old layout, `history migrate`, backfills with a start.

## 3. The runs

Each finishes within three minutes on two workers.

| run | states | instance | properties |
|---|---|---|---|
| `order_book` | 32 476 | 2 levels of which a snapshot may miss one, 3 updates, buffer 2, 2 attempts | `BookIsView PrimingEnds` |
| `manager_modes` | 20 622 | 3 instances, 2 loops; start, stop, closes that fail, single cycles, mode switches, self-heal, `.env` edits | `SingleLoop CycleExclusive OneOpenBot NoCycleOnClosedBot LockReleased StopTakesEffect` |
| `manager_incidents` | 1 556 722 | 2 instances, 2 loops; start, timed-out stops, failing closes, throwing cycles, failing reinitialisations, unlocked reads, mode switches | `RunningHasLoop` |
| `live_broker` | 2 506 884 | lot of 2, 2 lists, 2 snapshot attempts, 1 crash, recovery of untracked balances on and off | `ManagedIsLinked NoDoubleEntry QuantityAgrees IntentsSettle NoSilentExposure ClosedOnlyWhenFlat` |
| `maker_entry` | 283 169 | lot of 2, 3 orders, 2 entries, 2 snapshot attempts, 2 faults, 1 crash, recovery on and off | `NeverOverclaims CompletedEntryIsOver EntryWaitsForOrders NothingStaysUnseen AmbiguityLifts` |
| `state_persistence` | 198 548 | 1 trade, 1 operator change, 2 crashes, 1 failing write | `NeverBookedAndOpen StoreKept EverySaveSettles` |
| `streams` | 1 504 | 2 chunks, every kind of user stream, 3 links | `MarketStreamsStayClosed KeepAliveHasSession UserComesBack` |
| `rest_gateway` | 115 318 | 1 order, 1 guarded read, 2 futures reads, 2 attempts, bans of up to 2 steps, 2 faults | `RequestsKept BanIsHeeded BanOutlastsAnswers RequestsEnd` |
| `trading_cycle` | 434 010 | 2 symbols, one piece of trouble per rule of the classifier, 2 faults, 1 request | `EntriesNeedACleanBook TradesBookedOnce SuccessIsSaved DegradationsHold FreezeLifts` |
| `paper_broker` | 238 432 | 3 symbols, 2 prices, 2 order sizes, fee 25 %, at most 2 positions, 4 fills | `WithinMaxOpenPositions AccountKept StopNeverLoosens` |
| `market_history` | 607 514 | 4 candles in 3 months, cycle and status requests, old-layout file, 1 crash, 1 fault, 1 damaged file | `PromisesKept HistoryHeals` |

One more run, `streams_public`, checks a property that a test of the repository
states and the code does not keep. Two more configurations end with such a
trace, `MCLiveBroker_protection.cfg` and `MCMakerEntry_fills.cfg`; section 5
tells all three.

What they show, in order:

* whatever the stream loses, repeats or reorders, the local book implements
  `BookView`: while synced it equals the exchange's at its update id on every
  level it has seen, and never goes back; and a priming always lets go of the symbol;
* as long as no cycle throws, no stop times out and nobody reads status
  meanwhile, and though the close of a stop may fail, requests in any order keep one loop, one cycle and one open
  instance, never cycle on a closed instance, give the lock back, and a stop
  stops. The manager needs each of those conditions: section 5 and the
  hazards 698, 227, 731 of `botManager.js` are what happens without them;
* under all those incidents, "running" still means a loop is alive and
  "stopping" that no further cycle will start;
* the broker never buys on top of a balance, agrees with the exchange on the
  quantity of an unflagged position, closes a position only when nothing is
  held, leaves no entry or protection intent open between cycles, blocks the
  symbol while it holds something unseen, and leaves a position either linked
  to a list or flagged - with lost answers, partial fills, refusals and a crash
  anywhere;
* a resting entry that fills while it is read, replaced or canceled never makes
  a position claim more than the account holds; once its submit was answered it
  is not completed with an order left behind, and without a replacement it
  counts every fill; a cycle that could read the open orders does not enter
  beside one; an order or a balance that nothing counts is sold, counted,
  flagged or a conflict in the end, and an ambiguous entry is lifted once
  nothing of it is left - whatever requests fail, with a crash anywhere;
* through any crash, failure or overlap the files implement `DurableStore`: what
  is on disk only grows and a save that finished is there; a booked trade does
  not come back as a position unless a restore was itself cut short; every
  caller gets its answer;
* the market streams stay closed, the keep-alive interval belongs to its
  socket, a lost listen-key stream returns;
* whichever answers are lost, late or refusals, the client implements
  `OrderRequests`: it carries an order out at most once, reports as done what
  was and as refused what was not, and has nothing left to do once it has
  reported; while it knows of a ban no further call gets in line, no answer shortens a ban, and
  every call ends, those that joined another's fetch included;
* while a cycle enters, every position has a clean record unless a request came
  in between; a closed trade is journaled once, except for the two losses the
  history variables name; reported success is on disk; management never lifts a
  degradation by itself; a freeze ends, in paper with a review;
* the paper account implements `PaperAccount` through partial fills, scale-outs,
  exits and rotations; the limit on positions survives the entry loop; no step
  of management lowers a stop;
* candles that an undisturbed upsert stored stay found, whatever overlaps or
  dies later and whatever file is then unreadable, unless the gap of `mistaken`
  was met; and after the faults the newest candles become whole and fresh.

`PromisesKept` has also been checked on a larger instance than the run's: five
candles, both actors scanning and repairing, 12 913 105 states; the properties
of `MakerEntry` with a lot of 3, where a limit order is amended as well
(`MCMakerEntry_large.cfg`, 1 058 760 states), together with `MakerTypeOK`.

Each module also holds, marked "seeded bug", mutated forms of some of its
definitions: for every property of a run, one plausible slip of the code that
TLC finds with that property (`mutants` in `PROJECT.json`).

## 4. Bounds and fairness

**Local book.** Three updates give every pair of events its relations (before,
after, overlapping, gap); `MCDepth` changes one level and back and removes the
other, so that a lost, repeated or reordered update is visible; a snapshot has
the near level only, or both. A buffer of two
overflows; two attempts include a retry and giving up. *Fairness*: a priming
takes its steps. Its sleeps are bounded and the REST client settles every
request (timeout in `client.js`).

**Bot manager.** Two loops, because two are what must never be; three instances
where an old one, an unlocked reinitialisation's and a renewed one could meet,
two in `manager_incidents`, where reinitialisation closes the old instance
before it takes a new one. A failure threshold of two has a failure below and
one at it. *Fairness*: every await of the manager settles, as cycles, closes
and initialisations do (each has its own timeouts); requests and incidents are
never forced.

**Live broker.** Lot 2 is the least with partial fills, partial sells and a
scale-out; two lists, the old and the new, are the most a position refers to;
two attempts have a first snapshot and a retry; one crash puts any step behind
it, and ambiguous intents behind that. Only safety is checked: against an
exchange that may refuse for ever nothing must happen eventually.

**Maker entry.** Lot 2 has an order that is filled in part; three orders are a
lost one, one that is replaced and its replacement; the second entry is the one
that must wait. Two faults lose a submit and the read that follows, or a cancel
and its check. *Fairness*: the bot goes on (`Entry`, `Reconcile`, `Restart`): its
requests have timeouts, its sleeps are timers, and the manager starts cycle
after cycle. The exchange need not fill anything, and faults end with `MaxFaults`.

**Persistence.** The files of different trades do not interact, so one trade,
from opening to booking, has every order of its moves; two crashes let one fall
into the restore that followed the other. *Fairness*: file operations settle,
and an `init` that has started goes on.

**REST client.** One order and one guarded read share the queue with two reads
that share a fetch: every pair of kinds. Two attempts have a retry and a last
one, two steps of ban a term that another answer may try to shorten, two faults
one for the main and one for the clock request. *Fairness*: each call proceeds;
fetches and bodies end by the client's timeout, sleeps by themselves. Its end is
not forced on the exchange: answers may be faults while `MaxFaults` lasts.

**Trading cycle.** Two positions, since a failure at one of them must not touch
the other and a half-done reconcile needs a rest; thresholds 1 and 2 have each
degradation; two faults reach the open circuit; one request meets every step of
a cycle. *Fairness*: the cycle and an operator's request that has begun go on
(timeouts of client and runner); requests are never forced.

**Paper broker.** Three symbols for a limit of two; the two prices and sizes
give gains, losses and a balance that is too small; a quarter of fee rounds; four
fills have an entry, scale-out, exit and another entry. Symbols are
symmetric; only safety is checked.

**Market history.** Three months of which one has two candles: a partition that
is partly covered, one that becomes stale, one that grows. One candle arrives
during the run. *Fairness*: each actor's operation proceeds; the refresh of the
history, due every so often, starts again and again (strong fairness, since it
waits for the operation before).

**Streams.** One chunk has nothing to interrupt, two have. Links behind a link
that never settles are never reached, so their number saturates at `MaxChain`.
*Fairness*: timers fire, a request for a key is answered and, asked for again
and again, granted one day (the only strong fairness, without which no stream
that needs a key can be expected back), a subscription is answered or times out
after 10 s, the monitor goes its rounds, `init` goes on. Losses are never forced.

Deadlock is checked except where the system may stop: a manager nobody asks for
anything, a store with nothing left to save, streams that are closed, calls that
have all ended, and a paper broker whose fills are used up.

## 5. Where the code departs from what the repository says

The first one is a run, the next two have configurations of their own. The
others are properties of the modules that TLC refutes when they are put into a
configuration, or steps the modules have: no run checks them.

**A public stream that stays down** (`streams_public`). Two chunks close within
the reconnect delay. The second request clears the first one's timer, but the
first link of the chain settles only in that timer's callback
(`streamCoordinator.js:1016`), so the second link never runs, nor any later
one; with no socket left to look at, the monitor reports "ok".

**A rebuild that builds nothing** (`MCLiveBroker_protection.cfg`,
`ReconcileLeavesProtected`). A cancel is carried out but times out, so the
position stays linked to a list that is gone. In the next reconcile the list's status query fails once; the retry's snapshot
is complete, agrees on the quantity and shows no order, which is
`rebuild_missing_protection`; `ensureProtectiveOrder` sees the link and returns
(`liveBroker.js:670`), and the autofix clears the flags. The position is
managed as a protected one.

**An entry that buys twice** (`MCMakerEntry_fills.cfg`, `EveryFillIsCounted`).
The submit of a maker order times out, but the order rests on the exchange.
`recoverSubmittedEntryOrder` finds it, reads it once and leaves it working
(`liveBroker.js:1293`, `:1428`); nothing is filled, so `enterPosition` buys the
whole amount at the market and completes, and the order beside it fills later.
For answered submits `test/run.js:5326` has the entry blocked while a partial
maker order "stays active after cancel failure". The same property is refuted
through a replacement: what fills between the read that sizes it and the
replacement itself (`:1474`) is never read again, although `test/run.js:4420`
"aggregates fills across limit-maker cancel-replace refreshes". In both cases
the next reconcile sees the order or the balance and flags the position
(`NothingStaysUnseen`).

**A silent book stays fresh** (`SnapshotAgeHonest`). `getSnapshot` returns the
summary computed with the last event, its `depthAgeMs` included
(`localOrderBook.js:529`). The stream stops; the age does not grow, and the
freshness test of `tradingBot.js:17266` keeps passing. The same cache shows
`synced` of a replay that was then given up (`SnapshotSyncHonest`: buffer 1 and
3, snapshot 0, 1 is applied, 3 finds the gap).

**Two loops** (`SingleLoop`, once cycles may throw). Two cycles throw and the
lifecycle is degraded, whose run state is "stopped" (`botManager.js:148`). A
stop therefore closes the bot under the loop and reports stopped (`:698`); a start clears
`stopRequested` and begins a second loop; the first one goes on as well.

**Intents nobody clears** (`StaleIntentsCleared`). The process dies while it
places a list. At the restart the intent is ambiguous; reconcile resolves
ambiguous entries only (`liveBroker.js:471`), and it blocks every later entry
although the exchange is flat.

**A trade that disappears** (`StaleFilesNoticed`). An exit drops the position and
saves the runtime file with its resolved intent; the trade is journaled and the
bundle saved later. Dead in between, the restart knows neither position nor
trade, and the manifest check that would tell is computed and dropped
(`stateStore.js:264`).

**Failures that never add up** (`RepeatedFailuresEscalate`).
`managementFailureCount` is set to zero before the exit or scale-out that fails
is tried (`tradingBot.js:20923`), so an exit that throws in every cycle never
reaches manual review, although `CHANGELOG.md:69` promises position-level
failure budgets. In live mode an exit that leaves the position safeguarded is
not counted at all (`liveBroker.js:3394`, `:3577`).

**A damaged manifest can cost the series** (`DamagedManifestCostsNothing`). The
manifest is moved away before the rebuilt one is saved
(`marketHistoryStore.js:537`). A load in between, or the first one after a
failed save or a death there, takes the series for a new one; its upsert lists
only what it brings and removes every other partition.

Also, module by module:

* `uncleanShutdownDetected` is set when a backup is restored and at no other
  restart (`tradingBot.js:10455`), so the cleanup of orders without a position
  (`liveBroker.js:2946`), which `test/run.js:3468` calls "after unclean restart",
  does not run after a plain crash.
* A resting entry whose later read fails forgets the fills it knew; only the
  last order is read again (`liveBroker.js:2060`), and with nothing found there
  the intent is failed, that is, resolved, while the balance waits for the next
  reconcile. A cycle whose read of the open orders fails may enter beside one.

* `NoInvalidTransition` (with `MCBotManager_modes.cfg`): init, start, setMode.
  The stop inside the switch ends in "stopped", from which "running" is not
  allowed (`botManager.js:928`): every switch of a running manager throws at its
  end and leaves the manager stopped.
* `ModeChangesUnexposed` (same configuration): the guard of setMode is evaluated
  before it waits for the cycle in flight (`:909`), which opens a position or
  leaves an intent; and a parked manager adopts an edited `.env` with no guard.
* After a reinitialisation that failed, `this.bot` is closed but not marked for
  renewal (`:213`), and a degraded loop goes on cycling on it.
* A crash that damages a file, then a crash between quarantine and restore, or
  no backup: the next start takes the missing file for a fresh one
  (`tradingBot.js:10562`).
* User stream: a key that arrives after `close` leaves a socket and its
  keep-alive interval; a refused message after the subscription schedules no
  restart; a subscription that times out and then fails asks for two restarts
  and blocks its chain; a first start that fails in `init` is not tried again.
* A list that is done with an order filled in part and then canceled, of which
  the user stream still tells: `syncPosition` returns the pair of
  `settleProtectiveOrderFill` where its callers expect a trade
  (`liveBroker.js:2617`), and a trade without a symbol is journaled
  (`SyncStreamFill` ends the judgement there).
* Forced reconcile (`botManager.js:1350`, `tradingBot.js:16809`): it does not
  wait for the loop's cycle. Both close the same position and journal it twice
  (`overlapped`), and the result of the cycle's reconcile overwrites a freeze
  the operator's has just raised (`tradingBot.js:17218`; `undisturbed`).
* Reconcile: an error while one closed trade is learned from, or at a later
  position, loses the other closed trades and the merge of the truth
  (`tradingBot.js:17211`). The cycle's reconcile clears the manual review and
  the protect-only of any live position it verifies (`liveBrokerReconcile.js:1711`),
  also one the operator asked for; a position above `maxAutoFixNotional` is sent
  to manual review in each.
* Freeze: protect-only hides a pending reconcile from it; the audit-only loop
  overwrites the mismatches a reconcile has counted; fills of the last half
  hour count as mismatches. The verdict of the unlock check (`:22937`) and the
  auto-reconcile coordinator are computed and not consulted.
* Circuit: a success is recorded before the save (`cycleRunner.js:7`), so
  repeated failures to save never open it; a cycle paused for a REST ban counts
  as a success and closes it (`tradingBot.js:23050`).
* Paper: exits and scale-outs credit the balance before the portfolio is
  validated (`paperBroker.js:548`, `:456`), an entry is validated after it is
  booked (`:403`): with a position the validator refuses, money moves although
  the caller is told it did not. Rotation may sell a demo-venue position with
  the internal broker (`tradingBot.js:19546`). In paper nothing leads from
  protect-only back to normal.
* REST client: the next fetch of the queue is sent when the headers of the one
  before arrive, before its 429 or 418 is processed; callers that sleep through
  a backoff are sent into a ban that began meanwhile (`client.js:580`); the
  timestamp of a signed request is taken before it queues.
* Market history: a file of the old layout that survived the death between
  saving the manifest and removing it (`marketHistoryStore.js:522`) is migrated
  over newer candles when the manifest is later damaged; a candle fetched while
  still open is stored and not fetched again (`marketHistory.js:249`); a gap
  older than the newest `targetCount` candles is reported and never filled;
  after a death between the renames and the manifest, candles are found by full
  reads and not by range reads until the next upsert.

## 6. What is proved

Every safety property that a run is expected to pass is also a theorem, as are
the types: what TLC shows of a small instance holds for every value of the
constants. Each part below says what is proved and why the properties alone are
not inductive.

`BookAndEntry_proofs` (2498 obligations) has two components. `LocalOrderBook`,
for every set of levels and windows, every history `Depth`, every buffer and
number of attempts, and every stream:

* `TypeCorrect`: the types, hence the cap on buffer and attempts;
* `SyncedBookFaithful`: `Spec => []BookFaithful`;
* `PrimingRunsUnsynced`: `Spec => []PrimingUnsynced`;
* `SyncedNeverRewinds`: `Spec => NeverRewinds`;
* `BookViewImplemented`: `Spec => BookIsView`, the refinement of `BookView`.

The inductive invariant adds to these that a replay runs on a synced book only
(so that an event applied during it starts from a faithful one) and that a
priming still asking for snapshots has an attempt left. The key lemma is that
an event that is neither stale nor after a gap takes the book of update
`lastUpdateId` to the book of `e.u`: a level the event does not carry had the
same quantity throughout its range, and `lastUpdateId` lies in that range; and a
level an event carries is seen from then on. The refinement puts the parts
together: a synced book is `Depth[lastUpdateId]` on the levels of `reach` before
and after a step, the ids do not fall, and `reach` does not shrink.

`MakerEntry`, for any lot of at least one unit, any finite set of order ids, any
number of entries, snapshot attempts, faults and crashes, recovering or not:

* `MakerTypeCorrect`: the types, and that no order is filled beyond its size;
* `EntriesNeverOverclaim`: `MakerSpec => []NeverOverclaims`;
* `CompletedEntriesAreOver`: `MakerSpec => []CompletedEntryIsOver`;
* `EntriesWaitForOrders`: `MakerSpec => []EntryWaitsForOrders`.

The invariant (`MakerInv`) says three things of an entry that is under way. The
account (`EntryAt`): it knows of no fill that there was not, and the balance is
at least what all its orders and its market buy brought together. The orders
(`OrdersAt`): which of them may still be live at each await, and where their
fills are all known, so that a completion that was not cut off from the exchange
leaves nothing behind. The readings (`ReadingsOK`): what a reconcile has read is
not above the balance there is, since orders only buy, and contains the open
orders; so a scan that finds none begins an entry without any. A position
cannot claim more than is held because what it claims is a sum of known fills,
and that sum is at most the sum of the fills. That sums over the orders exist,
grow with their parts and by as much as one part does (`SumsExist`, `TotalMono`,
`TotalAdd`) is induction over the subsets of a finite set, for which
`OrderInduction` takes the least set that fails in the library's well-founded
order of strict subsets. TLC checks `MakerInv` on both instances of section 3.

`MarketData_proofs` (1932 obligations) has two components. `StreamCoordinator`,
for any finite set of chunks, any transports and any bound on the chain:

* `TypeCorrect`, with "a timer is armed only for an unsettled link";
* `ClosedStaysClosed`: `Spec => []MarketStreamsStayClosed`;
* `KeepAliveMatches`: `Spec => []KeepAliveHasSession`;
* `OneUserStart`: a user start that is awaited has no restart due beside it.

The inductive invariant says why: after `close` the timers of the market
streams are cleared and nothing arms them (`scheduleRestart` refuses, and no
link of theirs settles without a timer); the user stream is untouched until
`init` starts it; a start in progress belongs to `init` or to the first link of
the chain, with no listen-key socket beside it and no restart due. Without the
last part a second start could replace the socket that a first one's keep-alive
belongs to.

`MarketHistory`, for any number of candles, any partitions in the order of time,
any actors, any file of the old layout and any number of crashes, faults and
damaged files:

* `HistoryTypeCorrect`: the types, with "a partition's file holds candles of its
  own month and a damaged one none";
* `PromisesAreKept`: `HistorySpec => []PromisesKept`.

The property speaks of what a read would find; the invariant (`HistoryInv`) of
everything that may yet change that. The store (`StoreOK`): promised candles are
in the old file until there is a manifest, then in their partitions and in the
ranges a good manifest lists, and none is in a partition noted as missing, which
a cleanup would drop. Each operation (`Holds`): one that saves has them all
among what it writes, one that cleans a manifest covers them all, one that
rebuilds it or will upsert has read them or still will, and a quarantine never moves a
file that has any. That the second part survives another actor's promise is
`AloneOK`: while an operation is undisturbed nobody else is at a place where it
could hold a stale copy of the series. Each sentence is lost in the gap that
`mistaken` records, so it is stated without it. TLC checks `HistoryInv` on the
run's instance, and with both actors scanning and repairing (2 901 349 states).

`BotManager_proofs` (1421 obligations), for any number of loops and instances and any threshold.
Under every incident:

* `TypeCorrect`; `RunningIsTrue`: `Spec => []RunningHasLoop`;
  `StoppingIsTrue`: `Spec => []StoppingIsRequested`.

The invariant behind them (`IInv`) adds that the lock is held exactly while a
mutation is at an await, and that a mode switch which has got past the end of
the loop no longer finds the lifecycle "stopping", although it takes the stop
request back at its end. Then, under `Calm` (no cycle throws, no renewal fails,
no stop times out, nobody reads status), which is the condition of
`manager_modes`:

* `CalmSingleLoop`, `CalmStoppedIsTrue`, `CalmCycleExclusive`, `CalmCycleOpen`,
  `CalmOneOpenBot`, `CalmHealing`: `Calm` implies `Spec => []SingleLoop` and so
  on, for the four safety properties of that run and for `StoppedHasNoLoop`
  and `HealKeepsPositions`.

Here the invariant (`CInv`) says who may be active: a loop that is alive is the
one `loopPromise` names, its lifecycle is running (or stopping, with the lock's
holder waiting for it), and beside it the holder of the lock is only at awaits
that renew, close and cycle nothing. So at most one actor is active, and what is
open is determined by where that actor is: nothing while it closes, the new
instance while that initialises, `this.bot` otherwise, unless that was closed
and waits for renewal. Each of the four excluded incidents breaks one of these
sentences, and TLC shows how (section 5).

`StatePersistence_proofs` (1729 obligations), for any finite set of trades and
any number of operator changes, crashes and failing writes:

* `TypeCorrect`, with "no caller is queued twice";
* `NoDoubleBooking`: `Spec => []NeverBookedAndOpen`;
* `AcknowledgedStays`: `Spec => []AcknowledgedSurvives`;
* `StoreImplemented`: `Spec => StoreKept`, the refinement of `DurableStore`.

Three invariants, each inductive over the one before. `TInv`: exactly the
callers that wait are in the chain, only its first save has renamed anything,
and what it counts as renamed is on disk. `DInv`: the journal on disk is never
ahead of the memory or of a save in progress, so the `runtime.json` of a save
agrees with the journal it is renamed beside; with the other order of renames
this is the sentence that breaks. It holds except while a restored backup is
being written, when the files on disk may disagree: a crash there is what `torn`
records and the property excludes. `AInv`: every save that is still to be
written is at least as new as the disk, and a bundle that waits behind the
operator's save was cloned after the operator's change; so no rename takes back
what a finished save promised. For the refinement a rename is a write that only
adds (`RenameIsWrite`), the end of a save a promise of what is there
(`DoneIsPromise`), and every other step leaves the store alone or damages it.

`LiveBroker_proofs` (2373 obligations), for any lot of at least two units, any
finite set of list ids, any number of attempts and crashes, recovering or not:

* `TypeCorrect`: no list sells more than it was placed for, no position is
  larger than what could have been bought;
* `OneEntry`: `Spec => []NoDoubleEntry`;
* `QuantitiesAgree`: `Spec => []QuantityAgrees`;
* `ManagedIsProtected`: `Spec => []ManagedIsLinked`;
* `ExposureIsBlocked`: `Spec => []NoSilentExposure`;
* `IntentsAreSettled`: `Spec => []IntentsSettle`;
* `ClosesWhenFlat`: `Spec => ClosedOnlyWhenFlat`.

None of these is inductive. The invariant (`IInv`) relates five places where a
quantity is known. The exchange: at most one list is open, and it locks the
whole balance. Memory: a position with a list accounts exactly for the balance
and what its list has sold, and no other list is open; one without accounts for
at least the balance. Disk: what was saved is as good as what is in
memory, and equal to it while a request is under way, so a crash at any await
goes back to a state of the same kind. The answers: what a reply says was done
was done, and a buy is awaited with an empty account. The reconcile: the
balances it has read are not below the one there is, because fills only sell; a
position that it finds flat is therefore flat. The intents add that each one
that settles with its operation is open only at the awaits of that operation, or
in a process that is down. The balance locked by the open lists is a sum over a
set; the proofs need it for the empty set and for one list only (`SumOfNone`,
`SumOfOne`), which is what the invariant says there can be.

`RestGateway_proofs` (921 obligations), for any calls, of which some are orders,
any number of attempts and faults and any length of a ban:

* `TypeCorrect`: a call waits for a fetch exactly while it is in the queue, and
  once;
* `OutcomesAreHonest`: `Spec => []OutcomeIsHonest`;
* `BansAreHeeded`: `Spec => BanIsHeeded`;
* `BansOutlastAnswers`: `Spec => BanOutlastsAnswers`;
* `RequestsImplemented`: `Spec => RequestsKept`, the refinement of
  `OrderRequests`.

An order's outcome is honest because what was executed, what the body says and
what the caller was told stay in step through retries and clock
synchronisations: `HonestSoFar` ties the number of executions to the place where
the call is, and to whether the fetch is its own or that of the clock it waits
for. The property itself speaks of finished calls only and says nothing of a
call that is about to be tried again. The refinement adds that a step of a call
touches no other order and its own only while its caller waits (`Alone`), which
the fetches that other calls join make less than obvious.

`TradingCycle_proofs` (1762 obligations), for any finite set of symbols, any
troubled evidence, any limits and any number of faults and requests:

* `TypeCorrect`;
* `EntriesAreClean`: `Spec => []EntriesNeedACleanBook`;
* `TradesAreBooked`: `Spec => []TradesBookedOnce`;
* `SuccessesAreSaved`: `Spec => []SuccessIsSaved`;
* `DegradationsAreKept`: `Spec => DegradationsHold`.

The invariant has three parts of its own. Flags agree (`Sound`): a position in
manual review has the review it waits for, and one in live that is unprotected
without any other mark says so in its lifecycle state, which is where the freeze
looks; so an audit that lets entries pass has seen every open position
(`AuditSeesAll`). Trades are somewhere (`TradeInv`): what is not open is
journaled, in the list of the reconcile that closed it, or dropped by its error;
and unless two reconciles ran beside each other, what one has still to visit is
open and what it closed is not booked. The clean book (`CleanBook`) holds only
while no request has touched the positions since the audit, which the property
says too: the request at fault is in section 5.

`PaperBroker_proofs` (826 obligations), for any symbols, prices, amounts, fees,
filters, limits and any number of fills:

* `TypeCorrect`: no balance, fee, cost, quantity or stop is ever negative;
* `LimitHolds`: `Spec => []WithinMaxOpenPositions`;
* `StopsNeverLoosen`: `Spec => StopNeverLoosens`;
* `AccountImplemented`: `Spec => AccountKept`, the refinement of `PaperAccount`:
  the initial states map to initial states, and each fill, partial or whole, and
  each rotation is one of its steps or a stutter.

The limit is not looked at inside the entry loop. What the loop relies on is
that there was room for one more position when the scan ended, that no candidate
is held, and that one success ends the loop (`RoomForOne`,
`CandidatesNotHeld`). For the refinement the lemmas are about integer division:
a fee is never more than what it is taken from, and a share of a cost never more
than the cost.

The types of these ten components, and `PrimingUnsynced`, `NeverRewinds`,
`BookFaithful`, `AcknowledgedSurvives`, `OutcomeIsHonest`, `StoppedHasNoLoop`,
`HealKeepsPositions` and `StoppingIsRequested`, are proved and therefore not in
a run; the refinements that the runs do check say more than three of them.

The assumptions are the modules' own (`BookAssumption`, `StreamAssumption`,
`ManagerAssumption`, `PersistenceAssumption`, `BrokerAssumption`,
`GatewayAssumption`, `CycleAssumption`, `PaperAssumption`, `MakerAssumption`,
`HistoryAssumption`); TLC evaluates them in every run. Beyond the ranges of the
constants they say that the set of list ids, of orders, of chunks, of trades and
of symbols is finite, that "no call" is not a call and no order has the id of
"none", that orders, guarded reads and reads of the futures cache are different
calls, that troubled evidence is evidence, that a later candle is not in an
earlier month, and that the limit for protect-only is not above the one for
manual review.

**Model-checked only**: every liveness property (`PrimingEnds`, `LockReleased`,
`StopTakesEffect`, `EverySaveSettles`, `UserComesBack`, `RequestsEnd`,
`FreezeLifts`, `HistoryHeals`, `NothingStaysUnseen`, `AmbiguityLifts`). They need
fairness and `ENABLED`, which the provers do not handle.

## 7. What is not modelled, and why

Every component and how much of it is modelled is in `PROJECT.json`
(`components`). The modules cover what decides and keeps state; most of the
source is not that:

* *pure and numeric*: strategies, models, risk scoring, learning, fill
  simulation. A finite model would not keep their meaning; what they decide is a
  free choice where it matters (enter, exit, scale out, hold, heal);
* *derived*: audit log, recorder, read model, reports, lifecycle auditors,
  capital governor, fast lanes. They are recomputed from the state the modules
  have, and a lost line changes no decision;
* *providers*: news, sentiment and feeds behind cooldowns (`requestBudget.js`).
  Their answers are features of the scoring; a cooldown cleared too early
  (`:80`) costs requests and no trade;
* *front ends and tools*: dashboard, CLI, desktop shell, research, backtests.
  Their requests are the operations of `BotManager` and `TradingCycle`;
* *two processes on one directory* (`reconcile:run` beside a running bot,
  `runCli.js:934`): nothing in the code orders them, so no property of the files
  would survive.

## 8. The plan

The order follows what can lose money first: the book that prices orders, the
manager that must not trade twice, the broker, what survives a restart, the
streams that feed it all; then the client every request goes through, the cycle
that composes the others, the paper account, and the history that models are
trained on. To come:
**`LiveBroker`, wider**, with the cumulative partial fills of the user stream
(`liveBroker.js:2522`) and the ledger's bound of 160
(`executionIntentLedger.js:82`); and `LiveBroker` and `MakerEntry` over
`OrderRequests` itself, whose promise they state in their own actions.

A composed or wider module takes the place of a run that one of its properties
subsumes, so that every run keeps asking a question of its own.

## 9. Running it

    tlc -config MCLiveBroker.cfg MCLiveBroker      # any module with its .cfg
    tlapm BookAndEntry_proofs.tla                  # any *_proofs module

`streams_public`, `MCLiveBroker_protection.cfg` and `MCMakerEntry_fills.cfg` are
expected to end with the traces of section 5.
