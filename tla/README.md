# A TLA+ model of strategy-optimizer

The program is a local optimizer for trading strategies: it ingests one-minute
candles into DuckDB, keeps a queue of optimization runs in the same database,
executes one run at a time with an island genetic algorithm over worker threads,
generates Pine scripts from the result, sends them to TradingView, records the
alerts these scripts send back, and serves all that to one page in the browser.
This directory holds its TLA+ model, the TLC runs that check it, and the TLAPS
proofs about it.

## 1. Inventory

| Part | State it keeps | Operations | Talks to |
|---|---|---|---|
| Run queue (`db/queue.js`, `runs` of `db/schema.sql`) | one row per run: `status`, `cancel_requested`, `claimed_by`, `heartbeat_at`, result columns | `claimNextRun`, `heartbeat`, `recoverStaleRuns`, `completeRun`, `requestCancel` | DuckDB |
| Drain loop and run endpoints (`api/routes.js`) | `processing`, `activeRun`, `cancelRequested`, `hyperRequested`, three timers | `processQueue`, `POST /runs`, cancel, recover, hypermutate | queue, GA runner, WebSocket |
| Boot and migration (`server.js`, `db/connection.js`) | the shared connection, the catalog, the write-ahead log | open, migrate, checkpoint, recovery of stale runs | DuckDB |
| GA runner and islands (`optimizer/runner.js`, `island-worker.js`) | per island: population, best, frozen genes, hypermutation; batch counters | batch, migration, space travel, cancel, hypermutation, collection | worker messages |
| Parameter space (`optimizer/param-space.js`, `params.js`, `ga-island.js`) | none | random, clamp, repair, mutate, cross over | islands |
| Evaluation (`engine/data-bundle.js`, `indicators.js`, `indicator-cache.js`, `optimizer/walk-forward.js`, `fitness.js`) | series, cached indicators | load, align timeframes, slice windows, compute, score | candles, blocks |
| Strategy runtime and blocks (`engine/runtime.js`, `engine/blocks/**`) | position, tranches, pending orders, equity | one bar | blocks |
| Legacy strategy (`engine/strategy.js`) | the same, for the fixed strategy | one bar | |
| Fitness cache (`optimizer/fitness-cache.js`) | a file per data set | load, delta, merge, filter, cap, save | runner |
| Candle ingestion (`data/ingest.js`, `db/candles.js`) | `candles`, the staging table | ingest, update, update all, delete | Binance, DuckDB |
| Spec store, spec files (`db/specs.js`, `POST /specs`) | specs by hash, `strategies/*.json` | upsert, save | HTTP, DuckDB, disk |
| Spec validation (`engine/spec.js`) | none | validate, normalize, hash | |
| Deployments and webhook (`db/deployments.js`) | deployments, event inbox with a UNIQUE key | create, record an alert, delete | HTTP, DuckDB |
| Pine generation (`engine/pine-codegen.js`) | none (the script it writes has: tracker, captures, orders) | indicator and strategy script | TradingView |
| TradingView bridge (`api/tradingview.js`) and deployment (`scripts/pine-deploy.js`, export and push routes) | one chart, one editor, `pine/generated` | send a run, read its metrics, save a script | TradingView |
| Page (`ui/app.js`) | runs table, dialog, detail and compare page, spec editor, live panel | clicks and answers | HTTP, WebSocket |

**What is hard in it.** JavaScript runs one callback at a time, but every `await`
gives every other handler a turn: the drain loop, three fire-and-forget timers and
any number of HTTP handlers interleave between the statements of what reads like
one operation. The queue survives a crash and its memory does not. Worker threads
exchange messages with a coordinator that waits for all of them. Two ingests share
one staging table; two requests share one TradingView chart; the page is written by
whichever answer comes last. One strategy exists four times (runtime, legacy
engine, alert script, strategy script) and has to do the same in each. And there
is boundary arithmetic over minutes, bars, windows, steps and dates.

**What makes each part correct.**

- Queue and drain: a row says `running` exactly while the loop works on it; a
  cancel ends the run it was asked for and no other; what is over stays over; an
  end that was announced fits the stored one; nothing waits for ever.
- Runner: every batch ends, whatever is cancelled or triggered meanwhile; no island
  runs ahead; each traveller reaches one island; rates come back after an event.
- Islands: knockouts stay written, other genes satisfy what repair can settle, the
  best survives.
- Evaluation: nothing depends on a later bar; windows tile the data; a finished run
  is recomputed from what it was scored on; the ranking misses nothing.
- Runtime: profit, trades and drawdown mean the same bars; a stop is executed; the
  legacy strategy and the generated scripts hold the same position.
- Candles: every missing minute has a known cause; jobs end; a cached fitness is
  not used once bars were added to its data.
- Stores: a crash leaves a database that opens and whole spec files; a signal is
  one event and every authentic copy is acknowledged.
- Page and TradingView: what is displayed belongs to what is selected; the range
  that is posted fits the data up to a day; saving a spec keeps its meaning; metrics
  are those of the run that was sent; no script of the user is overwritten.

The hazards, each at its line, are in `PROJECT.json`. Several of these statements hold
only under a condition on the user or on TradingView, or up to a case in which the code
does otherwise. Each condition is in the property and in its comment, and section 9
names, for each, the statement without it, which does not hold.

## 2. Modules and plan

| Section | Models | Proofs | Runs |
|---|---|---|---|
| 3 Run queue | `RunTable`, `RunQueue`, `RunBoard`, `MCRunQueue` | `RunQueueInv`, `RunQueueProofs` | `queue`, `faults`, `liveness`, `lost_kick` |
| 4 Island run | `IslandRun`, `IslandRounds` | `IslandInv`, `IslandConsistency`, `IslandProofs` | `rounds`, `hyper` |
| 5 From spec to ranking | `SpecEditor`; `ParamSpace`, `GenePool`; `Indicators`, `DataBundle`, `Blocks`, `Evaluation`; `Fitness`, `Results`; `PipelineCases`, `MCPipeline` | `PipelineProofs` | `pipeline` |
| 6 Backtest and scripts | `Sizing`, `Runtime`, `Legacy`, `Backtest`; `Pine`, `PineStrategy`, `Chart`; `MCBacktest` | `BacktestProofs` | `backtest` |
| 7 Candles and stores | `CandleStore`; `Stores`, `MCStores` | `CandleInv`, `CandleProofs`; `StoresInv`, `StoresProofs` | `candles`, `stale_cache`, `stores` |
| 8 Page and TradingView | `Page`, `Timeline`, `RunPages`, `TvBridge`, `PineScripts`, `MCPage` | `PageProofs` | `page` |

A module named `...Inv` holds the inductive invariant of a component, the module that
extends it the proofs; `PageProofs`, `PipelineProofs` and `BacktestProofs` hold both.
`PipelineCases` holds the inputs of `pipeline`.

`MCPipeline`, `MCBacktest` and `MCPage` each hold several components that share no
state. Their initial states choose one, and only its actions are enabled: every
interleaving of two of them is an interleaving of independent steps and would show
nothing. What does interact is one module: the drain loop with its handlers, the
coordinator with its threads, the jobs with the endpoints, the crash with the
requests, two senders on one chart.

Components meet in these places. `RunQueue` sees the runner as two actions,
`RunnerReturns` and `RunnerThrows`; `EveryRunEnds` of `IslandRun` justifies their
fairness. `IslandRun` sees an island as generations and messages; what they do to
individuals is `GenePool`. `Evaluation` gives blocks what `DataBundle` loads, from
candles as `CandleStore` leaves them, with gaps. `Results` takes what islands have
evaluated as sets of genes. `Runtime` takes what `Blocks` say as the votes of a bar.

Every component has theorems, and every safety invariant and action property of the
passing runs is one of them, except those that section 10 lists with the reason. Left to
model: the live panel and the data page, the choice of knockouts.

## 3. The run queue

### Modules

| Module | What it is |
|---|---|
| `RunTable` | the `runs` table; each SQL statement of `db/queue.js` as an operator from table to table |
| `RunQueue` | the server around it: actors, statements, answers, crash, boot; the properties |
| `RunBoard` | the abstract specification: a board of runs, at most one held |
| `RunQueueInv` | the inductive invariant |
| `RunQueueProofs` | the theorems |
| `MCRunQueue` | constants and symmetry for TLC |

### How state and actions correspond to the code

`rows` is the table and the only thing a crash leaves. `processing`, `activeRun` and
`cancelRequested` are the variables of that name in `api/routes.js` (`activeRun` by
its id, 0 for `null`). `process` numbers the processes and stands for `WORKER_ID`.
`task[a]` is what actor `a` awaits. The actors are the drain loop (`processQueue`),
the boot code, the heartbeat timer, the cancel-poll timer, the periodic progress
save, and the HTTP requests in flight. Each has at most one statement outstanding
(for the timers this under-approximates a connection that stays busy for longer than
a tick). A statement goes through three points: it is issued, DuckDB executes it
(`Exec...`, which reads and writes `rows`), its answer is handled (`After...`,
`ClaimIs...`, which reads and writes memory). Steps of others come in between at both
places, so what a handler read before its `await` may be stale after it. `line` is
the order in which statements were issued on the one connection.

A handler that starts is `PostRuns` (any number of configs up to `MaxBatch`; the
rows are inserted one by one, each INSERT followed by the `MAX(id)` query),
`PostNothing` (every config skipped: only the kick), `CancelRun`, `RecoverRuns`.
`KickAndRespond` is the call of `processQueue()` at the end of a handler with its
`processing` guard. `Start` publishes the active run; `evolve` is `runOptimization`,
which ends with `RunnerReturns` (finished or stopped by `shouldCancel`) or
`RunnerThrows`. The status written is decided when the runner returns, the event
broadcast when `completeRun` has been answered: the code reads `cancelRequested`
twice, and so do the actions. `NextTurn` is the `finally` block.

`TimePasses` ages every heartbeat beyond the timeout of a recovery; `Crash` clears
memory and all statements not yet executed; `Boot` starts the recovery of
`server.js`. `ExecFails` rejects a statement; where nothing catches the exception
(sweep, claim and reject inside `processQueue`, whose promise nobody awaits, and the
boot recovery, which ends the process) the outcome is a `Crash`. With `BarrenRuns`
the result of a run has no best gene (zero islands), so that `geneShort(undefined)`
throws after `completeRun`. `told` is a history variable: the last event broadcast
about a run.

Left out: result columns other than `best_gene`; `priority` other than its order
(no code writes it); `listQueue`, `getRun` and other reads; the hypermutation flag
(it is in `IslandRun`); the upsert of the spec before the INSERT (it is in `Stores`). A
config that does not parse cannot be stored in the JSON column and its branch in
`processQueue` is the one of the missing spec.

### Assumptions, as constants

- `InOrder`: the connection executes statements and hands back answers in issue
  order. This is what the binding does with one connection; where a property does
  not need it, the run drops it.
- `Prompt`: no lease timeout elapses between the statements of a recover request or
  while a claimed run is being set up. The code relies on it: the bump and the
  sweep are two statements.
- `ColdRestart`: the process is down for longer than the boot timeout of one second.
  Without it the recovery at boot finds a heartbeat that is still fresh.
- `MaxDbErrors`, `MaxCrashes`, `MaxRuns`, `MaxBatch` are bounds; `quota` is what is
  left of `MaxRuns`.

### Runs

| Run | Question | Instance |
|---|---|---|
| `queue` | is a row running exactly while it is worked on, is only what was asked for cancelled, does an announced end fit the stored one, is final what is over, and does the server implement `RunBoard`? | 1 request at a time, batches of up to 2, 2 runs (one with a spec), 1 crash, cancel, poll, recover, heartbeat, save |
| `faults` | when may a run stay claimed with nobody executing it? | 3 runs (one with its spec missing, one without a gene), 2 rejected statements, 1 crash, any order of statements |
| `liveness` | does every claimed run end and every enqueued run get its turn? | 2 requests, 2 runs, no crash, `FairSpec` |
| `lost_kick` | does every cancelled run leave the queue? (no) | 1 run, 1 request at a time, `FairSpec` |

`EndsAreTrue` joins `CancelledWasAsked` (a run is stored as cancelled only if its own
cancel was asked for) and `BroadcastFitsRow`: `run_completed` and `run_error` are told
of rows stored so and of no others; `run_cancelled` is told only of the run whose cancel
was asked for, which is then stored as cancelled or, if the cancel came during
`completeRun`, as completed. The code promises that this last case does not happen
(`CancellingIsSeen`, section 9).

In `queue` one request at a time meets the loop, the timers and the boot, with
statements in issue order; two requests at a time are in `liveness`, statements in any
order in `faults`, and any number of requests in the theorems. Two requests are enough
for every race the code has between requests (the id that a POST reports, a recover
against a POST); two runs are enough for a late answer or timer of one run to meet the
next; one crash makes every row state meet the boot recovery. Passing runs check for
deadlock: a server that is up can always be sent a request or crash, and the bounds
never exhaust both, so TLC's silence says that the model never wedges.

Fairness (`Fairness`): DuckDB executes and answers, the event loop runs the callback
of an answer, the GA has finitely many generations and ends, and somebody restarts
a server that is down. Requests, timers, crashes and errors are never obliged to
happen. Each is weak fairness: once an answer is there nothing takes it away.
`liveness` has no crash, because after a restart nothing calls `processQueue`; and
no errors, because a rejected `completeRun` in the catch block leaves the row
claimed (`OrphansWereTold`).

### Where the code and what is said of it differ

- `lost_kick` ends with a counterexample: a cancel that DuckDB executes between the
  sweep and the claim of the loop's last turn leaves the row `pending` with the flag
  set, and the kick of the handler is dropped because `processing` is still true.
  `api/routes.js` 835 says that the row is transitioned promptly.
- `CancellingIsSeen` does not hold (section 9).

The rest is behaviour of the model that no run is spent on:

- After boot nobody drains the queue until the next request, so pending and
  recovered rows wait for it.
- A restart within a second of the last heartbeat recovers nothing (`server.js` 47),
  and the row stays `running` until somebody calls recover (`ColdRestart` FALSE).
- A run with zero islands is stored as `completed`, then as `failed` (`BarrenRuns`).
- `MAX(id)` after the INSERT may be the id of another request's row (`ExecMaxId`).
- Without `Prompt` a recovery takes the row of the active run away although the
  endpoint promises that it cannot (890): bump and sweep are separate statements.

### Proofs

For every value of the constants (any number of runs, requests, crashes, rejected
statements):

- `TypeCorrect`: `Spec => []TypeOK`. `TypeOK` needs `EndsFinal` (a statement that ends
  a run carries a final status), which is carried along.
- `CancelledNeverClaimedHolds`: no step makes a pending row with a cancel requested
  running. No assumption on order, time or errors: the claim repeats the condition.
- `RunningIffHeldHolds`, `PendingIsCleanHolds`: under `Quiet` (`Prompt`,
  `ColdRestart`, no rejected statement, no run without a gene) but in any order of
  statements.
- `ImplementsBoard`: under `Quiet` the server implements `RunBoard`, each step of it or
  none.
- `EndsAreTrueHolds`, `TerminalIsFinalHolds`: under `Quiet` and `InOrder`.
- `OrphansWereToldHolds`: under `ColdRestart` alone. Statements may be rejected and
  executed in any order, leases may lapse, runs may be without a gene.

`RunningIffHeld` is not inductive. A recovery spares the row being executed only
because its lease is fresh, so `Inductive` adds why it is: a recover request has
bumped it, or found no active run, and no lease has expired since (`Lease`); which
statement the loop awaits determines `activeRun` and `processing` (`DrainShape`); a
process that is down or booting has nothing in flight but the boot recovery
(`OnlyBoot`), which finds every lease expired and clears the running rows in two
statements (`BootProgress`); a progress save in flight is about a row held or over
(`SaveTarget`), without which a retried row could get a gene. The proof has a lemma
per actor. Steps of requests and timers that touch neither table nor loop share
`BystanderStep`, statements that change no column of interest share
`HarmlessExecution`, steps of the loop share `DrainStep`. In the refinement those
steps stutter; a statement that changes the status of a row is a step of the board,
and `Inductive` is what makes it one that the board allows.

How runs end (the last part of `RunQueueProofs`) rests on the order of the connection,
so `Ends` says who waits in it, once, and in front of whom (`LineIsTasks`, with lemmas
about a sequence that is pushed, popped or emptied). A poll answered late is about the
active run or was issued before the sweep that follows it, so its answer is handled
while `activeRun` is still `null` or its own (`PollOrder`); a progress save comes before
the statement that completes its run (`SaveOrder`). Who is told to cancel has read it
from the row of that run (`CancelIsRead`); and when the loop announces an end, the row
has the status that its statement carried, which is `cancelled` only if the flag was set
(`EndIsWritten`), while the announcement reads the flag again. `Orphans` needs none of
this: it is the shape of the loop and of the boot, and that nobody waits for an answer
that was rejected.

`Ends` was checked by TLC on 1.36 million states and `Orphans` on 399,000 before they
were proved; `queue` checks the properties `Inductive` implies.

### Only model-checked

The liveness properties (`ClaimedRunEnds`, `EnqueuedIsServed`), which are out of the
prover's reach, and the counterexample of `lost_kick`.

## 4. The island run

`IslandRun` is `runOptimization` (`optimizer/runner.js`, the coordinator) with the
threads of `optimizer/island-worker.js`; `IslandRounds` is what they promise.

### How state and actions correspond to the code

`phase` is the `await` the coordinator stands at: the ready promises (`spawn`), the
batch promises (`evolve`), `migrate`, `travel`, the results and cache deltas
(`collect`), `saveCache`, `terminate`, the walk-forward. `awaited` are the islands
whose promise of that phase is pending; two travellers to one island have two
promises that one message settles, hence a set. An action of the coordinator is one
event with everything that runs before the next `await` that is not yet settled:
the `batch_done` that completes a batch checks for a cancel, merges migrants and
posts them, or posts the next `evolve`, or asks for the results. The operators
`BatchOver`, `Migrate`, `Migrated`, `EnterBatch` and `Collect` are that code in
order. The pollers (`PollCancel`, `PollHyper`) exist only during a batch.

`inbox` and `outbox` are the two FIFO channels of each thread. The `evolve` handler
of a worker yields after every generation, and a message may be handled there:
`job` is where its two loops stand, `Turn` the code from one yield to the next
(possibly the `batch_done` of one island and the first generation of the next). The
other message handlers are one action each.

`Drawings` is the topology at either level. A random target is a choice; when there
is none (`numIslands` 1) the `do` loop never ends: `Spin`, after which no event
of the main thread happens. `hyper` is the hypermutation state of each island with
its two rates; that diversity has collapsed is a choice wherever the code asks.

Left out: populations, scores and the elitist guard; progress messages other than
the island's generation; `hypermutate_ack`, which has no listener; an exception in a
worker after it is ready, which ends the process (`Crash` of `RunQueue`).

### Runs

| Run | Question | Instance |
|---|---|---|
| `rounds` | do barrier and messages implement rounds, whatever is cancelled when, and does every run end (`FairSpec`)? | 3 planets x 2 islands on 2 threads, torus, 5 generations in batches of 2, travel after every migration |
| `hyper` | do rates and cooldown stay right under manual and automatic events? | 2 islands on 1 thread, 8 generations in batches of 4, duration 2, cooldown 2, 2 manual events |

Three planets are the least for which two send travellers to the same island. Five
generations by two give a last batch that is shorter; several islands on a thread are
what tells a promise per island from one per thread. Duration and cooldown are scaled
from 5 and 15; eight generations leave room for an event, its cooldown and another
event. `CHECK_DEADLOCK` is off: a run is over when it has returned.

`RunIsConsistent` joins the type and five parts: a worker is between two batches
when it is told to begin one, to take in migrants or to hand over its results
(`WorkersAreFree`); each island that a migration waits for has exactly one message
or answer under way (`RepliesMatch`); the log has every generation once, in order
(`LogIsGapless`); after a batch the coordinator knows what each worker has done, cut
short or not (`ReportsAreCurrent`); and a run that was not cancelled has evolved
every island to the end, migrated between any two batches and travelled when due
(`FullRunIsComplete`).

Fairness: threads run, messages are delivered, promises settle. The ticks of the
pollers and the requests are not obliged to come.

The refinement maps `round` to the first generation of the batch that is being
evolved or, once migrants are being sent, of the next one, and `due` to the
`migrate` messages still in an inbox. It says that no island runs a generation of a
batch before every island has finished the batch before, and before everything
sent to it has been taken in. After a space travel this rests on the order of the
channel alone, because the coordinator may go on before the second traveller to an
island has been taken in (`RepliesMatch` says why its late answer does no harm).

### Proofs

For every number of planets, islands per planet, threads and generations, every
migration, travel and hypermutation interval, every topology, cancel and request:

- `RatesFollowEventHolds`, `AutoWaitsHolds` (`IslandProofs`) from `HyperInv`: per
  island, the rates follow `active` and the end of the last event is the last boosted
  generation while none is active.
- `CancelEndsBatchesHolds`: no invariant is needed. Every operator that enters a
  batch reads the flag, so a step with the flag set leaves the batch where it is
  (`Resting`, a lemma per operator).
- `RunIsConsistentHolds` (`IslandConsistency`): the five parts named above.
- `ImplementsRounds`: the run implements `IslandRounds`.

The last two rest on `Inductive` of `IslandInv`. It speaks of one worker at a time
(`Thread`): which message types its two channels may hold in each phase of the
coordinator, what may follow what in a channel, how far the worker is in the batch
(`Reached`) and, from that, which islands are through, which are awaited, and
which reports are still on their way. A step of one worker, or one message, disturbs
one `Thread`; the others are kept by `Untouched`. What makes it a barrier is
`Gathered`: when nothing is awaited any more, no channel holds a report or an
`evolve`, and every island is at the end of its batch or cut short. The counts of
migrations and travels follow from the batch by arithmetic (`Tally`, with lemmas on
division and remainders, as the islands of a worker are those of equal remainder).
For the refinement, `due` counts the `migrate` messages in an inbox; what a post
adds and a receipt takes away is proved by counting positions (`CountJoined`,
`CountRest`).

`Inductive` was checked by TLC on four shapes of run (54,000, 303,000, 21,000 and 27,000
states) before it was proved.

Only model-checked: `EveryRunEnds`.

### Where the code and what is said of it differ

These are described, not run. With the random topology and one island per planet
the search for another island never ends and blocks the main thread, which
"stays free for Express/WebSocket" (README 91). A worker error after `ready` has no
handler but the process's own and ends the server (`runner.js` 483), and threads
that did load are leaked when one does not (496). A cancel accepted while results
are collected does not keep the walk-forward from running (1050, where 1047 says
that it does). A hypermutation asked for after the last poller tick is forgotten.

## 5. From spec to ranking

Run `pipeline` (`MCPipeline`), one station per initial state.

### Editing (`SpecEditor`)

`form` is the editor of the page, `files` the directory `strategies/`, `net` the
requests and answers on their way, in any order; `blocks` and `defaults` are the two
answers the page fills its lists and fields from. `BuildSpecFromUi`, `LoadSpecIntoEditor`,
`Valid` and `Normalized` are the functions they are named for, over a library of five
blocks; a parameter is omitted, a value or a range. A block reference has an instance
id; a fitness section has its three weights, the cap of the return, the rest (the other
cap and the gates) and the fields without a control (`extras`), each of which a file may
leave out. The page fills what is left out when it loads (`AllWeights`, `PageRet`,
`AllRest`), the server when it stores (`Completed`), and the two differ in one value.

`SaveKeepsTheSpec`: a spec that the form can tell and that is loaded and not edited
would be saved with the meaning it had, and accepted. `origin` remembers it and is
forgotten at the first edit. What the form can tell is `Representable`, and what it
cannot is what a load and a save lose:

- `constraints` and `walkForward` have no control and are dropped (`other`);
- every `instanceId` becomes `main` (`app.js` 3291), so that two instances of a block
  become one name;
- a filter's score mode and a threshold's step have no control;
- weights are snapped to 0.05 (the sliders), and a section with some of its weights left
  out is filled up to a sum that the server rejects;
- a cap of the return that is left out is written as 2.0 (`OmittedCapStays`, section 9);
- a file without a fitness section leaves the former inputs standing.

Before the page has the blocks and defaults nothing is promised: a late answer wipes
overrides and fitness. In the model without a property: an edited name overwrites
another file after a confirm, also with "Save As", of which the comment above `app.js`
3888 says that it "always saves as a new file"; the confirm reads the form again; the
answer to a save names the current file even when another was loaded meanwhile.

### Breeding (`ParamSpace`, `GenePool`)

`pop` is the population of one island, sorted by nothing; `mask` its knockout. The
actions are a mutation, a crossover, a `migrate` message and a hypermutation; each
random draw is a choice out of the set of values that `randomParam`, `mutate` and
`enforceConstraints` can yield. Values are in hundredths, so rounding to a step, to a
unit and clamping are what the code does (rounding of binary fractions is not).
`GenesFit`: a knockout stays in every individual, and in a run without knockouts every
individual satisfies each constraint that is `Settled`. `BestSurvives`: migration and
hypermutation never lose the best.

`enforceConstraints` makes one pass. A constraint is settled by it if the genes have its
sides, its own repair satisfies it whatever the gene, and no later one undoes that. The
others the code leaves open, and genes may violate them: a constraint between two
parameters of which one is pinned is skipped (151-153), although the comment at 53-55 says
that it is rejected, and `docs/spec-guide.md` 680 that one with both sides pinned is (only
a pinned left-hand side with a literal is, 67); the repair of a later constraint may move
a value back (the comment at 143-146 says that one pass is enough); a range may have no
room. `OrderingMends` is the case in which repair is certain.

The instance is a spec with two parameters and three constraints (an ordering, a
literal, one with a pinned side) on four individuals, without and with knockouts; a pair
of constraints of which the second undoes the first; and single individuals for the three
constraint groups of the legacy strategy in their full ranges, all of which are settled.
With a knockout no constraint is claimed: frozen values are written after repair and make
infeasible pairs, by design of the code. A step of 0.25 is rounded to tenths (295-299,
313-316).

### Evaluating (`Indicators`, `DataBundle`, `Blocks`, `Evaluation`)

`market` is what the database yields, bar by bar, with gaps; nothing else changes. The
rest are operators: `LoadDataBundle`, `HtfBarIndex`, the cut at the end date, slices,
`ComputeWindows`, every indicator over a series, and what every entry, filter and
regime block says on a bar. The properties compare them with one another:

- `NoLookahead`: what a block says on a bar of a slice is what it says when the
  data end with that window, on both timeframes.
- `WindowsTile`: windows are not empty, do not overlap, leave no gap, stay inside.
- `RecalcSeesTheRun`: the detail page computes the trades of a run again from other
  candles (another warm-up, more bars since), and the blocks must say the same.

Seven bars of three kinds with periods of two or three are enough for every indicator
to warm up, cross and leave its warm-up again, and for higher timeframes of two and
three bars to be cut in the middle. `RecalcSeesTheRun` needs that each period fits the
warm-up. The code's 200 bars are less than the largest `emaSlow` (400) and `rankLen`
(500), for which the sameness that `htf-transport.js` 13 and `routes.js` 394 claim does
not hold; and the bar that opens at the end date is in the run only. Known and
not stated: a range for `htfTfMin` loads the largest timeframe only, and all other
values score -10000 (`data-bundle.js` 62-67); the warm-up counts the longest single
period (70-78); the trading start stays 0 when no candle is late enough.

### Ranking (`Fitness`, `Results`)

`Fitness` is the score of a gene with its gates; `Results` is a series of runs over one
data set: islands evaluate genes, workers report deltas, the runner merges them
into the cache file through a temporary file and a rename, ranks, and a crash or a
failed save may come in between. `RankingIsComplete`: the list of a run has the
best genes that any island evaluated in it or that an earlier saved run knew. Three
runs are the least in which a gene cached by the first is dropped by the cap of the
second and asked for in the third. The metrics of a gene hold the trades and the profit
factor of each regime, and a regime with five trades or more and a profit factor below
the floor eliminates the gene (`WorstRegimes`); the instance has genes at the floor, below
it, and below it with too few trades. A gene without losses has an infinite profit factor
and few trades. Known and not stated: the walk-forward gate of `computeFitness` never
fires, since no caller passes it a report; an infinite profit factor counts as 0 in the
walk-forward report (`walk-forward.js` 160, 163).

The cap of the cache file keeps the best entries whatever their number of trades
(`fitness-cache.js` 196), but the list takes only genes with enough trades, so a file
full of good genes with few trades drops genes that a later list should have; its proof
brought this to light. `RankingIsComplete` says exactly when: a gene of an earlier run is
missing only where `MaxEntries` genes that score better are known (`PushedOut`), and
listed all the same if an island evaluates it again. The instance has a cap of two, so
genes are pushed out, also listable ones by one with few trades; that the list is
authoritative nevertheless (`RankingIsAuthoritative`) does not hold (section 9).

### Proofs

`PipelineProofs`, for every value of the constants that satisfies their assumptions.

- `RankingIsCompleteHolds` (any islands, threads, genes, metrics, weights, failed saves
  and crashes). The theory of rankings comes first: `Best(s, S, n)` are the n best of S,
  `Kept` says that a set F has, of a set G, everything but genes with n better ones in
  F. `Kept` survives the cap, the union over islands and the merge of deltas. The
  invariant `RankFits` says at each phase which sets hold what: the file keeps what any
  saved run evaluated; from the load on so do the caches of the islands; a worker that
  has reported has contributed its list and all its deltas; the temporary file is the
  capped merge.
- `WindowsTileHolds` (any market, warm-up, start, share and number of windows): the
  windows come from integer divisions, so the lemmas are about quotients.
- `GenesFitHolds` and `BestSurvivesHolds` (any space, constraints, population, masks and
  scores). A gene is `Bred` if it carries the mask, has only allowed values and, without
  masks, satisfies the settled constraints; one pass over the constraints (`PassTo`)
  makes it so, and every mutation, crossover, migrant and fresh individual is. The best
  individual is never among those that migrants or fresh ones replace, because there are
  fewer of them than slots.
- `SaveKeepsTheSpecHolds` (any library, files, inputs and number of clicks). The heart
  is `ReadsBack`: what `makeParamControlRow` shows of an entry of a spec is what
  `readParamOverrides` reads back, pinned, a range, or left out; in the last case what
  is read is what the block declares, so the meaning stays. From rows this goes to
  references (`ShownIsRead`, `MeaningStays`), to lists that skip empty rows
  (`RowsAreRead`; `ReadRows` is a recursive function, shown stage by stage) and to the
  whole form (`FormIsRead`, `KeepsTheSpec`). For the fitness section, what the page
  tells of it (`Told`) has weights that the server completes to the same ones. The
  property alone is not inductive. `EditInv` adds that the form has the right shape for
  the blocks the page knows and shows the spec of `origin` if it is representable
  (`Faithful`), that the files, and every answer to a load on its way, are specs the
  server accepts, and that what is on its way to be saved has the form of a spec with
  all three weights (`Whole`). TLC checked `EditInv` on all states of the run.
- `OrderingMends` (any gene): an ordering of two free parameters that moves the larger
  one is satisfied by its repair if that one has room for a step above every value of
  the smaller. What is on the grid is a matter of rounding (`MultipleIsRound`,
  `ClampIsNear`).

What they assume: `RegistryAssumption` is what `contract.js` (309-313) demands of a
parameter, up to a range of one value, which it forbids and the lemmas allow; numbers
are in units in which they are natural. `FilesAssumption`: the files are specs the
server accepts. `SetupsAssumption` says that fewer migrants come than there are
individuals. The code's default is 3 of 80; a request may ask for other numbers, and
nothing checks them; it also says what a space and a constraint are, and that the score
of a gene is a number. No assumption is made about repair. `Enforce` is a fold over
constraints, written as a recursive function; what holds of each stage of it is shown by
a minimal counterexample over the stages.

## 6. Backtest and generated scripts

Run `backtest` (`MCBacktest`): every sequence of four to six bars out of 28 kinds
(20 for the charts).
`CHECK_DEADLOCK` is off because the data end.

`Runtime` is one bar of `runSpec` as functions from account to account, composed in
the order of the loop: fills at the open, exit blocks, snapshot of the fitness
region, entries. `Sizing` has all sizing blocks, `Legacy` is the bar of
`strategy.js`. Prices and money are integers and units are rounded down; a size of
zero still declines an entry. What entry and filter blocks say is part of the bar,
as is the ATR: seven price patterns, each with four sets of votes.

- `BooksBalance`: profit against the snapshot, summed trades and drawdown of the
  fitness region fit together, unless equity was cut off at zero.
- `StopTakesTwoBars`: the flag, the queued close and the fill follow each other.
- `SameAsLegacy`: a ported spec holds the position and equity of the legacy engine.

`SameAsLegacy` speaks of the time before the first bar that the engines treat
differently on purpose or by accident; the comment in `Backtest` lists these bars
(`apart`). They are the result of this comparison: parity tests do not name them.
That the list is complete is what the proof says; two of its entries came from it. With
`useInitialCapital` the legacy strategy caps a size by the leverage on the initial
capital (`strategy.js` 222), the runtime by that on the equity (`runtime.js` 317-319),
which the third port lets TLC reach. And on a reversal at which an open position has no
equity left, the legacy strategy still queues the entry (`strategy.js` 327), the
runtime does not (474); they part if the close at the next open earns something again
(`ReversesBroke`, which no bar of the instance reaches).

`Pine` and `PineStrategy` are what the scripts of `pine-codegen.js` do on a bar of the
chart; TradingView's broker emulator is external and does what the generator's
comments say of it. `Chart` runs them beside the runtime.

- `TrackerLetsGo`: with a structural exit the tracker of the alert script cannot stay
  in a position, from which it would suppress every later alert.
- `SameAsStrategy`: the strategy script holds the runtime's position and tranches
  until the first bar of the list in `Chart` (`Differ`).

An order of the script without a quantity takes `default_qty_value`, which is 0
(`pine-codegen.js` 498), and a quantity is passed only for sizing by risk with a hard
stop (895-903). So the strategy script of every other spec opens nothing (`HasQuantity`),
and the first entry of the runtime is a bar of the list. Four of the charted specs are
sized by ATR risk over a hard stop, the fifth is not.

What the model shows and no property claims: without a structural exit a tracker
whose tranches have all fired keeps the position for ever; on a reversal bar the
tracker turns round but no alert is sent; a bar on which both directions fire
sends both alerts although the runtime takes the long one only (`pine-codegen.js` 3:
"the same entry signals the runtime would fire"); and the comment "First TP hit closes
the WHOLE position" (609-614) is not what step 2 below it does.

The bounds: around a price of 20 with an ATR of 4, targets, stop and emergency stop lie
apart, and a bar can reach any of them on either side. Six bars, for the spec that is
the first port of the legacy strategy, hold an entry, a stop over two bars, a reversal
and another entry; five, for the charts, an entry, a stop or its targets, and another
entry; four are enough for sizing and the modes. `maxBars` of 2 to 4 lets time exits
happen. Three ports and ten other specs use every exit block, aggregation mode and
sizing block; the five charted ones use the exit blocks in the combinations that the
generator tells apart.

### Proofs

`BacktestProofs`, for all bars, costs, specs and lengths within the assumptions below.

- `BooksBalanceHolds`. The invariant needs the type of the account, which is where the
  work is: equity is a number only if every sizing block yields one (ten blocks, among
  them products of powers, streaks and averages) and if splitting an entry into
  tranches and closing them one after the other keeps the sum. `Booked` relates
  equity, counted profit and drawdown from the first bar of the fitness region on.
- `StopTakesTwoBarsHolds`. A stop is armed only on an open position of a spec with a hard
  stop (`Armed`); exit blocks leave a position or go flat, and a queued close stays
  queued until the next open (`Leaves`).
- `TrackerLetsGoHolds`. On each bar the tracker leaves, or it still has time, or a tranche
  that never fired before does (`Tracks`); of those there are finitely many, and each
  puts the end off by at most one bar (`InTime`).
- `SameAsLegacyHolds`, for every port of the legacy strategy. That both hold the same
  position is not inductive. `Twin` says what else agrees between two bars: each tranche
  with its units, limit, and the bar of the first target (`Same`, `Mirror`), the queued
  close, the queued entry unless both are flat and bankrupt (`SameQueue`), and where the
  flag of the stop is. The two bars are then compared stage by stage: entering the
  fitness region (`EnterRegionTwins`), the queued close (`CloseTwins`), the entry with
  its size (`OpenTwins`, `SameSize`), the exits (`ExitTwins`), and what is queued for the
  next bar (`QueueTwins`). The exits are split by what the position is: flat, armed by
  the stop, hit by the emergency stop, or open; for the last the targets that fill
  (`TargetTwins`) and the order of the exits that are deferred (`DeferTwins`) need lemmas
  of their own. `BarTwins` composes the stages on a bar that is on no entry of the list
  (`Agrees`), `FinishTwins` is the close at the end of the data, after which only equity
  and units still agree.

What they assume: bars and parameters are integers and prices positive (`BarsAssumption`,
`SpecsAssumption`); active tranches have a share and a distance, `maxBars` is at least 2
(`structural-exit.js` declares 5; for the runtime only of ports, `PortsAssumption`), a
bar has a vote of each entry block of a port, and a spec has at least one bar. TLC
evaluates all of them on the instance.

Where a JavaScript loop computes a value (tranche sums, powers, the units that close on
a price), the model has a recursive function over the rounds of the loop, and what
holds for its last round is proved from the least round that would violate it
(`HasSmallest`, `StagesStayIn`, `StagesExist`).

## 7. Candles and stores

### Candles (`CandleStore`, runs `candles`, `stale_cache`)

Jobs of the symbol endpoints (`job`) ingest, update one symbol or update all; each
`await` is a step: the two queries for the ends, a request to Binance, and the three
statements of `insertCandles` over the staging table that all jobs share. A request
may fail, the process may crash, a symbol may be deleted, the minute goes on. `Limit`
is `KLINE_LIMIT`. A candle is a minute with a flag whether it was over when it was
fetched. `cache` is what a run has computed under `DatasetId`.

- `HolesHaveACause`: a minute missing between two stored ones is still going to be
  asked for, or is `excused`: it was the extra minute of a window that is one longer
  than the limit, in a batch that another job removed from the staging table, in the
  part a backward job did not get to, or deleted. The list is the finding: an update
  looks at the ends only, so nothing fills these holes but a full ingest.
- `AddedBarsMiss`: as long as the symbol is not deleted, a bar that is added anywhere, in
  front, in a hole or at the end, changes the data set id, so a cached fitness is used
  for the very bars it was computed from, with no minute less.
- `AddedCandlesMiss` (run `stale_cache`, a violation): minutes that are added inside a bar,
  the last one while it forms or one with a hole, leave the id unchanged, and the run
  takes the fitness computed without them. `runner.js` 225-226 and `fitness-cache.js`
  27-29 say that adding candles invalidates the cache. One job and six minutes show it.
- `JobsEnd`, under weak fairness of each job's next step: statements execute and
  requests are answered.

Two jobs on one symbol with a limit of two and six minutes make windows overlap, meet
and leave one out. `Init` has the table empty or all but the first minute stored, so
forward and backward jobs have work. The candle of the minute in progress is stored
unfinished and `INSERT OR IGNORE` never replaces it (`ingest.js` 200): the model has it,
no property claims otherwise. The retry after a 429 is a stutter. A deletion takes the
rows away and leaves the cache files, so what is ingested afterwards may meet the id of
the deleted data with other bars in it: the cache keeps the entry, marked, and
`AddedBarsMiss` excepts it.

**Proofs** (`CandleProofs`, for any symbols, jobs, request limits, bar lengths, failures
and crashes): `HolesHaveACauseHolds` and `AddedBarsMissHolds`. The property about holes
looks at the stored minutes; the invariant (`CandleInv`) at more: the minutes of a symbol
that are `Known`, stored or excused, together with those a backward job has yet to ask
for, leave no gap (`NoGap`). Each step of a job then either keeps that set, extends it
from a minute in it (`Joined`), or drops its first minute (`Leaves`: the loop of
`backfillCandles` ends before it asks for the first minute of all), and a set
without a gap survives all three (`Extended`, `Trimmed`). For that a forward job's cursor
follows a known minute and its batch has no gap from there (`ForwardJob`); of what a
backward job has to ask for, everything from the first row of its batch on is in the
batch or excused (`BackwardJob`); and a batch about to be merged is staged or excused
(`BatchStaged`, `StagedKnown`). For the cache, no statement but a deletion takes a row
away, so the bars of an entry are still there (`CachedStored`); the id holds their number
and the stored bars are finitely many (`FinitelyManyBars`), so an equal id leaves no
room for another one.
TLC checked the invariant on 69,000 states of one symbol, 121,000 with two faults and
573,000 with two symbols. Only model-checked: `JobsEnd`.

### Stores (`Stores`, run `stores`)

The migration executes `db/schema.sql` over whatever an older release left, with
DuckDB's write-ahead log: a statement is logged until the checkpoint, and an `ALTER`
that changed nothing cannot be replayed. Requests upsert a spec and enqueue, deploy a
run, save a spec file, and deliver alerts; each is a sequence of awaited statements,
and a crash loses the requests.

- `CrashesAreSurvived`: the database can always be opened again and is served only
  with its whole schema; no spec file is half written.
- `SignalIsOneEvent`: however often a signal arrives, it is one event, every
  acknowledgement names that event, and at most one of them calls it new.
- `AlertSettles`, under `FairSpec`: an authentic alert is acknowledged, unless it is
  too old by then. TradingView repeats an alert without an answer (strong fairness,
  since a client may be busy), handlers go on, somebody restarts the server.

Two copies of one signal and a third alert, two clients, one crash, and a schema of a
table, a column added to it and a second table: the least in which a probe meets
another's insert and a crash meets each kind of statement. `OneEditor` is TRUE because
two overlapping saves of one file share `<name>.tmp` and do tear it. Of two requests
with the same new spec one is rejected by the unique index and answered 500; so is the
second of two concurrent copies of an alert, whose repetition is then acknowledged.
Failed authentications of one minute collapse into one event.

**Proofs** (`StoresProofs`, for any alerts, keys, clients, schema, specs, files and
crashes): `SignalIsOneEventHolds`, `SpecsAreStoredHolds` (every stored run and deployment
finds its spec) and, under `OneEditor`, `CrashesAreSurvivedHolds`. In `StoresInv`,
`SignalInv` says what a request knows between its statements: the key is its alert's,
and a request that has inserted and is about to answer is the only one to call that
event new (`NewsIsOwn`). `SchemaInv` says that the log can be replayed in every state,
from any main catalog that is a prefix of the schema; `FileInv` that a temporary file is
torn only under the hands of the one request that fills it. TLC checked it on 155,000
states. Only model-checked: `AlertSettles`.

## 8. Page and TradingView

Run `page` (`MCPage`), one part per initial state.

**`Page`: the runs table.** `rows`, `boxes`, `cells` and `go` are what is displayed,
`selectedRunIds`, `compareMode`, `expandedRunId` the variables of `app.js`; `answers` are
the requests in flight, answered and delivered in any order. `SelectionSurvives` ties
the checkboxes and the button to the selection. `TableConverges`: unless a row is
expanded, the table becomes the server's list. Fairness: the ten-second timer fires,
the server answers, answers arrive. The condition is the code's: a row expanded while
a refresh is in flight is wiped, `expandedRunId` stays set, and no refresh is asked
for until the user expands and closes a row again (778, 801).

**`Timeline`: the date range of the dialog.** `tl` is the time line, `drag` the drag in
progress. Checkboxes, the period, the mouse and the keyboard each move the bar with
arithmetic of their own; `BarFits` says that it lies in the data, behind the warm-up, and
is as long as the period or as the data allow. "Start" posts the midnights before its two
ends (`Posted`; 1015-1017, 1370-1371). `TimelineFits` says what is left of that: the
posted start takes less than a day from the warm-up, so it lies before the data if the
warm-up is shorter than that; the end is within the data; and the dates are apart by the
period, or by what the data allow within a day. If the data are shorter than the
warm-up, the range ends before it begins and is posted like that. Several symbols give
the union of their data; the warm-up is that of the first checked interval.

**`RunPages`: detail and compare page.** `detail` and `pair` are what is displayed,
`requests` the answers on their way. `PagesFit`: everything displayed belongs to the run
that is open and to the sizing in force, as long as the user did nothing while an answer
was out (`hurried`). The sizing in force (`SizingOf`) is the chosen one only for a run
without a spec: the server sizes the others by their spec, whatever is asked for
(`routes.js` 394-398), and answers with the name that was asked for (445), which the page
shows. The condition is needed: answers are written to the page whatever is open by then
(`ScreenIsTheUrl` and `LegacyIsNotAsked`, section 9). Within it the errors are
interesting: a failed recalculation leaves charts and export list of the former sizing,
a 404 of the run gives the title "undefined". Back from the compare page changes the URL
but not the page, although 69-71 say that Back works; the browser's history is not
modelled.

**`TvBridge`: a run sent to the chart.** Each sender's request is a sequence of awaited
calls on the one chart; they interleave, because nothing serializes them. `report` is
what TradingView displays, parts of an unfinished calculation included; it may change
before any poll, and a poll that reads another one starts the count again (184-188).
`AnswersAreOwn`: a request that had the chart for itself, from a TradingView that was
not slow, and that is answered before its polls run out, is answered with the metrics
of its own gene on its own chart. Slow is a TradingView that has not begun a new report
when the wait of four seconds ends, or that shows one part of an unfinished report to
three polls: nothing in the code tells such a part from the result (`SettledIsOwn`,
section 9). A request whose chart another one changed meanwhile (`mixed`) may get the
metrics of that run, and after the last poll whatever was read last is returned. Six
polls and two parts let the report change twice under the polls and be settled after
that.

**`PineScripts`: scripts brought to TradingView.** The eight steps of `pine-deploy.js`,
each of which may fail, beside export and push of the server and another user of the
editor. The script opens a new tab, or the script to be overwritten, and sets the source
after a fixed wait (343, 276) without looking at what the editor shows; `late` is what
it is still about to show, `opened` what the user had open, and `overtaken` says that
the source was set too early. `DeployIsHonest`: with nobody else in the editor, scripts
that were saved stay as they were except the one to be overwritten and, if the source
was set too early, the one that was still open; a deployment that stops at the checks
changed nothing; and if it was in time, no "title 1" appears and DONE for a new script
means that it is stored. `NonDestructive` and `DeployedIsStored` (section 9) are what the
script promises beyond that. In the model without a property: another device's script
of the same title, a user who switches tabs between open and save, the temporary file
left by every failing exit, and the push, which writes a strategy under the name that a
later export answers with `reused: true` (`routes.js` 601).

The instances: two runs and two requests in flight are the least for an answer that
overtakes another; two symbols with overlapping data and three intervals and periods
put the warm-up and the period below, at and above the length of the data, and the ends
of data and warm-up on and between midnights; two senders with different charts; up to
two events of others during a deployment into clouds with and without a script of the
title; four kinds of runs on the pages and up to two requests at a time.
`CHECK_DEADLOCK` is off: runs, requests and polls are bounded.

**Proofs** (`PageProofs`, for all values of the constants): the five safety properties.
The parts share no variable, so each has its invariant and its own `...Acts` lemma that
says which steps can be its own. `Page` and `Timeline` need little more than types: the
arithmetic of each way to move the bar is a lemma, the least start and the latest end of
a set of symbols comes from a minimal counterexample. The chart needs what a request
that is alone has brought about so far, stage by stage (`OnItsChart`), and that an
unfinished report can be told from a finished one (`ReportInv`). A deployment needs the
same per step, with what the cloud was before and what the editor can show as long as a
script is late (`DeployProgress`). The detail page needs to know which requests may be
out beside which contents: as long as nothing is `hurried` there is at most one answer
per purpose on its way, and it is for what is open (`Accounted`, `PairAccounted`).

The proofs need assumptions on the constants that `MCPage` names: symbols and intervals
are finite, data begin before they end and periods are whole days
(`TimelineAssumption`); bounds are numbers and a gene's wanted chart is a record of
three fields (`BridgeAssumption`); saved scripts have a title and a source
(`ScriptsAssumption`); no run is called like a placeholder of the page and each has a
spec or has none (`KindsAssumption`). TLC checked the invariants on instances of 469,000
and 1.2 million states. Only model-checked: `TableConverges`.

## 9. What does not hold

Ten statements that a comment, a document or a script of the repository makes of the
program, and that the model refutes. The first two are runs of their own; the others
stand in the modules, each under a comment that says so, and are checked by writing
`INVARIANT <name>` in the configuration of the run named below in place of its
properties. The property on the right is what holds instead.

| Statement | Run | What holds |
|---|---|---|
| `CancelledLeavesQueue` | `lost_kick` | `CancelledNeverClaimed` |
| `AddedCandlesMiss` | `stale_cache` | `AddedBarsMiss` |
| `CancellingIsSeen` | `queue` | `EndsAreTrue` |
| `RankingIsAuthoritative` | `pipeline` | `RankingIsComplete` |
| `OmittedCapStays` | `pipeline` | `SaveKeepsTheSpec` |
| `ScreenIsTheUrl`, `LegacyIsNotAsked` | `page` | `PagesFit` |
| `SettledIsOwn` | `page` | `AnswersAreOwn` |
| `NonDestructive`, `DeployedIsStored` | `page` | `DeployIsHonest` |

- `CancelledLeavesQueue`: section 3. `AddedCandlesMiss`: section 7.
- `CancellingIsSeen`. `routes.js` 816-818: "flip the in-process cancelRequested flag so
  the runner sees it via shouldCancel() and stops within the current generation";
  `docs/backlog.md` 487: "the flag + the DB row are kept in sync". A cancel that is
  answered while `completeRun` is awaited finds the run still active: the row is stored
  as `completed` (1747), `run_cancelled` is announced (1760).
- `RankingIsAuthoritative`. `runner.js` 968: "the cache is the authoritative ranking", of
  "all evaluations ever" (966). The file keeps the 50,000 best by score and knows nothing
  of the trades a ranking asks for (`fitness-cache.js` 196): genes of an earlier run that
  could be listed are pushed out by better ones that cannot.
- `OmittedCapStays`. `app.js` 3409-3411: "Seeded with the same values engine/spec.js
  defines". A cap of the return that a file leaves out means 1.0 to the server
  (`spec.js` 86); the page fills in 2.0 (3828) and saves that.
- `ScreenIsTheUrl`. `app.js` 68-69: "The URL is the single source of truth for which runs
  are on screen". The answers for a pair are written to the columns when they come
  (2081-2082), also when another pair was opened since.
- `LegacyIsNotAsked`. `app.js` 2331-2332: "Button is pre-disabled for legacy runs in
  openRunDetail". The button is set when the run's answer arrives (1648); until then it
  is as the former run left it, and a click asks for the new one (2338).
- `SettledIsOwn`. `tradingview.js` 173: "Wait for recalculation to settle". The wait is
  `sleep(4000)`; three equal polls may have read the report of the former inputs or a
  part of the new one.
- `NonDestructive`. `pine-deploy.js` 2 calls itself "non-destructive", 10: "creates a fresh
  editor tab (NOT setValue-over)". If TradingView shows the new tab later than 400 ms
  (343), or the script to be overwritten later than 500 ms (276), the source is set in
  and saved over whatever the user had open.
- `DeployedIsStored`. 363: "poll the toolbar button's class until it flips `unsaved-` ->
  `saved-`". The test is `indexOf('saved-') >= 0` (374), which `unsaved-` passes, and the
  final look at the list (425) compares titles: when a script is overwritten and the save
  is not confirmed, DONE is reported and the old source is stored.

## 10. Checked with TLC only

- Liveness under fairness: `ClaimedRunEnds`, `EnqueuedIsServed`, `EveryRunEnds`,
  `JobsEnd`, `AlertSettles`, `TableConverges`. The provers cannot do ENABLED.
- `SameAsStrategy`: the relation is between the runtime and a script that is evaluated on
  a different bar of the position, and has a part for every phase of both bars.
- `NoLookahead` and `RecalcSeesTheRun`: what indicators compute on every prefix of a
  series. Each indicator is a fold over bars, and that two folds over series of
  different length agree where they overlap is an induction over data for each
  of them: the induction theorems take an operator as a parameter, which no installed
  prover instantiates, and the detour over a minimal counterexample (section 6) would
  have to be made again for every indicator.

Facts about finite sets that seem to need induction (a least element, a maximum) are
proved from a minimal element of the strict subset order (`WFMin` and
`FS_StrictSubsetOrderingWellFounded`). The inductive invariants are not among the
invariants of the runs, since several quantify over infinite sets or multiply the
time; each was checked by TLC on small instances, with the numbers of states given
above, before it was proved.

## 11. Not modelled

- Reads without effect (`listQueue`, `getRun`, the lists of the API), formatting,
  drawing, logging. The deletion of a deployment.
- The live panel and the data page of `app.js`, and the browser's history.
- The choice of knockouts and the console report of `runner.js`; populations and
  scores in `IslandRun`; the Sharpe ratio and the walk-forward report's averages: sums
  that nothing reads back. The tally by regime, which the regime gate does read, enters
  `Fitness` as trades and profit factor of each regime.
- Rounding of floating point. Values are integers in units in which the code's
  comparisons come out the same; where rounding is the point (steps, units, windows)
  it is modelled.
- The text of Pine scripts: templates of blocks are taken to say what the blocks say.
  They differ while higher timeframes warm up, in the NaN cases of `rangeRegime` and
  `volRegime`, and in the window of the Bollinger percent rank.
- The check scripts other than the port of genes in `parity-gate.js`: they are tests.
- The shape checks of block declarations (`contract.js`, `lookahead-check.js`), which run
  once at load. `registry.ensureLoaded` sets its flag before it awaits the import, so
  a request that comes during the first one's load meets a registry that is not
  filled yet; the model starts with the registry loaded.
- DuckDB, the file system, Binance, TradingView and its `tv` tool are external and
  modelled from how the code uses them.

## 12. How to run

    tlc -config RunQueue_queue.cfg MCRunQueue
    tlc -config RunQueue_faults.cfg MCRunQueue
    tlc -config RunQueue_liveness.cfg MCRunQueue
    tlc -config RunQueue_lost_kick.cfg MCRunQueue
    tlc -config IslandRun_rounds.cfg IslandRun
    tlc -config IslandRun_hyper.cfg IslandRun
    tlc -config MCPipeline_stations.cfg MCPipeline
    tlc -config Backtest_bars.cfg MCBacktest
    tlc -config CandleStore_jobs.cfg CandleStore
    tlc -config CandleStore_stale_cache.cfg CandleStore
    tlc -config Stores_requests.cfg MCStores
    tlc -config Page_screens.cfg MCPage
    tlapm RunQueueProofs.tla
    tlapm IslandConsistency.tla
    tlapm IslandProofs.tla
    tlapm CandleProofs.tla
    tlapm StoresProofs.tla
    tlapm PageProofs.tla
    tlapm PipelineProofs.tla
    tlapm BacktestProofs.tla

With two workers every run ends within five minutes.
