# Verification of My_roBot

TLA+ models of the trading robot, checked with TLC and proved with TLAPS. The
robot is Python; its packages are under `src/src/`, its entry point is
`src/run.py`, its requirements are the Russian specifications under
`src/openspec/specs/`. Paths below are relative to `src/src/` unless they start
with `run.py` or `openspec/`.

To check a model: `tlc -config TradeExecution_safety.cfg MCTradeExecution`.
To check the proofs: `tlapm TradeExecutionProofs.tla`. `PROJECT.json` lists the
runs, the source lines of the definitions, the hazards the properties are
aimed at, and for every property a plausible change of the code that breaks it.
Where several small definitions share the lines of one handler, the map names
the ones that hold its control.

## The system

One *robot* process (the core) keeps the market data, the control API and the
supervisor of *contour* processes. The *emulation contour* trades on live data
against a broker simulated in its own memory. *History runs* are contours that
replay a range of the past, each in its own process. The processes share files,
never memory:

| file | written by | read by |
|---|---|---|
| `core.sqlite3` | the core: desired states, members, rows of history runs, heartbeat | contours, runs, the next start of the robot |
| `status.json`, one per contour | the contour | the core, its control views, the next start |
| the trade journal (SQLite), one per contour | the contour | the contour after a restart, exports |
| `market-data.sqlite3` and its change feed | the core | contours, runs |

```
 HTTP threads --commands--> core --desired state--> core.sqlite3 --read every tick--> contour
                             |  <--status.json----------------------------------------- |
                             |-- stdin "stop", terminate, kill ------------------------> |
                             |-- history queue thread --> run process (stdin, stop flag, heartbeat)
 market stream --> ingestion --> change feed --> follower cache --> contour's live step
                                   contour: manager --commands--> simulated broker
                                            journal <--executions---'
```

### Components

What each keeps and does, what makes it hard, and what makes it correct.

| component | state | operations | hard | correct when |
|---|---|---|---|---|
| **Trade execution**: `trade_management/manager.py`, `broker/journal_broker.py`, `trade_journal/{storage,reducer}.py`, `assembly/contour.py` (`on_bar`) | journal rows of trade, orders, outbox, reservations, events; the broker's schedule and positions in memory; the step's pending bar and cursor | submit a plan, an addition, a reduction, a close, a stop move, a cancellation; deliver; simulate a bar; journal executions; restore | a bar's executions are several transactions; the broker's memory is rebuilt from rows; several commands of a trade are in flight together | the two books agree, nothing fills twice or never, protection acts on every bar, risk is reserved exactly while an increase may fill |
| **Contour control**: `assembly/{contour_control,core_state,recovery}.py` | desired generation, mode and members; `contour_state`; entry blocks in memory; `status.json` | launch, add, remove, return an instrument, stop with a mode; before/after tick; start after a crash | desired and applied states are in different files; blocks live in memory only; every boundary repeats the stop | an instrument with a trade stays in the cycle, nothing enters against the desired state, stopping ends, `stopped` is told of an empty journal only |
| **History runs**: `assembly/history_runs.py`, `process.py`, `pulse.py` | rows, process objects, queue thread, watcher threads, the run's stdin | submit, claim, launch, stop, close, recover, adopt, record an outcome | reads and writes of a row are apart; a process may end before it is recorded as running; kill -9 leaves runs behind | the slot limit holds, rows tell the outcome, no run is launched twice, a stop arrives |
| **Launch control and supervision**: `bot/launch_control.py`, `assembly/core.py`, `process.py`, `recovery.py` | pending launch, membership queue, pid, exit state | start, stop, membership with revisions, supervise, adopt | HTTP threads hand commands to the main thread and wait with a timeout; exits race marks | one contour at a time, every accepted command is applied or refused, no dead pid blocks a launch |
| **Runtime lock**: `runtime_lock.py` | `robot.pid` | acquire, steal from a dead pid | check and unlink are apart | a living holder keeps its directory |
| **Contour feed and demand**: `assembly/{feed,demand}.py`, `data/{follower,market_store}.py` | change feed, cursors, retention, the follower's cache; rows of demand and obligations | append, read, acknowledge, prune, rebuild from a snapshot; ask, serve, release | retention races slow consumers; the producer may be replaced; a release races a new request | the cache is the store up to its cursor, no change is skipped; what is asked for or owed is served |
| **Market ingestion**: `data/{cache,ingestion,stream_ingestion,lanes,reconciliation}.py` | versions of minutes, states of intervals, handoffs, needs | load, stream, re-read, judge, warm up | history and stream meet; a missing minute needs several checks; late corrections | one version is played, a minute is called absent on evidence only, ready means complete |
| **Live loop and analysis**: `bot/{trading_bot,live_analysis,run_session}.py`, `scheduler/`, `data/cache.py` | cursors, virtual clock, misses | tick, jump over a hole, analyse, end | holes, lagging pairs, failed reads and writes | every bar is analysed once and in order, a run says truly how it ended |
| **History start**: `run.py`, `history/preflight.py`, `history/selection.py` | session, clock, stop reason | check, move the start, repeat, stop | a stop crosses the change of session; the check repeats itself | the run starts where everything is there, and stops |
| **Entries and sessions**: `trade_management/{manager,session_guard}.py`, `portfolio/risk.py` | reserves, sides, marks of a session | size, admit, reserve; refuse, flatten, carry | sizes are computed before the transaction that reserves | the budget and the session hold |
| **Profiles**: `trade_management/profiles/` | plan, targets, stop | plan, move, add, give up | partial fills rebase the plan | the plan's distances and break-even hold |
| **Contracts and calendar**: `history/contract_{chain,lifecycle}.py`, `market_calendar/` | phases of a family; versions of days | pass to the next contract; refresh, judge candles | order left at the cutoff; days rebuilt and corrected | one contract trades; an absence called planned is one |
| **Projections and events**: `trade_journal/export.py`, `clusters/`, `market_structure/`, `notifier/telegram*.py`, `data/request_budget.py` | files, outboxes, receipts, windows | export, consume, publish, send, admit | crashes between effect and mark | files agree with the journal, effects once, ceilings hold |
| Strategies, rendering, API clients, configuration, tools | none over time, or I/O | numeric and textual computation | | free inputs of the models |

`PROJECT.json` has the same list, finer, with the reason for every part that is
left out.

## Modules

| module | models | proofs |
|---|---|---|
| `TradeExecution` | one trade: journal, simulated broker, live step, deaths and failed writes | `TradeExecutionProofs`, `TradeBookProofs` |
| `ContourControl` | core, contour process and their three records | `ContourControlProofs` |
| `HistoryRuns` | queue thread, API call, watchers, run processes, restarts of the robot | `HistoryRunsProofs` |
| `LaunchControl` | main thread, HTTP threads, the supervised contour, its record, the robot's lives | `ControlProofs` |
| `RuntimeLock` | starts over `robot.pid` | `ControlProofs` |
| `MarketFeed`, `FeedCopy` | feed, retention, readiness, the contour's reader; what its copy promises | `IngestionProofs` |
| `PairDemand` | demand and obligations of the contours, the poller of the core, readiness | |
| `CandleStore` | the versions of a minute, conflicts and fenced re-reads, pins and consumption | `IngestionProofs` |
| `GapResolution` | the lanes that judge a minute without a candle, and the contour that passes it | `IngestionProofs` |
| `StreamHandoff` | subscription, buffer, acknowledgement and load of a pair | `IngestionProofs` |
| `PairCoverage` | needs, windows, lanes and rounds of one live pair | |
| `HistoryLoop`, `HistoryTicks` | the loop of a run and how it ends; several timeframes, holes and leaps | `ServiceProofs`, `PromiseProofs` |
| `HistoryStart` | check before the start, the moved start, the repeated attempt | `HistoryRunsProofs` |
| `LiveAnalysis` | bars, cursors and signals of the live step | `ServiceProofs` |
| `EntryAdmission`, `SessionGuard` | admission of entries, sessions of an intraday trade | `ServiceProofs` |
| `ProfileTrade` | plans and management of one trade | `PromiseProofs` |
| `MarketCalendar`, `ContractRollover` | schedules and their versions; contracts of a family | |
| `TradeExports`, `ClusterEvents` | files of the journal; consumer group and verdict | |
| `PatternEvents` | tasks and outbox of patterns | `ServiceProofs` |
| `TelegramDelivery`, `RequestBudget` | receipts and retries; ceilings and lanes | `ServiceProofs` |

`MC...` modules hold what TLC needs and the specification does not. Components
that share no state are explored side by side in one run: `part` says which one
moves, the others rest in their initial state (`MCContourPairs`,
`MCData`, `MCProgress`, `MCRecords`, `MCServices`). Such a run is the union of the
state graphs of its parts, not their product. Definitions used only as "what if
the code did this instead" sit before the definition they would replace and say
so.

Where components meet, each is given the other's actions freely: a contour's
executions are actions of the environment in `ContourControl` (`EntryEnds`,
`CloseFills`, `PositionExits`), `TradeExecution` takes the decisions of the
profile freely, `MarketFeed` the pairs that `PairDemand` decides on.

### TradeExecution

One BUY of algorithm economics-v2: an entry of `EntrySize` with a limit price,
additions of `AddSize`, one target for half of what was entered, a stop that
every increase recomputes from the average price and that the profile may move.

| state | in the code |
|---|---|
| `trade`, `order`, `applied` | journal rows: `trades`, `orders` with outbox and reservations, `events.event_id`; durable, one transaction is one action |
| `broker` | `AddressedTrade` and the schedule of `JournalBroker`; lost with the process, rebuilt by `resume_trade` |
| `queue`, `batch`, `done` | the broker's undrained events; `pending_bar` of `commit_bar` and how far this attempt came |
| `cursor`, `fresh` | `execution_cursors`; what was queued after `intent_since` |
| `inflight` | the command between `claim_outbox` and the answer's transaction |
| `cut` | history: whether a failure came inside a bar's batch, between the two transactions of a stop, or before an answer was written |

A step of `on_bar` is: withdraw the increases an earlier step left unsent
(`WithdrawMark`, `WithdrawCancel`); simulate a closed bar in three stages —
scheduled moves, exits and limits at the open, then protection and limits inside
the bar — which are micro-steps of one thread in memory; drain and journal its
executions one transaction each (`Consume`, and `ConfirmStop` for the second
transaction of a stop); decide (`Submit…`); deliver (`Deliver`, `MarkSent`,
`ConsumeAnswer`); end. `Crash` and `…Fails` are enabled between transactions.
`Recover` rebuilds the broker and the cursor from rows as `restore` does.

Time is counted in bars. A command delivered `d` bars late is submitted at
`Len(bars) + 1 + d`; `Ttl` bars later a limit expires. An entry that is late is
cancelled by `expire_pending_entries`, which races its fill.

Left out: the gap-entry guard, several targets (`ProfileTrade` has them), legacy
market orders, the rollover (`ContractRollover`), the dispatch branch
"reconciliation" and `_UnsafeExecutionState`, the budget over several trades
(`EntryAdmission`). Bars before the plan
exists, or after the trade has finished with nothing scheduled, are not
enumerated: the code does nothing with this trade then.

### ContourControl

| state | in the code |
|---|---|
| `desired` | `contours` and `contour_members` in `core.sqlite3` |
| `applied`, `status` | `contour_state` in the journal; `status.json` |
| `core`, `beat` | the robot process and its heartbeat |
| `phase`, `read`, `mem`, `roster` | the contour's process: where in its tick it is, what `before_tick` read, `ContourControl` and the manager's blocks, `bot._instruments` |
| `trade`, `orders` | what the journal holds of each instrument, and its open CANCEL and CLOSE |

A tick is `ApplyGeneration` and `SaveGeneration`, or `RepeatStop`, or `TickUnread`
(before_tick), the executions, `AfterTick` (count, retire, finish), the analysis that may `Admit` an
entry, `TickEnds`. `SaveGeneration` is apart because the stop orders reach the
journal before `contour_state` is saved. `Faults` names what may fail: the
contour's process, the core's process, a read of `core.sqlite3` at the start or
in a tick. `LiveGuard` is the guard a live delivery passes
(`created_before_step`), `OrphanLaunch` whether a launch after a failure may leave
out an instrument that still has a trade.

The two SELECTs of one read of the desired state are one step. Revisions
(`If-Match`) and the answers of the API belong to `LaunchControl`.

### HistoryRuns

Rows of `history_runs` (`state`, `stopFlag`, `accepted` for their order), the
robot's phases and heartbeat, the queue thread (`thread`: where it is and the run
it holds), one API call inside `stop()`, a watcher per run, the run process and
the pipe to its stdin. Code that reads a row and writes it later is two actions.
`RobotCrash` takes the robot away at any step; the next start cancels what was
not handed to a process, adopts what lives and marks the rest as interrupted. A run process that looks at its stop (`ChildCheck`)
sees the row's flag, the heartbeat, and stdin if it has one.

### LaunchControl and RuntimeLock

`LaunchControl` has the main thread (start of the core, recovery, waiting for a
command, preparing, supervising, closing), one HTTP thread per call (`submit`,
`stop`, a change of members; each decides, records and puts in separate steps and
may give up waiting), the watcher of the process, the contour's own process and
`status.json`, and the robot's lives. `RuntimeLock` has one record per start:
open, read, unlink and write are steps of their own. The model says what the
code promises a holder: another start that reads the pid of a living process
leaves. Two overlapping starts that find the same dead pid may both end up
holding; no property denies it.

### The market data side

`MarketFeed`: the database's feed with its pruned edge, `ready`, the
checkpoint `ack`, `wanted`; the contour's `cache` by pair and its `reader` thread
(`at` is where in a cycle it is; a page is checked, selected and applied in
steps). `applied` is what the reader has said it applied. `FeedCopy` is the
abstract specification: a copy shows versions the database has had and never one
older than the claim; `FeedIsCopied` is the refinement, with `cache`, `applied` and
`db` mapped to `copy`, `claim`, `source` and `feed`. An assumption at `Prune` keeps
retention away from the rows of a page being read (`market_store.py:1353`).

`CandleStore`: one row per minute with its revision, conflicts watched in memory,
fences of re-reads, the pin of the contour and its mark. `GapResolution`: the state
of each interval, the evidence, completeness and calendar lanes as read and write
apart, the contour's copy and position. `StreamHandoff`: pairs, epochs, the buffer,
the worker's load; the server may forget a pair at any time after it has acknowledged it,
and the check of the subscriptions lists every acknowledged pair, also one whose handoff is
still on its way. `PairCoverage`: one pair's rows on a minute clock with the
lanes, or with the older rounds. `PairDemand`: rows of demand and obligations; the
poller reads the demand, then the obligations, then releases by what it has read, three
steps with the contours' writes between them; the follower's binding.

### History: start, loop, ticks

`HistoryStart` follows `_run_history` through `run_preflight` and
`run_chain_preflight` to the first tick, with reads that may fail and a stop that
may come at any step. `HistoryLoop` is one timeframe to the end of the range and
what the run reports; `HistoryTicks` several timeframes with lagging papers, holes
and the leap to the next bar.

### Entries, sessions, profiles, contracts, calendar

`EntryAdmission` works in roubles with whole contracts; signals of two desks share
the account. `SessionGuard` has one intraday trade over two days of windows, with
the robot perhaps off over a mark. `ProfileTrade` keeps prices in half ticks, so
that rounding shows. `ContractRollover` follows one family over a range.
`MarketCalendar` has the source, the stored versions, the service's kept days and
the contour's, each read at its own time.

### Events and files

`TradeExports` writes files after each transaction, with failures of either
rename; `ClusterEvents` reads a Redis stream in batches with deaths between write
and acknowledgement; `PatternEvents` has the queue, the deferred tasks and the
outbox; `TelegramDelivery` the operations with their receipts, the deferred queue
and the transport's repetitions; `RequestBudget` the sliding window.

## What the runs show

| run | expects | question |
|---|---|---|
| `trade_safety` | pass | One trade through three commands, three bars and one failure anywhere between two transactions. |
| `contour_pairs` | pass | Two instruments, three generations, crashes of core and contour, failed reads; one live pair coming to be complete; two calls, two lives of the robot and two contour processes in every order; four starts racing over `robot.pid`. |
| `data` | pass | The feed and its copy, the versions of a minute, the judgement of gaps, the handoff of the stream. |
| `progress` | pass | What must happen at last: pairs served and bound, stops that reach their run, contours and instruments that leave. |
| `records` | pass | Runs and their rows, the calendar, the files of the trades, clusters, contracts, the start of a run. |
| `services` | pass | Loops, live analysis, ticks, patterns, Telegram, request limits, admission, sessions, profiles. |
| `trade_close` | `ExecutionsApply` violated | Can the journal take every execution the broker makes? |
| `contour_undelivered` | `CloseAllCloses` violated | Does `close_all` close positions by itself? |
| `control_pid` | `WaitsWithoutPid` violated | Can the robot always be given a contour again after one has ended? |
| `data_skipped` | `NoMinuteIsSkipped` violated | Does the contour execute every minute the database has? |
| `calendar_stale` | `ContourFollows` violated | Does a contour trade by the newest days? |
| `loop_covered` | `CoveredIsExecuted` violated | Has a run that reports its range as covered executed anything? |

### Properties that hold

`trade_safety`:

- `BookAgrees`: with nothing on its way, the broker's and the journal's
  quantities, entries and takes are equal, through deaths, failed writes and
  repeated bars; revision and stop too, unless a failure came inside a stop's
  confirmation or before an answer was written. A finished trade holds nothing.
- `ProtectionActs`: no executed bar went through the stop of an open position,
  unless a failure came inside a stop's confirmation; none reached the target
  without its share being taken.
- `AcceptedWaits`: what the broker accepted and the journal recorded waits until
  it has an outcome, also after a restart.
- `ReservedIsOpen`, `IncreaseIsCovered`: risk is reserved exactly for increases
  that may still fill, and the broker holds at most one of them.
- `OneOpenIncrease`: at most one increase waits in the journal.
- `NeverOversold`: no execution takes more from a position than it holds.
- `OutcomesAreFinal`: no late or repeated event reopens an order or a trade.
- `AddsStopAtReduction`: no increase after the first reduction, as long as the
  process does not die inside that bar's batch.

`contour_pairs`: `StoppedIsFlat` (`stopped` of the desired generation means no live
trade), `HeldInCycle` (an instrument with a trade is in the cycle of the process
that ticks), `OneStopOrder` (no second CANCEL or CLOSE), `EntryNeedsGoal` (entries
only for active members of a running contour), `PairComesComplete` (no bar of a
pair is given up before its checks are spent, no need is dropped, no hole is left
without somebody who attends to it), `OneLaunch` (an accepted launch never joins a contour that lives or
waits), `AppliedAsExpected` (a stop or a change of members with If-Match is
recorded on the revision its caller saw), `HolderKeeps` (what a holder wrote stays while
no other start has read the file before it was written; overlapping starts are not
denied their race).

`data`: `OneVersionPlayed`, `FreshAnswerWins`, `ResolvedIsProved` (a minute is called
absent on evidence that was valid for it), `ReadyIsComplete` (of a pair declared
ready no bar is missing without the evidence lane knowing, unless a load begun before the
pair's last handoff declared it), `FeedIsCopied`.

`progress`: `DutyIsServed` (no poll releases a pair whose obligation was written before that poll
read the obligations), `AskedIsBound`, and `EndingsFinish` = `StopReaches`,
`CloseAllFinishes`, `RemovedLeaves`.

`records`: `SlotLimit`, `EndIsAccounted` (rows tell how a process ended and no failed
start keeps a slot), `NeverRelaunched`, `RecoveredIsWatched`, and `RecordsAgree`, the
conjunction of the parts' own: `PhaseHolds`, `DueIsExact`, `ClosedIsProved`,
`CutoffIsTradable`; `FilesAreCurrent`, `FilesAreTrue`, `AuditIsWhole`; `AckedIsStored`,
`CopyIsWhole`, `HistoryAgrees`; `ChainIsExact`, `OneContract`, `GrowthIsOwn`,
`PassagesInOrder`, `DeadlineHolds`, `OneBarSuffices`; `StartIsPlayable`, `ShiftIsNeeded`,
`WarmIsWhole`, `EndIsWhole`, `ExitIsThere`, `StopReachesRun`, `FixedConverges`.

`services`: `OnceAndAll` (`EventOnce`, `SignalOnce`, `SentOnce`: nothing is done twice;
`TaskIsKept`, `BarsInOrder`, `EndIsHonest`: nothing is passed over), `LimitsKept`
(`CeilingKept`, `OneSide`, `CarriedIsEven`), `BudgetKept`, and `PromisesHold`, which joins what
holds to the end of a trade (`PlanIsKept`, `AllHasATarget`, `BreakEvenPays`, the action
property `StopImproves`), the order of its posts (`TradeInOrder`) and the boundaries and leaps
of a historical run (`BoundariesServed`, `LeapsAreSilent`).

Each is described where it is defined. The supervised history processes are
bounded, not the living ones: kill -9 between `process.start()` and the row leaves
a process the next start does not adopt.

### Disagreements found

With a run that shows them (`PROJECT.json` quotes what each contradicts):

- **A close after an addition blocks the contour** (`trade_close`; no failure
  needed). A CLOSE carries the remainder of its submission; an accepted addition
  that fills first makes the broker close more, and the reducer refuses that
  execution on every retry (`broker/journal_broker.py:436`,
  `trade_management/manager.py:2664`, `assembly/contour.py:554`).
- **`close_all` does not close** on a live contour: the delivery guard withholds
  commands created before the step (`assembly/contour.py:706`).
- **A dead pid blocks launches** (`control_pid`): the watcher reports the exit
  before `mark_process` (`assembly/core.py:656`).
- **A minute is passed that the database has** (`data_skipped`): the frame comes
  from the copy, the state of the minutes between from the database
  (`data/cache.py:1095`).
- **A contour keeps the days it read first** (`calendar_stale`,
  `market_calendar/service.py:530`).
- **A run that read nothing reports its range as covered** (`loop_covered`): the session starts as
  complete and without a failed source (`bot/run_session.py:86`), a tick whose read fails
  skips both updates, and the clock moves on; `openspec/specs/historical-mode/spec.md:173`
  keeps the coverage incomplete after an error of the source.

Stated in a module, found untrue of the code with TLC, and in no run; each is a
definition that can be checked with its module's configuration:

- `RepeatConverges` (`HistoryStart`): with two families the repeated check moves the
  start again and the process ends with code 3 (`openspec/specs/historical-mode/spec.md:431`,
  `:445`: the repeated check returns no shift).
- `LeapsLoseNothing` (`HistoryTicks`): a higher-timeframe candle that began before a
  hole and closes inside it or at its end gets no tick after the leap, against the
  docstrings of `_find_next_bar` (`data/cache.py:1770`) and `reanchor`
  (`scheduler/timing.py:366`).
- `ObligationLasts` (`SessionGuard`): a position left over the flatten mark is no
  longer obliged to close in the next allowed block
  (`openspec/specs/trade-management/spec.md:911`).
- `ReadyHasNoLoss` (`StreamHandoff`): a pair acknowledged twice in one connection has its
  second handoff taken away by the load of the first (`data/ingestion.py:408`), which declares it
  ready with a bar between the two missing and no loss noted
  (`openspec/specs/data-cache/spec.md:361`). `ReadyIsComplete` is the same promise without those
  pairs, which the history variable `overtaken` names.
- `ReleasedIsFree` (`PairDemand`): an obligation written between the poll's reading
  (`assembly/demand.py:111`) and its release (`:123`) does not keep the pair; the docstring at `:109`
  says pairs with obligations are kept. `DutyIsServed` is what holds: `unseen` has those rows.
- `EventsJoinNeighbours` (`PatternEvents`): a hole not recorded yet counts as adjacent
  bars (`data/market_store.py:1640`, `openspec/specs/market-structure-patterns/spec.md`).

Seen while modelling, behaviour kept in the models, asked by no property:

- *Trade*: an addition survives the first reduction when the process dies between
  the two transactions (`trade_journal/storage.py:533`); a stop's confirmation is two
  transactions and the revisions differ if the second fails (`manager.py:1084`); an
  order whose process died after `mark_outbox_sent` stays PENDING (`manager.py:948`);
  two stop changes in flight are both decided against the confirmed stop, so it may
  go back (`journal_broker.py:374`).
- *Runs and launches*: a cancelled run starts when the queue thread claims it inside
  `stop()` (`history_runs.py:260`); the row of an ended run may say running
  (`history_runs.py:394`); a stop recorded but not applied is lost with the processes
  (`recovery.py:62`); a stale membership command is executed by the next contour
  (`launch_control.py:405`); `stop()` looks and records apart (`launch_control.py:378`).
- *History start*: with two driver pairs whose candles alternate the second pass
  refuses though a later common minute exists; the long-timeframe tail may reach
  farther back than the look-around.
- *Loop and ticks*: a hole of exactly two minutes is counted one longer
  (`cache.py:1804`), and as the last candle it ends the run "exhausted"; an end
  accepted by a planned pause ends "exhausted" too (`cache.py:279`); the previous
  start of a month candle is computed with the current month's length
  (`timing.py:102`); a pair lagging within the tolerance takes its timeframe's
  analysis from its siblings; a read that failed once loses that boundary's analysis.
- *Market data*: a matching fence replaces a consumed candle without an incident;
  the watch of conflicts is lost with the core (`cache.py:197`); a roster pair's need is marked
  done with one bar (`cache.py:783`); `coverage_lower` moves down while
  `resolved_through` stays (`cache.py:575`); a pair released while its need is pending
  is registered again (`ingestion.py:317`).
- *Calendar*: a day changed and changed back keeps the second version in force
  (`market_store.py:923`); `stale` never shows while retries fail every minute
  (`service.py:196`); a read and a keep of the days are apart (`service.py:649`).
- *Files and events*: exits of one minute are listed by their id
  (`export.py:402`); if the second rename fails journal and cards differ until the
  next export; a failed batch of cluster events is read again only after a restart
  (`consumer.py:112`); deferred pattern tasks count against the queue's bound
  (`worker.py:86`), an error of SQLite outside a task ends that thread
  (`worker.py:101`).
- *Telegram*: the transport repeats a request whose answer was lost when
  `max_transport_attempts` is above one; `SentOnce` excludes exactly that.
- *Sessions*: guard and profile may both send a stop change against the confirmed
  stop (94, 100, 98).

## Bounds

| model | bound | why it is enough to be interesting |
|---|---|---|
| TradeExecution | `MaxCommands` 3 | an entry, an addition and an exit of one trade meet in one bar; a stop move or cancellation takes the place of any |
| | `MaxBars` 3 | a bar to enter, one to act on what waits, one repeated after a restart |
| | `MaxFaults` 1 (0 in `trade_close`) | a death or a failed write at every boundary between transactions |
| | `StopLevels` {4, 7} | two moves of the stop in one step, the second's confirmation failing: the journal then keeps the higher stop, the broker the lower, and a bar between them is executed. With one level this never happens |
| | four bar shapes, prices as ranks | an addition alone; limits at the open and the target later; limits and target inside one bar; limits and stop inside one bar |
| | `Delays` {0, 1} | submission meets the deadline at equality |
| ContourControl | 2 keys, 3 generations | one instrument removed while another trades, and a stop followed by a launch or the other way round |
| PairCoverage | 4 setups, 8 minutes, rechecks <<1, 2>>, one mishap, one turn | each lane meets a hole, a late bar and a quiet bar, before and after a restart or release |
| LaunchControl | 2 calls, 2 processes, 2 lives | a call of the first life answered in the second, a contour adopted |
| RuntimeLock | 4 starts, 3 tries | a start that unlinks what the second wrote for the third |
| MarketFeed | 3 changes, page 1, 1 trouble | a page in the middle of the feed, retention or a new database between its steps |
| CandleStore | 2 minutes, 3 observations, 1 crash | a correction before, between and after pin and mark |
| GapResolution | 2 minutes, 1 recheck | absence and candle of adjacent minutes |
| StreamHandoff | 2 pairs, 2 bars, 2 epochs, buffer 1, 1 upset | a load of one epoch that ends in the next, a lost bar. The pairs `overtaken` names need a forgotten subscription and its check, two upsets: the theorem covers them for every bound |
| PairDemand | 1 pair, 1 contour, 2 restarts | a release that races a request or an obligation of the same pair |
| HistoryRuns | 2 runs, 1 slot, 2 starts | one run waits for the slot of the other, one restart between |
| HistoryLoop, HistoryTicks | ranges of 4 and 10 minutes, grids 1, 2, 4; five markets; one miss, two troubles | holes at both ends of a range and between frames |
| HistoryStart | three shapes of requests, look-around 6, one lost read | alternating candles, a change of contract inside the range, two families |
| LiveAnalysis, PatternEvents | 3 and 5 bars, 2 faults | a bar late, a mark lost, a restart |
| EntryAdmission | 2 desks, 1 signal each, orders of two contracts, a balance of 16 | the first entry may meet the limit exactly, or leave room for a reserve, a partial fill and a second entry; exact for even slippage |
| SessionGuard, ProfileTrade | 16 minutes, 6 candles | two days of windows; every profile's rule fires |
| MarketCalendar | 3 dates, 2 versions, frames 1, 2, 4 | a session with a clearing, a weekend, an auction, a named session |
| ContractRollover | eight catalogues, 14 units | cutoffs inside and between minutes, equal expiries |
| TradeExports, ClusterEvents | three lives, three markets | every kind of fill; revocations and degradation inside windows |
| TelegramDelivery, RequestBudget | 3 events, 4 setbacks; 2 lanes, limit 2, 5 ticks | a deferred event behind a sent one; a window that slides over both lanes |

`contour_pairs` has `OrphanLaunch` and "start read" off: with either the code does
leave a trade outside the cycle. It has `LiveGuard` off so that the orders of a
stop may be delivered as well as wait; `progress` has it on, as the live contour
does. Each run takes one to three minutes with two workers.

## Fairness

- *HistoryRuns*: weak fairness of the queue thread, an API call in progress,
  recovery, `close()`, watchers, and of a run process starting, looking at its
  stop (every five seconds in the code) and ending after it. Nothing obliges a run
  to end by itself, an operator to act, or the robot to start again.
- *ContourControl*: weak fairness of the process's own steps; strong fairness of
  a successful read (reads fail now and then, not for ever), of an entry ending
  (it has a deadline) and of a close the broker keeps being given. `progress` adds
  that every position comes to its stop, its target or its expiry, which
  `contour_undelivered` does not assume.
- *PairDemand*: weak fairness of the poller's loop, of the publication of readiness
  and of each contour's follower; all are loops of threads with a pause.
- The other modules have safety properties only.

Deadlock is checked where the system always has a next step. It is off where a
part really stops: the robot may be down with no starts left, a contour may have
stopped with its generations used, a range of history ends, a bound on
observations is reached.

## What is proved

The theorems hold for all constants that satisfy the assumptions named in each
module: any number of commands, bars, failures, instruments, generations, runs,
minutes, pairs, calls and starts.

| module | theorem | states |
|---|---|---|
| `TradeExecutionProofs` | `TypeCorrect`, `ReservedIsOpenCorrect`, `OneOpenIncreaseCorrect` | `TypeOK`, `ReservedIsOpen`, `OneOpenIncrease` |
| | `OutcomesAreFinalCorrect`, `AddsStopAtReductionCorrect` | `OutcomesAreFinal`, `AddsStopAtReduction` |
| | `IncreaseIsCoveredCorrect`, `AcceptedWaitsCorrect` | `IncreaseIsCovered`, `AcceptedWaits` |
| `TradeBookProofs` | `NeverOversoldCorrect`, `BookAgreesCorrect` | `NeverOversold`, `BookAgrees` |
| | `ProtectionActsCorrect` | `ProtectionActs` |
| `ContourControlProofs` | `TypeCorrect`, `StoppedCorrect`, `OneOrderCorrect` | `TypeOK`, `StoppedIsFlat`, `OneStopOrder` |
| | `HeldCorrect`, `EntryCorrect` | `HeldInCycle`, `EntryNeedsGoal`, given `~OrphanLaunch` and no "start read" in `Faults` |
| `HistoryRunsProofs` | `TypeCorrect`, `SlotLimitHolds`, `NeverRelaunchedHolds` | `TypeOK`, `SlotLimit`, `NeverRelaunched` |
| | `EndsAccounted`, `RecoveredAlwaysWatched` | `EndIsAccounted`, `RecoveredIsWatched` |
| | `SessionsInOrder`, `StopReachesRunAlways` | the parts of `HistoryStart`: sessions, `StopReachesRun` |
| `ControlProofs` | `LaunchTypeCorrect`, `OneLaunchAlways`, `AppliedAlways` | types, `OneLaunch`, `AppliedAsExpected` |
| | `LockTypeCorrect`, `HolderKeepsAlways` | types, `HolderKeeps`: once no other start is about to unlink or write, later starts leave the holder's file alone |
| `IngestionProofs` | `ResolvedAlways`, `StreamTypeCorrect`, `ReadyIsCompleteAlways` | `ResolvedIsProved`, types of `StreamHandoff`, `ReadyIsComplete`: no pair but an `overtaken` one is ready with a bar lost |
|  | `CandleTypeCorrect`, `OneVersionAlways`, `FreshAnswerAlways` | types, `OneVersionPlayed`, `FreshAnswerWins` |
| | `FeedSpecIInv`, `FeedIsCopiedAlways` | the invariant of feed and copy; the refinement `FeedIsCopied` |
| | `DataTypesAlways` | `DataTypes`, the types of the five models of the market data side |
| `ServiceProofs` | `OnceAndAllAlways` | given `MaxMisses < RangeEnd`, `OnceAndAll`: `EventOnce`, `SignalOnce`, `SentOnce`, `TaskIsKept`, `BarsInOrder`, `EndIsHonest` |
| | `LimitsKeptAlways` | `LimitsKept`: `CeilingKept`, `OneSide`, `CarriedIsEven` |
| `PromiseProofs` | `PromisesHoldAlways` | `PromisesHold`: `PlanIsKept`, `AllHasATarget`, `BreakEvenPays`, `StopImproves`, `TradeInOrder`, `BoundariesServed`, `LeapsAreSilent` |

**TradeExecution.** Types are not inductive by themselves: the reducer subtracts
what an execution takes, and nothing in the type of an event says that the order
it names can take it. `TypeInv` adds that every event in the queue, the batch or
in flight names an order of a kind that has such an outcome (`EventOK`), that the
stages of a bar find only the commands the earlier ones left (`StepOK`), and that
the answer in flight belongs to an order that still waits for it (`InflightOK`).
The last fact is what both further theorems need: an answer changes nothing but
the order that waits for it, kinds never change (`KindsKept`), so an event can end
or fill an increase but not open a second one, and what ends an order ends its
reservation. The proofs use the named assumptions on the bounds, bars,
delays, sizes and prices, and nothing about the bars' shapes TLC enumerates.

**ContourControl.** Three records and a memory that dies tell different stories of
one wish, so the invariant says how far each may lag. `GenerationsOK`: a process
that knows the desired generation knows its mode. `StoppedForGood`: after
`stopped` the process is gone or leaves at the end of the tick. `CycleInv`: the
live trades are members of the desired state, named in `status.json`, and in the
cycle, which is what `autostart_members` and the next launch rest on; and the
blocks in memory cover whatever must not enter.

**HistoryRuns.** `_fill` counts a slot and `_launch` takes it later; `recover`
adopts without counting. `IInv` therefore counts the slot on its way to be taken
(`Slots`), and, while the robot is down, the processes the next start may adopt
(`Survivors`). A process that escaped (`Orphan`) must never be adopted later, so
`OrphanSettled` says that no writer of this life touches its row again. `EndInv` adds
what a row may say at each place the queue thread, the API call and the watcher
can be between reading it and writing it: whoever writes the outcome of a process
writes what that process earned. `SessionInv` and `StopInv` (`HistoryStart`) say
the same of the session and the clock: a stop that arrives between two attempts is
found in the flag by the attempt that attaches next.

**LaunchControl, RuntimeLock.** `LaunchInv` gives every accepted command one place: once in the
queue, or in the main thread's hand. A launch is therefore counted
while nobody holds it, and the check of the next caller sees it; a stop or a change of
members is on the record before its caller hears of it (`MadeInv`). The lock needs
only that pids differ: a start that reads a living pid never reaches the unlink.

**CandleStore.** `PinsInv` ties what the contour has marked to the revision it holds;
`BatchInv` the publication to the version it came from; `FenceInv` orders the fence of
a re-read and the last difference seen, so an answer asked for earlier cannot win.

**GapResolution.** Every lane reads, computes and writes apart. The invariant keeps with each
lane the evidence it read, and says it is still evidence or that the write will
notice: a candle that came between leaves the interval no longer missing.

**StreamHandoff.** `ReadyIsComplete` speaks of ready pairs only, but what makes it true is
decided at the acknowledgement. `StreamInv` therefore follows a pair from there: a
connection that is gone leaves nothing subscribed, asked or buffered (`LinkOK`); a
pair that is asked for is not served yet (`PairsOK`); whatever closed behind the handoff of an acknowledged
pair is stored, buffered or being applied under the same connection, or the evidence lane knows of
its loss, and a load of this connection has a handoff to take (`WholeOK`). The load brings the rest if
it is the load of the pair's last handoff and ends in the connection it began in; if the pair was
acknowledged again meanwhile, it opens the pair with the newer handoff unloaded, and `overtaken`
names it. `ReadyHasNoLoss` says the same without that exception and is untrue of the code. Bars
of one minute may arrive in any order, and the set of pairs need only be finite.

**MarketFeed.** `InStep` says the reader's page is a run of consecutive changes;
`CopyInv` that its cache has every change up to the position it has said; `EmptyInv`, `SelectInv` and
`PageInv` what holds while a page is checked, selected and applied. The
refinement maps every step to a step of `FeedCopy` or to a stutter. That the
newest change up to a position exists is proved from the well-foundedness of the naturals
(`LargestExists`), not assumed.

**TradeExecution, outcomes.** Final outcomes are no matter of the reducer alone: it fills a filled order again if
an event says so. `OutcomeInv` (`TradeExecutionProofs`) says where every command is. What
the broker may still execute is open in the journal (`WaitsOK`). An event tells of its
command once, when the command waits no more, and until the event is applied its order
is open (`StreamOK`). No fill of an increase follows a reduction on its way to the
journal, and no increase waits behind one (`RoomOK`): this is what every
`_cancel_increases` of a bar is for, and why a growth never reaches a trade that
shrinks. A command seen accepted waits in the broker or is told of by an event on its
way (`AttendedOK`); with it, the first reduction finds the outcome of every open
increase in its own batch (`ReducingOK`), so that an increase that survives it is the
work of a death that tore the batch. Every stage of a bar is shown to turn a good
broker and queue into good ones (`Follows`), every event to leave good ones behind
(`Handled`).

One definition of `TradeExecution` was found wrong by a proof attempt: `Lost`, which keeps
what a failure came between, looked at the place of the step only. A write that
fails leaves the step at rest with half of the batch written, and a death there
tears the same batch. `Torn` looks at the batch itself; TLC with two faults shows
the difference.

**TradeExecution, books.** `BookAgrees` speaks of the moments when nothing is on its way,
and most of what makes it true happens in between. `BookInv` (`TradeBookProofs`)
therefore has the two books at every moment, as a road between them (`RoadOK`): a book
for every place in the batch, from the journal's to the broker's, each turned
into the next by the event that is still to be applied and the same across one
that is applied already. An event is journalled: the road loses its first pending
step. The broker executes: it gets one at the other end, and the stages of a bar are shown to
lengthen it so (`Follows` again, now with quantities). Every pending reduction is
takable where it stands (`Takes`), which is `NeverOversold` at the place the journal
has reached.

After a death the broker's book is the journal's, and the bar is simulated
again although some of it is journalled. What is applied is not applied twice,
so the road must not count on it: an increase that was applied waits no more
(`WaitsOK`), a stop or a close ended the trade, and for the target `TakenOK` says
that the first simulation left the share complete, or that an increase came in
the same bar at a price other than its open, and that whatever increase still waits
cannot fill at the open this time. `AgainOK` and `TargetsIn` carry this through the
stages of the second simulation. `OwnOK` says that executions are of the bar in
hand and that a close is the last; `SinceOK` that broker and journal agree on
when an order was accepted, as the limits of a bar's fills depend on it. The
revision and the stop are the same only where no failure came between the
writes that make them (`StopKept`, `RevKept`), which is what the property says too.

**TradeExecution, bars.** `ProtectionActs` speaks of a bar after it was consumed. `GuardInv` says
the same of the bar in hand from the stage that looks at the protection on
(`BehindOK`): what is still held stands above its stop and has taken its share, unless an
increase of this bar is applied or on its way. The fills at limits come behind that
stage and look at the stop again, at the one they raised; an answer of the broker leaves
what it holds alone. `ObservedOK` is the same of the bar observed last, in the
journal's quantities: when the batch is empty the two books agree (`BookInv`), and an execution that
follows it in the same bar makes the observation wait again. `GrownOK` and `SeenOK` tie the increase that
excuses a target to the bar it came in, so that a bar simulated again is excused by what the
first simulation journalled.


**Types of the market data side.** What the bounds of the counters rest on is elsewhere: a cursor
of the contour is behind the feed's edge because every page is, a round of the evidence lane is
within the schedule because it is asked for before it is counted. `DataTypes` is therefore
proved beside the invariants above, part by part.

**LiveAnalysis.** `SignalInv` follows a signal from the bar it was calculated on: what a step
decided is of the newest bar of its view, and every trade so far was opened from a bar this view
has and from a signal that has been handled, so a signal that opens another is of a newer
bar or was turned away. `BarsInv` says that a cursor never leads what was calculated by more
than the bar in hand, and that a cursor on disk never leads it.

**PatternEvents.** `StreamedOK` counts: an event not yet marked is in the stream no more
often than its sendings were cut off, and one more only between the answer of Redis and the
mark. `PlacesOK` gives every task one place, in the queue, put off or in hand, which is why there is
always room to take back what was put off.

**TelegramDelivery.** `GateInv` says what may wait in the gate and in the mail, `RowsInv` that an
operation has a row once its event is claimed, `SentInv` that what may still be sent has
not arrived. `TradeInOrder` needs more: `ArrivedInv`, `QueueInv` and `TableInv` say that the gate, the
rows and what has arrived are one order, that nothing that waits is behind something that has
arrived, and that whatever is deferred waits in the gate while the worker runs. A restart
builds the gate again from the rows, and the proof shows that parking the posts in the order of the
rows gives that order back.

**RequestBudget.** The lane code looks at the requests it still keeps; the ceiling is about all
of them. `WindowInv` says that what is kept is the end of everything ever sent and that the rest is
older than the window, `CountInv` that no window of the past has too many, wherever
it is laid.

**SessionGuard, EntryAdmission.** `SessionLinks`: a carry is approved only of an open position whose
first profit was taken and whose stop is at break-even, and no addition is under way then. `RiseOf`: only an
unfinished trade has an increase on its way, so that a side never outlives its deal.

**HistoryLoop.** `PlayedInv` (`WithoutHoles`) says that a paper has executed every candle
between two that it has executed; `EndsInv` that the session calls itself complete only when every
driver is proven, and that a search that found the end found nothing ahead. The proof attempt
found an end nobody had thought of: a run whose every tick fails to read ends as covered (`Unread`
in the invariant describes it). `loop_covered` shows it; `OnceAndAllAlways` has the premise that fewer
reads fail than the range has minutes, and without it `EndIsHonest` is untrue of the code.

**ProfileTrade.** `Counts` keeps the sums of targets, takes and what is left; `GoalsPay` the distances
from the plan to the average as additions move it; `StopsInv` what every stop on its way promises:
it is better than the one that stands, and pays if it says break-even. Sums over the targets
are folds, and the provers take a fold as it is. The proof describes each of them by
the function that satisfies its recurrence (`SumRuns`), and counts up to a bound by looking at the
least number that fails (`CountUp`), so no operator is a parameter.

**HistoryTicks.** `ServedInv` says at each phase of a tick which boundaries are still owed, `MinuteInv`
and `SilentInv` what a tick has learnt of the minute it looks at, so that two empty ticks are two
silent minutes where every read went through. Three statements had to be corrected on
the way: a lagging paper excuses a boundary only with a tolerance above zero; a boundary is asked for
only when its start lies in the range; and a failed read can hide a trade of the minute
before a leap, but only one the calendar does not know.

## What is only model-checked

- Liveness (`DutyIsServed`, `AskedIsBound`, `EndingsFinish`): the prover does not
  reason about fairness and ENABLED.
- `PairComesComplete` sums a recheck schedule over the rounds of the evidence lane with a
  fold, and says of every lane at once what it owes: its invariant was not attempted.
- `RecordsAgree` is a conjunction over several parts (`StopReachesRun` among them is proved). Many
  compare the state with what a recursive or folded definition computes over the
  whole history (`ChainIsExact`, `DueIsExact`, `FilesAreCurrent`, `HistoryAgrees`), selects
  with `SelectSeq`, or folds with an operator as its argument, all of which the provers
  see as unknown values.
- `BudgetKept`: the reservation of a signal is a whole-number division (`PendingRisk2`) that is
  exact only for orders of two contracts and even slippage, as the bounds have it, and the sum
  over the desks is `MapThenSumSet` of an operator.
- `ServiceTypes`: the types the invariants of the services need are proved inside them
  (`LiveTypes`, `PatternTypes`, `DeliveryTypes`, `BudgetTypes`, `ProfileTypes`, `TickTypes`); what is left
  are the bounds of counters.
- The disagreements: each is a counterexample on the instance named.

## What is not modelled

- Strategies, filters, cluster detection and the geometry of patterns: numeric
  computation without state over time. What they produce is a free input.
- Rendering of notices and charts, the layout of the exported files, the HTTP layer of the control API and
  its views, the clients of T-Invest, MOEX and Telegram: input and output. Their failures,
  delays and repetitions are modelled where the code handles them.
- Configuration, logging, build files, `tools/`.
- In the trade: legacy market orders and the older `submit` path of the simulated
  broker, the gap-entry guard, several targets, reconciliation branches that only
  raise. In the journal: the CSV reports (`trade_journal/journal.py`).
- The notifier's event bus: a synchronous list of callbacks.

Hazards without a property are listed in `PROJECT.json` with the reason.

## Plan

In the order of importance:

1. The parts of `RecordsAgree` that are inductive without recursion (`AckedIsStored`,
   `AuditIsWhole`, `OneContract`), in the manner of `PromisesInv`.
2. The invariant of `PairComesComplete`: which lane owes what, as sets of minutes.
3. The gap-entry guard and the reconciliation branches of the manager, which are modelled by
   what they leave behind only.
4. What is open about the properties themselves: runs of their own for `ReadyHasNoLoss`, `ReleasedIsFree`
   and `ObligationLasts`, and the contour's cursor floor in `PairCoverage` (`data/lanes.py:206`),
   which would let a window begin earlier than it does there.
