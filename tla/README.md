# SportsModel in TLA+

This directory is the verification project of SportsModel: TLA+ models of the
parts of the program whose correctness depends on the order of events, TLC
configurations that check them on small instances, and TLAPS proofs of the
most important results for every instance.

Five parts are modelled:

* the **daily MLB Moneyline workflow**: the pregame and postgame commands of
  one target date, the workflow row they share and the evidence they commit;
* the **scheduled captures of MLB odds**: the task wrapper with its window and
  retries, the ingestion of odds, and the canonical games they share with the
  schedule synchronization;
* the **MLB history**: results, guarded recovery, rosters, the features drawn
  from them, the official prediction run and the building of its model;
* the **NFL season**: imports, predictions, odds captures, market evaluations,
  the forward record, and the research on the seasons before it;
* the **NFL historical-market pilot**: the executor that spends paid provider
  requests under a single-use authorization, the evidence store and attempt
  ledger it writes, and the recovery that seals an abandoned store.

The rest of the program is listed below, with the reason it is left out.

| file | what it is |
| --- | --- |
| `DailyWorkflow.tla`, `OfficialCard.tla` | the workflow row, its evidence and invocations; abstract specification of what it promises about the card of a date |
| `DailyWorkflowProofs.tla`, `DailyCardProofs.tla` | TLAPS proofs about `DailyWorkflow`: for any concurrent commands; for commands that do not overlap |
| `MCDailyWorkflow.tla`, `Daily*.cfg` | TLC instances |
| `CanonicalGames.tla` | operators: which canonical game an event belongs to, which sportsbook a key |
| `DatabaseReadiness.tla` | operators: what a poll of the database finds |
| `ScheduledCapture.tla` | tasks, retries, ingestions, schedule synchronization |
| `ScheduledCaptureProofs.tla` | TLAPS proofs about `ScheduledCapture`: runs, retries and sportsbooks; games and slates |
| `MCScheduledCapture.tla`, `CaptureNight.cfg` | TLC instance |
| `MlbRosters.tla`, `MlbResults.tla`, `MlbRecovery.tla` | players and assignments; results and box scores of a date; guarded recovery |
| `MlbCompleteness.tla`, `MlbFeatures.tla` | operators: when a history is complete; what features are drawn from |
| `MlbPrediction.tla`, `MlbTraining.tla` | an official prediction run; the building of a model package |
| `MlbHistory.tla` | the composition of the `Mlb*` modules and its properties |
| `MlbHistoryProofs.tla` | TLAPS proofs about `MlbHistory` |
| `OrderFacts.tla`, `FoldFacts.tla` | TLAPS proofs about least members and places in an order; that a fold over a sequence is made step by step |
| `MCMlbHistory.tla`, `MlbHistory.cfg` | TLC instance |
| `NflGames.tla` | the NFL games and the two imports that write them |
| `NflFeatures.tla`, `NflDatasets.tla`, `NflMarketMath.tla` | operators: inference and features, data sets and folds, market mathematics |
| `NflPrediction.tla`, `NflCapture.tla`, `NflMarketEvaluation.tla`, `NflResearch.tla` | the four kinds of processes on these games |
| `NflSeason.tla` | their composition, the forward evaluation, and the properties |
| `NflEvidenceContract.tla` | abstract specification: what the prospective record promises |
| `NflSeasonProofs.tla` | TLAPS proofs about `NflSeason` |
| `MCNflSeason.tla`, `Nfl*.cfg` | TLC instances |
| `PilotExecutor.tla`, `PilotContract.tla` | executors, store, ledger, recovery and what can fail under them; what the pilot promises about the provider |
| `PilotExecutorProofs.tla` | TLAPS proofs about `PilotExecutor` |
| `MCPilotExecutor.tla`, `Pilot*.cfg` | TLC instances |
| `PROJECT.json` | components, runs, map from definitions to source lines, hazards, findings, theorems |

To parse a module: `tlasany M.tla`. To check a run:
`tlc -config X.cfg MC….tla`. To check the proofs: `tlapm` on each of the
`…Proofs.tla` modules, on `OrderFacts.tla` and on `FoldFacts.tla`.

---------------------------------------------------------------------------

## 1. Inventory

Paths are relative to `src/src/sportsmodel/` unless they start with `src/`.

### 1.1 Daily MLB Moneyline workflow — modelled

`orchestration/moneyline_daily.py`,
`database/moneyline_daily_workflow_repository.py`, migration 017.

*State.* One row of `moneyline_daily_workflow_runs` for a date: status, stage,
linked prediction run, linked entry odds run, the two completion times, the
error. Around it, rows that other services own: prediction runs, odds runs,
evaluations with their qualification, settlements, final scores.

*Operations.* `run_moneyline_daily_pregame`: schedule sync, prediction, entry
odds, evaluation, audit, publication. `run_moneyline_daily_postgame`: the
no-card judgement, result ingestion, paper and Early Entry settlement, final
audit, completion. Each is a chain of transactions; every failure ends in
`_record_pregame_failure`.

*Interaction.* Task Scheduler and operators start the commands; nothing locks
the row between their transactions, and a command keeps in memory the row it
read at its start. The services of 1.2 are called in the same process and
commit on their own connections.

*Hard.* Crashes between the commit of a run and its link; two commands in
flight; a failure inside the failure handler; a rerun after a settlement; the
exact counts of the no-card judgement.

*Correct when.* A day links one finished prediction run and one completed
entry run, and the entry run never changes; candidates and settlements belong
to that pair; only candidates are settled; a day is completed only with every
candidate settled; a "no card" verdict is true; retries lose and duplicate
nothing; a failure is recorded.

### 1.2 Services behind the workflow — partly modelled, inside `DailyWorkflow`

| component | state | what is modelled | left out |
| --- | --- | --- | --- |
| Official prediction run (`predictions/moneyline_service.py`) | run status, predictions | created, completed with or without rows, failed, left running | probabilities, preview runs |
| Entry odds capture (`ingest/odds_api.py`, migration 027) | run status, the partial unique index on the slot | the slot, and the life of an entry run; every role in 1.4 | quota headers, parsing of prices |
| Market evaluation (`analysis/moneyline_market_evaluation_service.py`) | evaluations, qualification | `_validate_runs`; one transaction that decides every game of the pair again | which games qualify: a choice of the model |
| Live audit (`auditing/moneyline_live_pipeline.py`) | none | the counts the workflow acts on | issues that need corrupt rows |
| Paper and Early Entry settlement (`settlement/`) | settlements | what is settled, what stays pending, partial cohorts | outcome, profit, drawdown |

### 1.3 NFL historical-market pilot — modelled but for the analysis of a response

`nfl/historical_market_pilot.py`, `nfl/historical_market_pilot_integrated.py`,
`nfl/historical_market_odds_api_transport.py`.

*State.* A directory: four identity artifacts written once, an append-only
ledger of attempt states, request and response evidence per attempt, a report,
a manifest that seals everything. An operating-system lease on the directory.
The authorization file, which must not change, and its execution window.

*Operations.* `run()`: claim the authorization, take the lease, execute the
targets (reserve, request evidence, two gates, connect, send, `SENT`,
response evidence, `RESPONSE_CAPTURED`, wait, retry), report, seal, verify.
`recover()`: validate, take the lease, validate again, resolve open attempts
as `SENT_UNKNOWN`, report, seal.

*Interaction.* Executors and recoveries meet only in the directory and the
lease. The bridge tells the executor at which point a connection failed.

*Hard.* Each write may fail with nothing, a part, or all of it on disk; the
process may die between any two; two executors may find the same empty store;
a recovery may validate a store an executor is still writing; the
authorization and the clock change at any time; ceilings bind mid-target.

*Correct when.* The ledger never claims less than what happened; every line
appended is one its reader accepts; a target is asked at most twice, the second
time only after an answer on disk or a request that never left; nothing is
sealed while an attempt is open, nor changed once sealed; a run that reports
no failure has every answer.

### 1.4 Scheduled captures — `ScheduledCapture`, `CanonicalGames`, `DatabaseReadiness`

`orchestration/scheduled_execution.py`, `orchestration/odds_snapshot_schedule.py`,
`src/scripts/run_moneyline_*.ps1`, `src/scripts/invoke_moneyline_retry.ps1`,
`ingest/odds_api.py`, `ingest/game_matching.py`, `ingest/odds_provenance.py`,
`ingest/mlb_schedule.py`, migrations 027 and 032.

*State.* Odds runs with role, target date and status; quotes; canonical games
and their ids at each provider; provider identities of sportsbooks; and, per
task, the attempt, the sleep and the exit code in the memory of PowerShell.

*Operations.* A task checks its window `[trigger, +60 min)`, resolves its
slate, waits for the database and runs its command up to four times; only an
exit code that says "transient" is retried. The command creates a run, asks the
provider, commits the receipt, and saves every event in one transaction, or
marks the run failed. Early Entry follows the snapshot of the task.

*Hard.* The guard and the resolver read two clocks; a commit's acknowledgement
may be lost; two transactions match or create the same game or sportsbook; the
schedule moves and turns games that quotes refer to.

*Correct when.* One snapshot per slate and role, of its own slate and observed
before the games began; retries repeat nothing; Early Entry uses its own
snapshot; identities are stable; every task ends.

### 1.5 MLB history — `MlbHistory` and the modules it composes

| component | state | operations | hard |
| --- | --- | --- | --- |
| Results and completeness (`ingest/mlb_stats.py`, `ingest/boxscore_ingestion.py`, `database/mlb_completeness_repository.py`) | results, team and pitching rows | results of a date in one transaction, each box score in its own; `HistoryComplete` as of a cutoff | "complete" to the ingestion and to the prediction are two notions; rows arrive between two reads |
| Guarded recovery (`ingest/mlb_recovery.py`) | manifest, locks | preview, approval, one SERIALIZABLE execution, verification | everything may change between preview and execution |
| Rosters (`ingest/mlb_rosters.py`, `database/team_assignment_repository.py`) | players, assignments | close and create in two transactions | two synchronizations, two days, an incomplete answer |
| Features and training (`features/`, `training/`) | model, evaluation and manifest files | rows read game by game, walk-forward and tuning folds, files written in place | equal starts, short blocks, a death between two files |
| Official prediction run (`predictions/moneyline_service.py`) | runs, predictions | package, slate, starters, history check, one read per game | check and features are separate reads; the package is read twice |

### 1.6 NFL season — `NflSeason` and the modules it composes

| component | state | operations | hard |
| --- | --- | --- | --- |
| Imports (`nfl/future_schedule.py`, `nfl/historical_backfill*.py`, `nfl/game_persistence.py`) | games, statistics, ingestion runs | plan in one transaction, write in another, audit | a plan that is stale when it is written |
| Prediction (`nfl/moneyline_prediction_service.py`, migration 026) | runs by key, predictions | look up or create, snapshot and lock, infer, store, retain a failure, three attempts | executions of one key, a moving schedule, the snapshot older than the lock |
| Capture and evidence (`nfl/manual_odds_capture.py`, `nfl/odds_identity.py`, `nfl/official_pregame_evidence.py`) | capture runs, event mappings, quotes, evidence | reserve, one call, receipt, store, qualify | two operators, a death at every step, a kickoff that moved |
| Market evaluation (`nfl/market_evaluation.py`, `nfl/market_math.py`) | evaluations | preview, re-read at REPEATABLE READ, store or retain the failure | rivals; the order of prediction, request, receipt, kickoff |
| Forward evaluation (`nfl/moneyline_forward_evaluation.py`) | none | one read of the record | what was pregame may no longer be |
| Research (`nfl/*dataset*.py`, `nfl/*baseline.py`, `nfl/*frozen.py`, `nfl/moneyline_holdout.py`, `nfl/historical_probability_evidence*.py`, the scripts that run them) | reports, the artifact, the exported package | develop, evaluate, freeze, holdout, rebuild, export | corrections between two of them; which folds may choose a policy |

### 1.7 Not modelled

* *Dashboard*: it only reads.
* *Market analysis* (closing lines, consensus, movement, no-vig): pure
  arithmetic over stored odds, reached by unit tests. The NFL market
  mathematics is modelled (`NflMarketMath`), since evaluations depend on it.
* *Migrations*: one connection applies the pending files in
  order, each with its row of `schema_migrations` in one transaction, so a
  failure leaves a prefix; a second runner collides on that row. What could go
  wrong is in the SQL of the files.
* *Backtest of strategies and the numbers of the features*: computed from
  fixed inputs; what they are computed *from* is modelled.
* *Host operations*: Windows services, backups and scheduled-task registration
  act outside the repository.

---------------------------------------------------------------------------

## 2. Plan

1. `OfficialCard`, `DailyWorkflow` and its proofs — done.
2. `PilotContract`, `PilotExecutor` and its proofs — done.
3. `CanonicalGames`, `ScheduledCapture` — done.
4. `NflGames` … `NflSeason`, with `NflEvidenceContract` — done.
5. `MlbRosters` … `MlbHistory` — done.
6. Theorems about the parts above — every invariant, step property and
   refinement of a passing run is one (9.1 to 9.7); 9.8 lists what only TLC
   checks.

The compositions are inside the modules: `ScheduledCapture` runs tasks,
operators and synchronizations on one database, `NflSeason` and `MlbHistory`
run five kinds of processes each. `DailyWorkflow` is not composed with
`ScheduledCapture`: they meet in the entry role only, whose slot both have,
and the product of the two is too large for TLC.

---------------------------------------------------------------------------

## 3. The daily workflow

### 3.1 Model

`workflow` is the row. `predictionRun` and `oddsRun` give the status of each
run id ("absent" before it is created; "empty" is a completed prediction run
without a row). `evaluated`, `qualified` and `settled` are the evidence,
`finals` the stored scores, `earlyPending` the Early Entry candidates without
a settlement. `over` and `firstPitch` are the world.

A slot `p` is one process that may run a command: `pc[p]` is the transaction
it is about to execute, `local[p]` what it keeps in memory — the ids of the row
it read, `current_stage`, the run in hand, and whether it counted candidates
or pending ones. **One action is one transaction**, so between any two actions
another slot may run, or this one may die. Row operations
(`StartAttempt`, `RecordOddsRun`, `FailWorkflow`, …) are operators with the
names of the repository functions.

`FailWorkflow` models migration 017's CHECK constraint: a stage it does not
admit makes the UPDATE raise, the exception is swallowed, and the row stays.

A failure is `provider` (an external call raises), `db` (a transaction is
refused before it commits) or `crash`; `failing`, chosen at the start from the
constant `Faults`, is what this day may meet. A step that fails goes to the handler
the code gives it: none for the first read of a pregame, a handler that reads
the stage again for most steps, one that uses its own stage for the recheck of
a completed day.

### 3.2 Runs

Every bound is a constant of the configuration: games, run ids, slots and
`MaxFaults`. A pregame starts only while a fresh run id of each kind remains;
with two ids of each kind a run can fail, or be abandoned, and be made again.

| run | question | instance |
| --- | --- | --- |
| `DailySerial` | Does one command at a time keep the day right through any failures? `TypeOK`, `CompletedIsSettled`, `NoCardIsHonest`, and `CardPromise`, the refinement of `OfficialCard`; and when only providers fail, are runs ever lost, duplicated or orphaned, and is a published card always evaluated? `RunsAccounted`, `PublishedCardEvaluated` | 2 games, 3+3 runs, 3 failures, of providers or of any kind |
| `DailyReruns` | Candidates decided again after they were settled: can a day close over a settlement that was withdrawn? `WithdrawnIsNeverClosed`. And whatever earlier commands left behind, does one postgame without a failure of its own complete a published day? `OneCleanPostgame` | 2 games, 2+2 runs, any 2 failures, late pregame, `FairSpec` |
| `DailyConcurrent` | What survives two commands interleaved transaction by transaction? `LinkedRunsFinished`, `EvaluatedOnLinkedOdds`, `EvidenceChain`, `OddsLinkFrozen` | 1 game, 2+2 runs, 2 slots, any failure, late pregame |
| `DailyRecheckFailure` | finding 1: `FailureRecorded` is violated | 1 game |
| `DailyCrashResume` | finding 2: `ResumeNotStranded` is violated | one crash |
| `DailyLatePregame` | finding 3: `NoExcessSettlements` is violated | pregame after the first pitch |

Two games are needed where counts matter: one may be settled and another
pending, or one withdrawn and another added. Three failures reach a failed
attempt, a failed retry and a failure in the handler of either. Two slots
reach every race of two commands on the row; the theorems of section 9 lift
the results of `DailyConcurrent` to any number of slots, runs, games and
failures. The serial and the concurrent question are separate because the
promise about the card holds for commands that do not overlap: two overlapping
pregames may publish a card whose prediction link has moved, which
`DailyConcurrent` therefore does not claim.

`DailyReruns` is also the other side of finding 3. A pregame after the first
pitch may decide games again that are settled, and the audit compares how many
settlements and candidates there are, not which: one withdrawn and one not yet
settled would cancel out. They never do in a completed day, because postgame
settles what is a candidate now, in the same attempt, before the audit counts.

`Symmetry` is used in the safety runs only.

*Fairness* (`DailyReruns`). A command that was started runs on: weak fairness
of its steps, a process of the operating system that is given time. Nothing
else is fair: no command need ever be started, a slate need not begin and a
game need not end (it may be postponed). So `OneCleanPostgame` says nothing of
*when* a day is completed, which is a matter of the schedule (Task Scheduler
starts postgame for a date twice) and of the operator who reruns it ("The same
date can safely be rerun",
`src/docs/operations/mlb_moneyline_live_pipeline.md`). It says that one
postgame is enough when it begins after the games of a published card and the
early entries are played and meets no failure: through the read of the row, the
results, the two settlements and the audit, from every row, evaluation and
settlement that failed, killed and completed commands may have left. Two cases
are not promised: a day whose pregame died before it published
(`pregameDone` is false; see `PublishedCardEvaluated`, which is for provider
failures), and a day with a settlement that a late pregame has withdrawn
(finding 3), which is never completed.

### 3.3 Findings

1. *The recheck of a completed day cannot record its failure.*
   `current_stage = "early_entry_settlement"` is not a stage the table admits;
   the handler's own UPDATE raises and is swallowed; the row stays
   `completed`.
2. *A crash between the entry odds commit and its link strands the day.* The
   slot is occupied by a run no row names, and every resume gets
   `DuplicateOddsSnapshotError`. The same happens when the run is left
   "running".
3. *A pregame after a failed postgame decides settled games again.* A
   withdrawn candidate keeps its settlement, and the audit then fails the day
   for good.

An observation that contradicts no text: the no-card judgement accepts a failed
prediction as an early failure only when exactly one run exists
(`orchestration/moneyline_daily.py:755`), but each retry of the wrapper leaves
one more.

---------------------------------------------------------------------------

## 4. The historical-market pilot

### 4.1 Model

`ledger[a]` is the latest state of attempt `a = <<target, kind>>`, `retryOK[a]`
the retry permission of that line, `last` the attempt of the last line, `torn`
a partial last line, `ledgerDir` the directory that recovery requires. `files`
are the fixed artifacts, `damaged` the partial ones, `evidence` what is stored
per attempt, `manifest` and `inventory` the seal and what it lists. `sends[a]`
counts requests that may have left the host: no code reads it; it is what the
ledger must tell the truth about.

Executors and recoveries have a program counter each; `lock` is the lease,
dropped by the operating system when its holder dies. `authChanged` and
`expired` change at any time, once.

**Every durable write is one action** with the three ways it can fail:
`Append`, `Create`, `CreateEvidence` and `CreateManifest` leave nothing, a
part, or everything on disk and go to the error step of the caller. A torn
ledger refuses every later append, because the reader validates all lines
first.

The response is one of five classes (`ok`, `transient`, `final`, `opaque`,
`one_xx`), by what the executor does with it; classifying it (schema, quota
arithmetic, timestamps) is left out. The integrated executor (0.2.0) reuses
the frozen 0.1.4 attempt state machine; where the two differ (`Unwind`,
`HandleEvidenceError`) the integrated one is modelled. The mutant
`NeverUnresolved` is the frozen executor's handler, which reports whatever
happened: with it `SealedIsClosed` fails, which is what the integrated
handler is for.

`PilotContract` states the promise to whoever pays: `calls[t]`, `answered`,
`sealed`, and three actions. `PilotPromise` is its refinement: `calls` is the
sum of both attempts' sends, `answered` the first attempts with a response on
disk, `sealed` the manifest.

### 4.2 Runs

| run | question | instance |
| --- | --- | --- |
| `PilotFaults` | `PilotTypeOK`, `LedgerTellsTheTruth`, `SealedIsClosed`, `SufficientIsComplete`, `LedgerStaysReadable`, `SealIsFinal`, `PilotPromise` | 2 executors, 1 recovery, 2 targets, 1 I/O error, 1 crash, credits for 3 of 4 attempts |
| `PilotWindow` | finding 4: `RefusedRetryIsStopped` is violated | 1 executor, 1 target, no error |

Two executors race for an empty store; two targets let a run fail or be
refused at the second one, with the ceiling of credits binding at the fourth
attempt; one I/O error can hit any write with any effect; one crash can follow
it. More of each adds no case that the theorems of section 9 do not cover:
they hold for any numbers. The runs have no fairness and claim no liveness:
the code promises none (a crash during recovery leaves a store that can no
longer be sealed, an accepted limitation). `CHECK_DEADLOCK FALSE`, since all
processes end.

4. *Finding: a retry the window refuses leaves no `TERMINAL_STOP`.* After a
   provable pre-send failure the gate of attempt 2 raises outside every try
   block; the run fails correctly, but the ledger's latest line still permits
   the retry, where the pilot specification promises `TERMINAL_STOP`.

---------------------------------------------------------------------------

## 5. The scheduled captures

### 5.1 Model

`pc[p]` is where a process is: a task (wrapper, retry helper and the ingestion
it starts), an operator's own ingestion, or a schedule synchronization. `slate`
is the date the task's first guard announced, `target` the date its ingestion
was told to capture; the two come from two readings of the clock. A
transaction that spans steps keeps what it has written in `tx[p]`; other
processes do not see it, and it sees what is committed at each statement
(READ COMMITTED). Game ids come from a sequence that is never rolled back.

`CanonicalGames` gives the resolution of an event as a set, empty when the code
raises `CanonicalGameIdentityConflictError`. Events, orientations and titles
are small records: what they tell apart is whether an event is the same, moved
or turned.

A task polls the database until it is ready, refused or given up.
`DatabaseReadiness` says what each poll makes of the service, the listener and
the server (`Hosts`, `Servers`): another server, a replica, or a schema below
the minimum is refused at once; a closed port or a server that is starting is
waited for. Its operators are evaluated over every host and server, and what
they can come to (`Findings`) is what a poll may find: the database may change
between two polls. A poll that is transient before the time is up changes
nothing, so it is no step; `DatabaseTimesOut` is the one that is made when the
time is up. Its exit code is the only one of the wait that is retried.

Faults: the provider fails, any statement fails, a process dies at any step of
an ingestion, and the acknowledgement of the last commit is lost, so that the
failure handler marks a run that is completed.

### 5.2 Run

| run | question | instance |
| --- | --- | --- |
| `CaptureNight` | `SingleSnapshot`, `OwnSlate`, `EarlyEntryOfOwnSnapshot`, `OrientationKept`, `BooksKept`, `RetriesRepeatNothing`, `TasksEnd` | the late-night task, whose window ends at midnight, with an operator's capture in its role, a manual capture, or a synchronization; the pregame task with a synchronization |

A day has six ticks and a window three, the wait for the database and the sleep
before a retry one; the clock runs from the firing (4) to midnight (6), when the
last wait is over. Two attempts of the four reach a first, a repeated and a last
one. One event per answer, out of three that differ in id, time or
orientation, reaches every rule of the resolution, since games are few. The
pairs of `MCTogether` are those that share rows.

*Fairness.* Time passes, and a task that can go on does: each wait of the
scripts and of the ingestion has a timeout (that of the database is modelled,
with polls that may all be transient). Nothing is asked of operators or
synchronizations. `TasksEnd` is checked under it.

Not claimed: that one real game has one canonical game. Two transactions that
see none both insert one, and the second stays without a mapping; the model has
this behaviour, and it is listed among the hazards.

---------------------------------------------------------------------------

## 6. The MLB history

### 6.1 Model

One database, one directory of model files, five kinds of processes. Every
repository call that opens its own connection is one action: a roster
synchronization closes an assignment in one and creates the next in another, a
box score is saved after its players, each by itself. A recovery reads, is
approved, reads again and writes in one transaction; between the two any other
process runs. Rows a recovery has locked are waited for (`locked`).

An official prediction run is `ReadManifest`, `CreateRun`, `FetchSlate`,
`SyncSlate`, `SyncStarter`, `CheckHistory`, a `PredictGame` for each game and
`CompleteRun`. `CheckHistory` and each `PredictGame` see the database at
different times. `drawn` records the games a prediction was computed from;
that is all the properties need of its features. `MlbFeatures` says which
games and appearances those are, and how a feature becomes missing.

A model's content is a number (`BuildOf`); fitting is left out, but not what a
fit is given: `Usable` and `ActiveFeatures` decide it from the training rows,
and a fit with no active feature or a single class is refused.

### 6.2 Run

| run | question | instance |
| --- | --- | --- |
| `MlbHistory` | `OneTeamAtATime`, `PredictedFromWholeHistory`, `FoldsSeeThePast`, `PackageIsWhole`, `GuardedRecovery` | nine pairs of processes; six past games of two pairs of teams, a doubleheader of which the first game is played |

A tick is six hours; the clock runs from 25 to 27, and the day of UTC turns at
27. Two past games start at the same time, so that order and cutoffs are
tested at equality. The first game of the doubleheader may be delayed, be
turned, or have box scores that do not agree with its result. `TeamGameLimit`
2, `StartLimit` 1, four initial rows and blocks of two are the smallest
for which a window is full, a block is short and a tuning fold has rows. Pairs
of processes suffice for the properties, each of which relates one writer and
one reader; three at a time exceed the time of a run. Safety only: all
processes may stop.

What the properties do not say:

* `OneTeamAtATime` excepts the days between the dates of two synchronizations
  that overlap: one that took the earlier date may read an assignment, and
  begin the next on it, which the one with the later date closes; the player
  then has two teams on the days between. In the state, `beside` records which synchronizations were
  under way when one took its date; no action reads it. The stored assignment
  of the instance is one that both sides of the race may close.
* `PredictedFromWholeHistory` is about the step that computes the features of a
  game, against what the check required before it. It excepts games that were
  moved past the time of the prediction in between; a prediction does lose
  those.
* `FoldsSeeThePast` lets a row be made of its own game when the row's
  statistics were stored before the start the game was listed with, since the
  feature reads compare the times of storage with that start and the game may
  have been moved.
* A recovery checks each side's totals and its opponent's, and not the runs
  charged to pitchers, so a recovered game may still be incomplete to the
  history check: it then fails closed.
* `PackageIsWhole` excepts a model that was written while a run loaded it: the
  checksum and the load are two reads of the file
  (`predictions/moneyline_service.py:297`), and a build writes in place.

---------------------------------------------------------------------------

## 7. The NFL season

### 7.1 Model

`NflGames` has the games, their statistics and the imports; a game is its row
of the published file, and a result is published only after the kickoff.
`NflFeatures` computes, for a game, the route (early or mature), its values and
the games they come from, with the code's exact cutoffs; averages are pairs of
sum and count, so no rounding is hidden. Predictions and evaluations run at
REPEATABLE READ: the snapshot (`seen`, `view`) is taken by the statement that
asks for the lock, and a row that changed since is a serialization failure.

`NflResearch` runs on the seasons before: a data set is loaded in two
statements, games and history, and a backfill may commit between them; the
export alone has one snapshot. A fit is known by the rows it was made from and
an artifact by its fit, `<<>>` standing for the committed one, whose
fingerprints the code knows. `Forecast` and `Measures` are parameters. Files
of a package are written one by one, to a folder all exports share, by
processes that may die between two.

`NflEvidenceContract` states what the prospective record promises: a game is
officially predicted at most once and before its kickoff, a prediction priced
at most once, later than it was made and before that kickoff, and nothing is
withdrawn. `SeasonPromise` is its refinement by `NflSeason`.

### 7.2 Runs

| run | question | instance |
| --- | --- | --- |
| `NflSeason` | `SlateIsWhole`, `NoLookahead`, `EvidenceIsPregame`, `OneMarketPerDate`, `PricedOnLaterMarket`, `ForwardRecordIsPregame`, `ConfirmationIsBlind`, `EvidenceOutOfSample`, `SeasonPromise` | thirteen crews of two to four processes |
| `NflScheduleRace` | finding 5: `CompletedGamesStay` is violated | one import of a future schedule and one backfill |

A crew is the set of processes that run together, the first season the
database has, and the last tick. Those on the forward season (two games, one
game before it) run five ticks: an official window of three, two slates with a
game in common, two executions of one key, two captures of a date, two
evaluations. Those on all seasons (three or four games in each of 21 to 24 for
development, 25 held out, 26 to come) stop the clock, which no research command
reads. Edited files correct a score or a kickoff of season 24 in between.
`MatureGames` is 1 where the code has 3, and `MinimumRetention` 60 where it has
80 percent: with three games a season, policy 2 then falls below the retention
and the choice between the others is open. The crew of four research processes
(holdout, rebuild, export, backfill) passes by itself, and is left out of the
run for its time.

No fairness and no liveness: these are commands of an operator, and each may be
refused. `CHECK_DEADLOCK FALSE`.

`OneMarketPerDate` does not say that a date is paid for once: a capture that
fails after the call has been paid for, and frees its date. Two operators may
buy it one after the other, and then the first purchase was over before the
second was made and has left no quote and no evidence.

`NoLookahead` is about two reads of one prediction: the sources that were
recorded with it, and the features computed for it again from what the
database has come to hold. The second part needs that its evidence is still
valid: a game that is moved earlier and then played would be read by its own
prediction, and that prediction is refused.

5. *Finding: an import of the future schedule makes a played game unplayed.*
   `build_future_schedule_plan` refuses to touch a completed game, but its read
   is rolled back before the rows are written by another transaction, and
   `persist_nfl_game` does not look again. `NoLookahead` and the forward
   record survive it, as `NflSeason` checks: predictions are made from the
   rows of their own snapshot, and a record that no longer agrees with its
   games is refused as a whole.

Left out: parsing and reviewed overrides of files, calibration, bootstrap,
segments and layout of reports, database provenance, and the checks of
schemas.

---------------------------------------------------------------------------

## 8. Mutants

Each property of a passing run has a mutant in `PROJECT.json`: an operator
next to the one it replaces, with a comment `Mutant: …`, that changes the code
the way a plausible bug would (a handler that forgets a state, a check that is
dropped, an error taken for another). With the mutant in place TLC finds the
property violated, so no property holds by the shape of the model.

---------------------------------------------------------------------------

## 9. Proofs

All theorems are for every value of the constants under the assumptions
declared with them, which TLC evaluates on every instance:

* `WorkflowAssumption` (`None` is no run id, the fault kinds are known) and
  `PilotAssumption` (executors and recoveries are disjoint and not `NoOne`, at
  least one target); the ceilings of the pilot are unconstrained;
* for the season `GamesAssumption` (a file and the database at the start have
  finitely many games; ids, seasons and kickoffs are numbers),
  `FeatureAssumption`, `DatasetAssumption` (the folds of the code look forward
  and each validates a later season than the last; the early data set begins a
  season after the other), `ResearchAssumption` (the forward season comes
  after the held-out one) and those of the captures and predictions (at least
  one bookmaker and one attempt, an answer of the provider is finite and its
  prices are not zero);
* for the captures `CaptureAssumption`, `CanonicalAssumption` (a day, a window,
  a wait and a retry take at least a tick, target offsets are numbers, tasks,
  manual captures and synchronizations are different processes, a task's role
  has a schedule) and `ReadinessAssumption` (there is a minimum migration);
* for the history `RostersAssumption`, `ResultsAssumption`,
  `RecoveryAssumption`, `PredictionAssumption` (who may be the same process,
  what the provider lists is a sequence of games with a start),
  `StoredAssumption` (the games stored at the start are numbered, sources and
  rows of statistics are of games that are there, and a game has one row of a
  team, as the keys of the tables demand), `TrainingAssumption` (windows and blocks are not empty,
  and there are two tuning splits at least) and `CalendarAssumption` (days
  follow each other; what is stored at the start was stored by then, and leaves
  a player one current assignment).

The theorems of 9.2, one of 9.4 and two of 9.6 need more than these; each names
its hypotheses in its statement, and these sections say what they mean and
where they come from.

### 9.1 `DailyWorkflowProofs`

| theorem | statement |
| --- | --- |
| `RunsInvariant` | `Spec => []RunsInv` |
| `TypeCorrect` | `Spec => []TypeOK` |
| `LinksAreFinished` | `Spec => []LinkedRunsFinished` |
| `EvaluationsUseLinkedOdds` | `Spec => []EvaluatedOnLinkedOdds` |
| `EvidenceIsChained` | `Spec => []EvidenceChain` |
| `OddsLinkNeverMoves` | `Spec => OddsLinkFrozen` |

None of these is inductive alone. That the row links finished runs depends
on what each slot holds between its transactions, so `RunsInv` adds
`RunInHand` (the status of the run a slot is making), `RowInHand` (the ids it
keeps name finished runs, and are there at the steps that need them) and
`SoleMaker` (no two slots make the same run: otherwise one could fail the run
the other is about to link), and `OneLiveEntryRun`, the partial unique index.
`OddsLinkNeverMoves` is where they meet: to link
an id the slot must hold a completed run, the linked one is completed too, and
the index allows one. `EvaluationsUseLinkedOdds` needs in addition that the row
is linked whenever an invocation holds an odds id or an evaluation is stored
(`OddsAreLinked`): ids are only ever taken from the row or put there first.

### 9.2 `DailyCardProofs`

| theorem | hypotheses | statement |
| --- | --- | --- |
| `SerialInvariant` | `OneSlot` | `Spec => [](RunsInv /\ SerialInv)` |
| `CompletedDaysAreSettled` | the same | `Spec => []CompletedIsSettled` |
| `WithdrawnDaysStayOpen` | the same | `Spec => []WithdrawnIsNeverClosed` |
| `NoCardReportIsHonest` | the same | `Spec => NoCardIsHonest` |
| `WorkflowKeepsCardPromise` | `OneSlot`, `PregameInTime` | `Spec => CardPromise` |
| `RunsAreAccounted` | `OneSlot` | `Spec => []RunsAccounted` |
| `AwaitedCardIsEvaluated` | the same | `Spec => []PublishedCardEvaluated` |

The promise about the card is one of commands that do not overlap, so these
theorems have hypotheses: `OneSlot` (one command at a time, any number of them
one after another: Task Scheduler starts no second instance, and an operator
waits for the first); for the refinement of `OfficialCard`, `PregameInTime`
(pregame is not started after the first pitch: finding 3 is what happens
otherwise). The last two properties are about days with `OnlyProvidersFail`
(the database and the process do not: finding 2 is what happens otherwise).
Slates, run ids, and the number of failures, crashes and outages are arbitrary,
but for
`SlateAssumption` of `DailyWorkflow`: a slate is finite, so that equally many
settlements and candidates, all candidates settled, are the same games.

* `SerialInv` says that what a command keeps in memory is still so: the ids of
  the row it read at its start, and the row itself while the no-card evidence is
  counted (`InStep`); and that a count taken in one transaction still holds in
  the later ones that rely on it (`Counted`). `DayInv` adds what rows say of
  each other: evaluations are those of the linked pair, a completed row has its
  card settled and no settlement of what is no candidate, and started runs are
  finitely many, so that "exactly one run" is a statement about them.
* `WithdrawnDaysStayOpen` is where the audit's count becomes a statement about
  games: all candidates are settled when the audit counts, and as many
  settlements as candidates are then the same finite set (`AuditedCard`).
* `InTimeInv` adds, for pregames in time, that none is under way with a
  settlement in place. `CardOfDayStep` maps every transaction to one action of `OfficialCard` or to
  none.
* `RunsHeld` and `PublishedInv` are two more invariants, for the providers'
  failures: a run that is neither linked nor failed is held by the step that
  will link it, and each way to "awaiting results" goes through the stored
  evaluation.

### 9.3 `PilotExecutorProofs`

| theorem | statement |
| --- | --- |
| `PilotInvariant` | `Spec => []PilotInv` |
| `PilotTypeCorrect` | `Spec => []PilotTypeOK` |
| `LedgerIsTruthful` | `Spec => []LedgerTellsTheTruth` |
| `SealedStoreIsClosed` | `Spec => []SealedIsClosed` |
| `SufficientRunIsComplete` | `Spec => []SufficientIsComplete` |
| `LedgerIsReadable` | `Spec => LedgerStaysReadable` |
| `SealedStoreIsFinal` | `Spec => SealIsFinal` |
| `PilotKeepsPromise` | `Spec => PilotPromise` |

`PilotInv` adds to the properties what makes them inductive:

* `LeaseInv`: whoever is in the locked part holds the lease;
* `ClaimInv`: one executor at most is past `claim.json`, and before the lease
  is taken no ledger and no manifest exist. It is why writing the identity
  artifacts outside the lease is safe;
* `LedgerInv`: no ledger before its directory, and a retry only after a first
  attempt that ended; the second part is what the contract's second call needs;
* `AttemptFacts`: at each step of an attempt, its ledger state, its sends and
  its evidence; no other attempt is open; all earlier targets are answered;
* `ClosingFacts`: a run closes with nothing open, and with a failure or every
  answer;
* `RecoveryFacts`: what recovery checked again under the lease still holds.

The proof has a lemma per durable write (`AppendEffect`, `CreateEffect`, …),
one for the holder of the lease (`HolderStep`: nobody else in the locked part
moves), one for legal lines (`LegalWrite`), and then one per action. For the
properties of steps and the refinement, `StepWrites` says that every step
writes at most one thing, to an unsealed store, but for the rejection of a run
by the executor that sealed it; the three theorems follow from that effect
alone.

`RunsInv` and `PilotInv` were checked by TLC on the instances `DailyConcurrent`
and `PilotFaults` before they were proved; to repeat that, add them to the
`INVARIANTS` of the two configurations.

### 9.4 `NflSeasonProofs`

| theorem | hypotheses | statement |
| --- | --- | --- |
| `SeasonInvariant` | none | `Spec => []SeasonInv` |
| `DatesHaveOneMarket` | none | `Spec => []OneMarketPerDate` |
| `AcceptedRecordIsPregame` | none | `Spec => []ForwardRecordIsPregame` |
| `EvidenceStaysPregame` | none | `Spec => []EvidenceIsPregame` |
| `SlatesStayWhole` | none | `Spec => []SlateIsWhole` |
| `PredictionsLookBack` | none | `Spec => []NoLookahead` |
| `EvaluationsUseLaterMarkets` | none | `Spec => []PricedOnLaterMarket` |
| `SeasonKeepsPromise` | none | `Spec => SeasonPromise` |
| `PoliciesAreChosenBlind` | none | `Spec => []ConfirmationIsBlind` |
| `PackagesAreOutOfSample` | `SeasonsFollow` | `Spec => []EvidenceOutOfSample` |

They hold for any number of processes of the five kinds, any files and answers,
and whatever a model computes and a measure says: `HomeProbability`, `Forecast`
and `Measures` are never expanded.

* `SeasonInv` is inductive: games are rows of files and none is deleted
  (`GamesInv`); each capture's row, calls and step fit together and a date is
  held once (`CaptureInv`); a snapshot that waits for its lock and the slate of
  an inference are of games that are there, and a game has one official
  prediction, made before its kickoff (`PredictionInv`); an evaluation in
  progress has a stored prediction and a snapshot no newer than the database,
  and a stored one lies between its prediction and the kickoff
  (`EvaluationInv`).
* `StepAdds` says what a step may add to the record: the predictions of one
  execution, the evaluation of one, or nothing. The refinement follows from it
  alone; the three hazards it must survive (the unique index checked against
  rows the snapshot does not show, a rival evaluation, a moved kickoff) are in
  `StoredRecords` and `CompletedPrices`.
* `DatesHaveOneMarket` needs `PurchaseInv`: a reservation finds every earlier
  capture of its date failed, a failed row is never written again, and quotes
  are only of completed captures, since those of a failing one are rolled back
  with it.
* `EvidenceStaysPregame` needs `EvidenceInv`: mappings and quotes point to
  games that are there, a completed capture never writes its row again, and no
  import changes the teams of a game (`NextKeepsTeams`).
* `SlatesStayWhole` needs `SlateInv`: an execution that has a run expects its
  slate, one execution at a time holds the run's lock and the run is then
  still running and without predictions.
* `PredictionsLookBack`: whatever the route, a source is a game of the current
  season that kicks off before, or of an earlier season that does
  (`SourcesBegin`), and the trace of a prediction is that of the snapshot it
  was made from.
* `EvaluationsUseLaterMarkets` needs `MarketInv`: quotes have prices of
  finitely many bookmakers, a snapshot shows no evidence that is not there, and
  an evaluation keeps what it was made from (`PricedWell`). That its price is
  best is a fact about the order in which contributors are taken: it is strict
  and total (`PaysTransitive` is arithmetic over prices of both signs), and a
  finite set has a first member in such an order (`FirstMember`).
* `PoliciesAreChosenBlind` compares two computations of `Select`, on the rows
  as they were read and on rows with the results of the confirmation season
  turned round. Their games have the same places and seasons
  (`OtherwiseSame`), and the folds that select do not reach that season
  (`TriedBlind`), so both are given the same arguments and nothing need be
  known of `Select`. `ReportInv` carries the rows from the two reads to the
  report, across a backfill that commits in between.
* That a fold is trained on what came before it has two causes: rows are in the
  order of their kickoffs, which keeping some of them preserves (`PlacesKeep`),
  and the code refuses a fold whose last training game is not before its first
  validation game (`SoundFoldsSeparate`). The rows are sorted by a permutation
  (`PlaceIn`); that it has every place is `PlacesTaken` of `OrderFacts`, a
  count over finite sets, for which `GamesCounted` keeps the games finite.
* `PackagesAreOutOfSample` needs `SampleInv`: what an export has read is of one
  snapshot and equal to the committed data sets (`InputRead`), what it is
  writing is out of sample (`OutOfSample`), and so is what any manifest in any
  folder lists, though several exports write to one folder and may die between
  two files. A package is judged only with files that its manifest lists, so
  the manifest is what the invariant follows.

`SeasonsFollow` says that in all files the games of a season kick off before
those of the next. It is a fact about schedules, not about the code: an export
takes the training rows of a game by their season and does not compare their
kickoffs with its own.

### 9.5 `ScheduledCaptureProofs`: runs, retries and sportsbooks

| theorem | statement |
| --- | --- |
| `OneSnapshotPerSlate` | `Spec => []SingleSnapshot` |
| `BookmakersKeepTheirSportsbook` | `Spec => []BooksKept` |
| `RetriesStartFromNothing` | `Spec => RetriesRepeatNothing` |

One invariant `Inv` serves the three. `HasRun` and `LeavesNothing` follow an
ingestion: the run it writes is its own, and every way back to another attempt
goes through the exit code 75, which only a run that was marked failed leaves
(a commit whose acknowledgement is lost, and a failure to mark the run, both
exit 1). `PlaceHeldOnce` is the partial unique index over a growing sequence
of runs. `TxHolds` is the delicate part: what an open transaction would insert
need *not* agree with itself, since a key may be resolved to a sportsbook that
another transaction has committed in between; it agrees unless the commit is
going to be refused.

### 9.6 `ScheduledCaptureProofs`: games and slates

| theorem | hypotheses | statement |
| --- | --- | --- |
| `QuotesKeepTheirSides` | none | `Spec => []OrientationKept` |
| `CapturesBelongToTheirSlate` | `WindowsWithinTheDay`, `OverBeforeTheNextWindow` | `Spec => []OwnSlate` |
| `EarlyEntryUsesItsOwnCapture` | the same | `Spec => []EarlyEntryOfOwnSnapshot` |

* `QuotesKeepTheirSides`: game ids come from one sequence and no statement
  changes the orientation of a game, but a transaction sees games that are
  committed while it runs. `GamesInv` says that a game is in two transactions
  only when it is committed (`Unshared`), and that what an open transaction
  would write agrees with what is committed (`TxGames`).
* `CapturesBelongToTheirSlate`: the guard announces a slate from one reading of
  the clock, the resolver a target from another, every retry reads it again,
  and a retry may sleep past midnight. `SlateInv` says what each step of a task
  knows of its window, `DatesInv` that quotes and what is about to be saved are
  of the day of their run and of games that had not begun.
* `EarlyEntryUsesItsOwnCapture`: `EarlyInv` adds that a task that goes on to
  Early Entry has a completed run of its role and target; the partial unique
  index (`PlaceHeldOnce`) makes it the latest.

`WindowsWithinTheDay` holds of the schedule: the last window, of the late-night
role, is 23:00 to 24:00. `OverBeforeTheNextWindow` says that the behaviour ends
before the role's window opens on the next day. No task has an execution time
limit in the repository, so a machine that sleeps for a day in the middle of a
task is outside the theorem; with it the resolver could announce the slate of
the next day, and only the guard of the next attempt would tell.

### 9.7 `MlbHistoryProofs`

| theorem | statement |
| --- | --- |
| `RostersInvariant` | `Spec => []RosterInv` |
| `PlayerHasOneTeam` | `Spec => []OneTeamAtATime` |
| `RunsUseWholePackages` | `Spec => []PackageIsWhole` |
| `RecoveryInvariant` | `Spec => []HistoryInv` |
| `RecoveryIsGuarded` | `Spec => GuardedRecovery` |
| `HistoryIsRead` | `Spec => []ReadInv` |
| `PredictionsDrawOnHistory` | `Spec => PredictedFromWholeHistory` |
| `FoldsLookBack` | `Spec => []FoldsSeeThePast` |

They hold for any number of ingestions, recoveries, synchronizations, runs and
builds in any crew, any answers of the provider, and any stored history.

* `RosterInv`: a synchronization takes its date while it is under way, and of
  two that overlap the later knows the earlier (`DatesTaken`); an assignment
  ends on the date of a synchronization or before today, and of two assignments
  of a player one has ended by the day the other begins, or they begin and end
  on the dates of two that overlapped (`AssignmentsFollow`).
* `PackageInv`: what a run finds on disk between its two reads, and what it has
  loaded, is of the checksum it read or was saved since (`Loads`); it rests on
  builds that save a model before they describe it.
* `HistoryInv`: what a recovery has compared stays so until it commits
  (`Guarded`), since every other writer of games, identities, results and rows
  either waits for the locks or cannot reach the game. The writers are folds:
  the transaction of a date resolves its games one after another and the rows
  of a box score are saved one by one, so their effect (`WritesFree`) is proved
  by induction along the fold. The provers cannot instantiate an induction
  theorem that takes a predicate; `FoldFacts` uses one that does not, the
  existence of a minimal element (`WFMin` of `WellFoundedInduction`), as
  minimal counterexample. Its theorem `Steps` says that the iteration behind
  `FoldLeft` has an initial value, and after each place the value the operator
  makes of the one before; `MlbHistoryProofs` takes it with `INSTANCE` for each
  operator it folds.
* `ReadInv` is what a check of the history leaves behind. Games keep their
  numbers and rows of statistics their game, team and time of creation
  (`RowsInv`: an upsert keeps the row it meets), so what a run has required of
  a team (`Checked`) is found by its later reads unless the game was moved past
  it. The window of a team is a choice of the newest of its games: `NewestOf`
  says by their ranks that a game left out of a full window is older than all
  that are in it.
* `TrainingInv` follows a build: the games are listed in order of their starts,
  the rows keep that order, and a row is made of what had begun (`Trains`). The
  folds are arithmetic on the places of the rows (`BlockOfRow`: each row after
  the first window lies in one block, also in a last one that is short;
  `TuningFits`: the tuning windows of a fold stay inside it), which the order
  of the rows turns into statements about starts (`FoldLooksBack`).

TLC has checked `SerialInv` on `DailySerial` and `DailyReruns`, `RunsHeld` and
`PublishedInv` for the provider days of the first, `InTimeInv` on it,
`OddsAreLinked` on `DailyConcurrent`, `GamesInv`, `SlateInv`, `DatesInv`, `EarlyInv` and both
hypotheses of 9.6 on `CaptureNight`, `SeasonInv`, `EvidenceInv`, `SlateInv`,
`MarketInv`, `PurchaseInv`, `GamesCounted`, `ReportInv`, `SampleInv` and the hypothesis of 9.4
on `NflSeason`, and `RosterInv`, `PackageInv`, `ReadInv` and
`TrainingInv` on `MlbHistory`. To repeat that, extend the `MC…` module by the
module of the proofs and name them under `INVARIANTS`.

### 9.8 Only model-checked, and next

* `OneCleanPostgame`, `TasksEnd`: liveness under fairness is out of reach of
  the installed provers, as is `ENABLED`.
* The five violations: counterexamples found by TLC.

All safety properties of the passing runs are theorems. What could be done next
is to lighten hypotheses: `OneSlot` of 9.2 excludes the harmless overlaps of
two commands too, and `OverBeforeTheNextWindow` of 9.6 more than a task that
sleeps across the next opening of its role's window.

No module has a `RECURSIVE` operator.

---------------------------------------------------------------------------

## 10. What the models leave out

* The contents of predictions, odds, evaluations and responses, and every
  number in them; where a decision depends on them the model chooses.
* A reusable pregame (`_can_reuse_completed_pregame`) only audits and returns:
  it writes nothing and has no action.
* Database deadlocks and isolation anomalies inside one transaction: each
  transaction is atomic, as it runs on one connection and touches the rows of
  one date.
* A lease that the operating system fails to drop, and a file system that
  loses a write it reported durable.
* Tampering with the store from outside the program.
