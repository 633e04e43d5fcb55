------------------------- MODULE ScheduledCapture -------------------------
(***************************************************************************)
(* The scheduled captures of MLB odds, and the schedule synchronization    *)
(* they share the canonical games with.                                    *)
(*                                                                         *)
(* A task is one firing of the Windows scheduler: the task wrapper checks  *)
(* its window, resolves the slate it is for, and runs the ingestion under  *)
(* the retry helper, which checks the window again before every attempt.   *)
(* An ingestion is a process with its own connection: it commits a run,    *)
(* asks the provider, commits the time of the answer, and saves the quotes *)
(* of every event in one transaction.  Transactions are READ COMMITTED: a  *)
(* statement sees what is committed when it runs and what its own          *)
(* transaction has written.  Time passes between any two steps, a process  *)
(* may die at any of its own, and a commit's acknowledgement may be lost.  *)
(***************************************************************************)
EXTENDS CanonicalGames, DatabaseReadiness, Sequences

CONSTANTS
    Tasks,          \* firings of the scheduler
    Manuals,        \* ingestions an operator starts without the wrapper
    Syncs,          \* schedule synchronizations (one date each)
    Together,       \* bound: the sets of these that take part in one behaviour
    RoleOf,         \* the snapshot role of a task or of a manual ingestion
    ScheduledAt,    \* role -> the ticks of the day at which it is scheduled
    DayOffset,      \* role -> target date relative to the scheduled day
    WindowTicks,    \* EXECUTION_VALIDITY_WINDOW
    RetryTicks,     \* RetryDelaySeconds
    WaitTicks,      \* TimeoutSeconds of the wait for the database
    MaxAttempts,
    FirstFiring,    \* the tick at which a task fires
    Horizon,        \* bound: the last tick
    Offers,         \* events the provider may list: [ext, orient, start, key, title]
    Listings,       \* games the schedule may list:  [ext, orient, start]
    MaxEvents       \* bound: events in one response

ASSUME CaptureAssumption ==
    /\ \A r \in DOMAIN ScheduledAt : ScheduledAt[r] # {} /\ ScheduledAt[r] \subseteq 0 .. DayTicks - 1
    /\ WindowTicks \in Nat \ {0} /\ RetryTicks \in Nat \ {0} /\ WaitTicks \in Nat \ {0}
    /\ MaxAttempts \in Nat \ {0} /\ FirstFiring \in Nat /\ Horizon \in Nat /\ MaxEvents \in Nat
    /\ Tasks \cap Manuals = {} /\ (Tasks \cup Manuals) \cap Syncs = {}
    /\ \A p \in Tasks : RoleOf[p] \in DOMAIN ScheduledAt /\ DayOffset[RoleOf[p]] \in Int

Ingestions == Tasks \cup Manuals
Processes == Ingestions \cup Syncs
NoTime == -1
NoDay == -1

VARIABLES
    clock,          \* now, in ticks
    pc,             \* where each process is
    slate,          \* task -> the target date its first guard announced
    target,         \* ingestion -> the date it was told to capture
    attempt,        \* task -> the attempts begun
    wake,           \* task -> when its sleep, or its wait for the database, ends
    exit,           \* ingestion -> exit code of the process it last ran and not yet read
    early,          \* task -> the odds run its Early Entry capture evaluated
    current,        \* ingestion -> the run it is writing
    pending,        \* process -> events of its response not yet resolved
    tx,             \* process -> what its open transaction has written
    runs,           \* odds_ingestion_runs, by id
    games, sources, \* games and game_sources
    nextGame,       \* the sequence of game ids: never rolled back
    identities,     \* sportsbook_provider_identities
    quotes          \* odds_market_snapshots with their event observations

tasks == <<slate, target, attempt, wake, exit, early>>
store == <<runs, games, sources, identities, quotes>>
vars == <<clock, pc, tasks, current, pending, tx, store, nextGame>>

NoTx == [games |-> <<>>, links |-> {}, books |-> {}, quotes |-> {}]

Init ==
    /\ clock = FirstFiring
    /\ \E some \in Together : pc = [p \in Processes |-> IF p \in some THEN "idle" ELSE "done"]
    /\ slate = [p \in Tasks |-> NoDay]
    /\ target = [p \in Ingestions |-> NoDay]
    /\ attempt = [p \in Tasks |-> 0]
    /\ wake = [p \in Tasks |-> NoTime]
    /\ exit = [p \in Ingestions |-> 0]
    /\ early = [p \in Tasks |-> 0]
    /\ current = [p \in Ingestions |-> 0]
    /\ pending = [p \in Processes |-> {}]
    /\ tx = [p \in Processes |-> NoTx]
    /\ runs = <<>>
    /\ games = <<>> /\ sources = {} /\ identities = {} /\ quotes = {}
    /\ nextGame = 1

Tick ==
    /\ clock < Horizon
    /\ clock' = clock + 1
    /\ UNCHANGED <<pc, tasks, current, pending, tx, store, nextGame>>

(***************************************************************************)
(* The guard (orchestration/scheduled_execution.py).                       *)
(***************************************************************************)
IntendedTime(role, now) ==
    LET times == {d * DayTicks + s : d \in {Day(now), Day(now) - 1}, s \in ScheduledAt[role]}
    IN  CHOOSE t \in times : /\ t <= now
                             /\ \A u \in times : u <= now => u <= t

IntendedTarget(role, now) == Day(IntendedTime(role, now)) + DayOffset[role]

(* The earliest start the authority has given a game of a slate.           *)
SlateStarts(day) ==
    {games[g].start : g \in {x \in DOMAIN games : MappedBy(sources, x, Mlb)
                                                  /\ Day(games[x].start) = day}}

(* Mutant: the window is a tick longer. *)
LatestStartLonger(role, now) == IntendedTime(role, now) + WindowTicks + 1

LatestStart(role, now) == IntendedTime(role, now) + WindowTicks

Valid(role, now) == now < LatestStart(role, now)

(* The pregame task alone is also held to the first start of its slate,    *)
(* and refused when the slate has no start.                                *)
ValidBeforeFirstPitch(role, now) ==
    /\ Valid(role, now)
    /\ role = "pregame" => /\ SlateStarts(IntendedTarget(role, now)) # {}
                           /\ \A s \in SlateStarts(IntendedTarget(role, now)) : now < s

(* resolve_snapshot_target_date, with a clock of its own.                  *)
ResolvedTarget(role, now) == Day(now) + DayOffset[role]

(***************************************************************************)
(* The wrapper (run_moneyline_odds_snapshot_task.ps1 and the scripts it    *)
(* calls) and the retry helper.                                            *)
(***************************************************************************)
Goto(p, label) == pc' = [pc EXCEPT ![p] = label]

GuardTask(p) ==
    /\ pc[p] = "idle" /\ RoleOf[p] # "pregame"
    /\ IF Valid(RoleOf[p], clock)
       THEN /\ Goto(p, "resolve")
            /\ slate' = [slate EXCEPT ![p] = IntendedTarget(RoleOf[p], clock)]
       ELSE Goto(p, "failed") /\ UNCHANGED slate
    /\ UNCHANGED <<clock, target, attempt, wake, exit, early, current, pending, tx, store, nextGame>>

(* The pregame wrapper leaves every check to its preflight.                *)
StartPregame(p) ==
    /\ pc[p] = "idle" /\ RoleOf[p] = "pregame"
    /\ Goto(p, "preflight")
    /\ UNCHANGED <<clock, tasks, current, pending, tx, store, nextGame>>

ResolveTarget(p) ==
    /\ pc[p] = "resolve"
    /\ Goto(p, "preflight")
    /\ target' = [target EXCEPT ![p] = ResolvedTarget(RoleOf[p], clock)]
    /\ UNCHANGED <<clock, slate, attempt, wake, exit, early, current, pending, tx, store, nextGame>>

(* A preflight checks the window and starts to wait for the database.      *)
Preflight(p) ==
    /\ pc[p] = "preflight"
    /\ attempt' = [attempt EXCEPT ![p] = @ + 1]
    /\ IF Valid(RoleOf[p], clock)
       THEN Goto(p, "database") /\ wake' = [wake EXCEPT ![p] = clock + WaitTicks]
       ELSE Goto(p, "failed") /\ UNCHANGED wake
    /\ UNCHANGED <<clock, slate, target, exit, early, current, pending, tx, store, nextGame>>

(* The database is polled until it is ready, until it is found to be       *)
(* another one, or until the time is up: a poll that comes out "transient" *)
(* before changes nothing.  Between two polls it may come up, go down or   *)
(* be replaced.  The first poll is made whatever the time.                 *)
EndWait(p) == wake' = [wake EXCEPT ![p] = NoTime]

(* A database that is ready is followed by a second guard.                 *)
DatabaseReady(p) ==
    /\ pc[p] = "database" /\ "ready" \in Findings
    /\ EndWait(p)
    /\ Goto(p, IF ~ValidBeforeFirstPitch(RoleOf[p], clock) THEN "failed"
               ELSE IF RoleOf[p] = "pregame" THEN "workflow" ELSE "create")
    /\ UNCHANGED <<clock, slate, target, attempt, exit, early, current, pending, tx, store, nextGame>>

DatabaseRefused(p) ==
    /\ pc[p] = "database" /\ "permanent" \in Findings
    /\ EndWait(p)
    /\ exit' = [exit EXCEPT ![p] = 1]
    /\ Goto(p, "exited")
    /\ UNCHANGED <<clock, slate, target, attempt, early, current, pending, tx, store, nextGame>>

DatabaseTimesOut(p) ==
    /\ pc[p] = "database" /\ "transient" \in Findings /\ clock >= wake[p]
    /\ EndWait(p)
    /\ exit' = [exit EXCEPT ![p] = 75]
    /\ Goto(p, "exited")
    /\ UNCHANGED <<clock, slate, target, attempt, early, current, pending, tx, store, nextGame>>

(* The daily pregame workflow is a process with an exit code.              *)
RunPregame(p) ==
    /\ pc[p] = "workflow"
    /\ \E code \in {0, 1, 75} : exit' = [exit EXCEPT ![p] = code]
    /\ Goto(p, "exited")
    /\ UNCHANGED <<clock, slate, target, attempt, wake, early, current, pending, tx, store, nextGame>>

MayRetry(p) ==
    /\ exit[p] = 75
    /\ attempt[p] < MaxAttempts
    /\ ValidBeforeFirstPitch(RoleOf[p], clock)
    /\ clock + RetryTicks < LatestStart(RoleOf[p], clock)
    /\ RoleOf[p] = "pregame" =>
           \A s \in SlateStarts(IntendedTarget(RoleOf[p], clock)) : clock + RetryTicks < s

(* Mutant: exhausted attempts are taken for the end of the work. *)
AttemptEndsExhausted(p) ==
    /\ pc[p] = "exited"
    /\ IF MayRetry(p)
       THEN Goto(p, "sleeping") /\ wake' = [wake EXCEPT ![p] = clock + RetryTicks]
       ELSE /\ Goto(p, IF exit[p] = 1 THEN "failed"
                       ELSE IF RoleOf[p] = "late_night" THEN "early_entry" ELSE "done")
            /\ UNCHANGED wake
    /\ exit' = [exit EXCEPT ![p] = 0]
    /\ UNCHANGED <<clock, slate, target, attempt, early, current, pending, tx, store, nextGame>>

AttemptEnds(p) ==
    /\ pc[p] = "exited"
    /\ IF MayRetry(p)
       THEN Goto(p, "sleeping") /\ wake' = [wake EXCEPT ![p] = clock + RetryTicks]
       ELSE /\ Goto(p, IF exit[p] # 0 THEN "failed"
                       ELSE IF RoleOf[p] = "late_night" THEN "early_entry" ELSE "done")
            /\ UNCHANGED wake
    /\ exit' = [exit EXCEPT ![p] = 0]
    /\ UNCHANGED <<clock, slate, target, attempt, early, current, pending, tx, store, nextGame>>

(* Mutant: the time to wake is passed over when it comes. *)
WakeUpLate(p) ==
    /\ pc[p] = "sleeping" /\ clock > wake[p] + RetryTicks
    /\ Goto(p, "preflight")
    /\ wake' = [wake EXCEPT ![p] = NoTime]
    /\ UNCHANGED <<clock, slate, target, attempt, exit, early, current, pending, tx, store, nextGame>>

WakeUp(p) ==
    /\ pc[p] = "sleeping" /\ clock >= wake[p]
    /\ Goto(p, "preflight")
    /\ wake' = [wake EXCEPT ![p] = NoTime]
    /\ UNCHANGED <<clock, slate, target, attempt, exit, early, current, pending, tx, store, nextGame>>

LateNightRuns(day) ==
    {r \in DOMAIN runs : /\ runs[r].role = "late_night" /\ runs[r].target = day
                         /\ runs[r].status = "completed"}

(* The late-night task goes on, after the guard once more, to the Early    *)
(* Entry capture, which evaluates the latest completed late-night run of   *)
(* the slate; it fails when there is none, or no preview to evaluate.      *)
CaptureEarlyEntry(p) ==
    /\ pc[p] = "early_entry"
    /\ \/ /\ Valid(RoleOf[p], clock)
          /\ \E r \in LateNightRuns(target[p]) :
                /\ \A other \in LateNightRuns(target[p]) : other <= r
                /\ early' = [early EXCEPT ![p] = r]
          /\ Goto(p, "captured")
       \/ Goto(p, "failed") /\ UNCHANGED early
    /\ UNCHANGED <<clock, slate, target, attempt, wake, exit, current, pending, tx, store, nextGame>>

(* An operator runs the ingestion's own command line, for any date.        *)
StartManual(p) ==
    /\ pc[p] = "idle"
    /\ \E d \in Day(clock) .. Day(Horizon) : target' = [target EXCEPT ![p] = d]
    /\ Goto(p, "create")
    /\ UNCHANGED <<clock, slate, attempt, wake, exit, early, current, pending, tx, store, nextGame>>

ManualEnds(p) ==
    /\ pc[p] = "exited"
    /\ Goto(p, IF exit[p] = 0 THEN "done" ELSE "failed")
    /\ exit' = [exit EXCEPT ![p] = 0]
    /\ UNCHANGED <<clock, slate, target, attempt, wake, early, current, pending, tx, store, nextGame>>

(***************************************************************************)
(* One ingestion (ingest/odds_api.py).                                     *)
(***************************************************************************)
Active == {"running", "completed"}

(* Mutant: the index counts only the runs that are running. *)
DuplicateRunning(role, day) ==
    /\ role # "manual"
    /\ \E r \in DOMAIN runs : /\ runs[r].role = role /\ runs[r].target = day
                             /\ runs[r].status = "running"

(* The partial unique index of odds_ingestion_runs leaves "manual" out.     *)
Duplicate(role, day) ==
    /\ role # "manual"
    /\ \E r \in DOMAIN runs : /\ runs[r].role = role /\ runs[r].target = day
                             /\ runs[r].status \in Active

Exit(p, code) ==
    /\ exit' = [exit EXCEPT ![p] = code]
    /\ Goto(p, "exited")

(* create_ingestion_run commits the run before the provider is asked.      *)
CreateRun(p) ==
    /\ pc[p] = "create"
    /\ IF Duplicate(RoleOf[p], target[p])
       THEN Exit(p, 1) /\ UNCHANGED <<runs, current>>
       ELSE /\ runs' = Append(runs, [role |-> RoleOf[p], target |-> target[p], by |-> p,
                                      status |-> "running", observed |-> NoTime])
            /\ current' = [current EXCEPT ![p] = Len(runs) + 1]
            /\ Goto(p, "fetch") /\ UNCHANGED exit
    /\ UNCHANGED <<clock, slate, target, attempt, wake, early, pending, tx, games, sources, identities,
                   quotes, nextGame>>

(* The request fails (a timeout or a lost connection is transient) or is   *)
(* answered; the time of the answer is the database's and is committed.    *)
FetchFails(p) ==
    /\ pc[p] = "fetch"
    /\ \E code \in {1, 75} : exit' = [exit EXCEPT ![p] = code]
    /\ Goto(p, "failing")
    /\ UNCHANGED <<clock, slate, target, attempt, wake, early, current, pending, tx, store, nextGame>>

InWindow(ev, day, now) == Day(ev.start) = day /\ ev.start > now

(* record_ingestion_response: once, and only of a run that is running.     *)
RecordResponse(p) ==
    /\ runs[current[p]].status = "running" /\ runs[current[p]].observed = NoTime
    /\ runs' = [runs EXCEPT ![current[p]].observed = clock]

(* A refused answer (408, 425, 429 and 5xx are transient) leaves its time, *)
(* as one that cannot be parsed does; an accepted one leaves the events    *)
(* that pass _should_process_event.                                        *)
Fetch(p) ==
    /\ pc[p] = "fetch"
    /\ RecordResponse(p)
    /\ \/ /\ \E code \in {1, 75} : exit' = [exit EXCEPT ![p] = code]
          /\ Goto(p, "failing") /\ UNCHANGED pending
       \/ \E listed \in {l \in SUBSET Offers :
                          /\ Cardinality(l) <= MaxEvents
                          /\ \A a, b \in l : a.ext = b.ext => a = b} :
            /\ pending' = [pending EXCEPT ![p] = {ev \in listed : InWindow(ev, target[p], clock)}]
            /\ Goto(p, "saving") /\ UNCHANGED exit
    /\ UNCHANGED <<clock, slate, target, attempt, wake, early, current, tx, games, sources, identities,
                   quotes, nextGame>>

(* What a statement of p's transaction sees.                               *)
Overlay(committed, own) ==
    [g \in DOMAIN committed \cup DOMAIN own |->
        IF g \in DOMAIN own THEN own[g] ELSE committed[g]]
VisibleGames(p) == Overlay(games, tx[p].games)
(* INSERT ... ON CONFLICT DO NOTHING: the row that is there stays.         *)
Linked(present, added) ==
    present \cup {l \in added : MappedTo(present, l.source, l.ext) = {}}
VisibleSources(p) == Linked(sources, tx[p].links)
VisibleBooks(p) == identities \cup tx[p].books

Abort(p) ==
    /\ tx' = [tx EXCEPT ![p] = NoTx]
    /\ pending' = [pending EXCEPT ![p] = {}]

(* A quote, with the provider's event as the response showed it.           *)
Selection(p, ev, g, b) ==
    [run |-> current[p], ext |-> ev.ext, orient |-> ev.orient, start |-> ev.start,
     game |-> g, key |-> ev.key, book |-> b]

(* One event: its game, its observation, its bookmaker and its quotes.  A  *)
(* conflict of identity rolls the whole ingestion back.                    *)
SaveEvent(p) ==
    /\ pc[p] = "saving"
    /\ \E ev \in pending[p] :
         LET game == Resolve(VisibleGames(p), VisibleSources(p), Odds, ev, nextGame)
             book == ResolveBook(VisibleBooks(p), ev.key, ev.title)
             g == CHOOSE x \in game : TRUE
             b == CHOOSE x \in book : TRUE
             own == tx[p]
         IN  IF game = {} \/ book = {}
             THEN /\ Abort(p) /\ Goto(p, "failing")
                  /\ exit' = [exit EXCEPT ![p] = 1]
                  /\ UNCHANGED nextGame
             ELSE /\ nextGame' = IF g = nextGame THEN nextGame + 1 ELSE nextGame
                  /\ tx' = [tx EXCEPT ![p] =
                       [games |-> IF g = nextGame THEN UpdateCanonicalGame(own.games, g, ev)
                                  ELSE own.games,
                        links |-> own.links \cup {[source |-> Odds, ext |-> ev.ext, game |-> g]},
                        books |-> own.books \cup {[key |-> ev.key, book |-> b]},
                        quotes |-> own.quotes \cup
                            {Selection(p, ev, g, b)}]]
                  /\ pending' = [pending EXCEPT ![p] = @ \ {ev}]
                  /\ UNCHANGED <<pc, exit>>
    /\ UNCHANGED <<clock, slate, target, attempt, wake, early, current, store>>

(* Mutant: the identity is not read again after the insert. *)
BooksAgreeUnread(p) == TRUE

(* An identity another transaction committed first is read again and must  *)
(* name the same sportsbook; a mapping of a game is not read again.        *)
BooksAgree(p) ==
    \A own \in tx[p].books, i \in identities : own.key = i.key <=> own.book = i.book

(* The commit applies the transaction and completes the run at once.  Its  *)
(* acknowledgement may be lost: the process then believes it failed.       *)
Commit(p) ==
    /\ pc[p] = "saving" /\ pending[p] = {} /\ BooksAgree(p)
    /\ games' = Overlay(games, tx[p].games)
    /\ sources' = Linked(sources, tx[p].links)
    /\ identities' = identities \cup tx[p].books
    /\ quotes' = quotes \cup tx[p].quotes
    /\ runs' = [runs EXCEPT ![current[p]].status = "completed"]
    /\ Abort(p)
    /\ \/ Exit(p, 0)
       \/ exit' = [exit EXCEPT ![p] = 1] /\ Goto(p, "failing")
    /\ UNCHANGED <<clock, slate, target, attempt, wake, early, current, nextGame>>

(* Any other failure of the transaction: a deadlock, a lost connection, an *)
(* identity that disagrees.  None of them is transient for the exit code.  *)
SaveFails(p) ==
    /\ pc[p] = "saving"
    /\ Abort(p) /\ Goto(p, "failing")
    /\ exit' = [exit EXCEPT ![p] = 1]
    /\ UNCHANGED <<clock, slate, target, attempt, wake, early, current, store, nextGame>>

(* Mutant: an update that fails is logged, and the first error stands. *)
MarkFailedLogged(p) ==
    /\ pc[p] = "failing"
    /\ \/ /\ runs[current[p]].status = "running"
          /\ runs' = [runs EXCEPT ![current[p]].status = "failed"]
          /\ UNCHANGED exit
       \/ UNCHANGED <<exit, runs>>
    /\ Goto(p, "exited")
    /\ UNCHANGED <<clock, slate, target, attempt, wake, early, current, pending, tx, games, sources,
                   identities, quotes, nextGame>>

(* mark_ingestion_run_failed after the rollback, in a commit of its own; a *)
(* trigger keeps a run that is completed as it is.  When the update fails  *)
(* its error replaces the first one, and the exit code is 1.               *)
MarkFailed(p) ==
    /\ pc[p] = "failing"
    /\ \/ /\ runs[current[p]].status = "running"
          /\ runs' = [runs EXCEPT ![current[p]].status = "failed"]
          /\ UNCHANGED exit
       \/ exit' = [exit EXCEPT ![p] = 1] /\ UNCHANGED runs
    /\ Goto(p, "exited")
    /\ UNCHANGED <<clock, slate, target, attempt, wake, early, current, pending, tx, games, sources,
                   identities, quotes, nextGame>>

(* The process dies: its transaction is rolled back and its run is left.   *)
Crash(p) ==
    /\ pc[p] \in {"create", "fetch", "saving", "failing"}
    /\ Abort(p) /\ Exit(p, 1)
    /\ UNCHANGED <<clock, slate, target, attempt, wake, early, current, store, nextGame>>

(***************************************************************************)
(* One date of the schedule (ingest/mlb_schedule.py).                      *)
(***************************************************************************)
FetchSchedule(p) ==
    /\ pc[p] = "idle"
    /\ \E listed \in {l \in SUBSET Listings :
                       /\ Cardinality(l) <= MaxEvents
                       /\ \A a, b \in l : a.ext = b.ext => a = b} :
         pending' = [pending EXCEPT ![p] = listed]
    /\ Goto(p, "syncing")
    /\ UNCHANGED <<clock, tasks, current, tx, store, nextGame>>

SyncGame(p) ==
    /\ pc[p] = "syncing"
    /\ \E ev \in pending[p] :
         LET game == Resolve(VisibleGames(p), VisibleSources(p), Mlb, ev, nextGame)
             g == CHOOSE x \in game : TRUE
         IN  IF game = {}
             THEN Abort(p) /\ Goto(p, "failed") /\ UNCHANGED nextGame
             ELSE /\ nextGame' = IF g = nextGame THEN nextGame + 1 ELSE nextGame
                  /\ tx' = [tx EXCEPT
                       ![p].games = UpdateCanonicalGame(@, g, ev),
                       ![p].links = @ \cup {[source |-> Mlb, ext |-> ev.ext, game |-> g]}]
                  /\ pending' = [pending EXCEPT ![p] = @ \ {ev}]
                  /\ UNCHANGED pc
    /\ UNCHANGED <<clock, tasks, current, store>>

(* The index of game_sources: one game has one id of a source that is not  *)
(* the provider of odds.                                                   *)
OneIdPerGame(rows) ==
    \A a, b \in rows : (a.source = Mlb /\ b.source = Mlb /\ a.game = b.game) => a = b

CommitSchedule(p) ==
    /\ pc[p] = "syncing" /\ pending[p] = {}
    /\ OneIdPerGame(Linked(sources, tx[p].links))
    /\ games' = Overlay(games, tx[p].games)
    /\ sources' = Linked(sources, tx[p].links)
    /\ Abort(p) /\ Goto(p, "done")
    /\ UNCHANGED <<clock, tasks, current, runs, identities, quotes, nextGame>>

SyncFails(p) ==
    /\ pc[p] = "syncing"
    /\ Abort(p) /\ Goto(p, "failed")
    /\ UNCHANGED <<clock, tasks, current, store, nextGame>>

(***************************************************************************)
(* The whole system.                                                       *)
(***************************************************************************)
Ingest(p) ==
    \/ CreateRun(p) \/ FetchFails(p) \/ Fetch(p) \/ SaveEvent(p) \/ Commit(p) \/ SaveFails(p)
    \/ MarkFailed(p)

TaskStep(p) ==
    \/ GuardTask(p) \/ StartPregame(p) \/ ResolveTarget(p) \/ Preflight(p) \/ DatabaseReady(p)
    \/ DatabaseRefused(p) \/ DatabaseTimesOut(p) \/ RunPregame(p) \/ AttemptEnds(p) \/ WakeUp(p)
    \/ CaptureEarlyEntry(p) \/ Ingest(p)

ManualStep(p) == StartManual(p) \/ ManualEnds(p) \/ Ingest(p)

SyncStep(p) == FetchSchedule(p) \/ SyncGame(p) \/ CommitSchedule(p) \/ SyncFails(p)

Next ==
    \/ Tick
    \/ \E p \in Tasks : TaskStep(p)
    \/ \E p \in Manuals : ManualStep(p)
    \/ \E p \in Syncs : SyncStep(p)
    \/ \E p \in Ingestions : Crash(p)

(* Time passes, and a task that can go on does: every wait of the scripts  *)
(* and of the ingestion has a timeout.  Nothing is asked of the others.    *)
Fairness == WF_vars(Tick) /\ \A p \in Tasks : WF_vars(TaskStep(p))

Spec == Init /\ [][Next]_vars /\ Fairness

(***************************************************************************)
(* Properties.                                                             *)
(***************************************************************************)
(* Of one slate there is one snapshot of a role: retries, an operator's    *)
(* own capture, a crash or a commit whose acknowledgement is lost never    *)
(* leave the quotes of two runs.                                           *)
SingleSnapshot ==
    /\ \A q \in quotes : runs[q.run].status = "completed"
    /\ \A q, r \in quotes :
          (/\ runs[q.run].role = runs[r.run].role /\ runs[q.run].role # "manual"
           /\ runs[q.run].target = runs[r.run].target) => q.run = r.run

(* What a task captures belongs to the slate its window was opened for,    *)
(* even when midnight falls between its guard and its resolver, and every  *)
(* quote is of a game of that slate not yet begun when it was observed.    *)
OwnSlate ==
    /\ \A r \in DOMAIN runs : runs[r].by \in Tasks => runs[r].target = slate[runs[r].by]
    /\ \A q \in quotes : /\ Day(q.start) = runs[q.run].target
                         /\ runs[q.run].observed # NoTime
                         /\ runs[q.run].observed < q.start

(* Early Entry evaluates the odds its own task has captured for its slate, *)
(* not a run another process left, and never after a task that failed.     *)
EarlyEntryOfOwnSnapshot ==
    \A p \in Tasks :
        /\ pc[p] = "captured" <=> early[p] # 0
        /\ early[p] # 0 => /\ runs[early[p]].by = p
                           /\ runs[early[p]].target = slate[p]
                           /\ runs[early[p]].status = "completed"

(* A quote's home and away are those of the game it is stored under, also  *)
(* after later synchronizations have rewritten the game.                   *)
OrientationKept == \A q \in quotes : q.game \in DOMAIN games => games[q.game].orient = q.orient

(* Every quote is stored under the sportsbook its provider key has, and no *)
(* two keys share a sportsbook, whichever captures raced for the key.      *)
BooksKept ==
    /\ \A q \in quotes : \A i \in identities : i.key = q.key => i.book = q.book
    /\ \A i, j \in identities : i.key = j.key <=> i.book = j.book

(* A task tries again only when nothing it did before is left: no quotes,  *)
(* and no run that holds its slate's place.                                *)
RetriesRepeatNothing ==
    [][\A p \in Tasks : attempt'[p] # attempt[p] =>
          \A r \in DOMAIN runs : runs[r].by = p => runs[r].status = "failed"]_vars

(* A task ends: it succeeds, or gives up at its deadline or its last       *)
(* attempt.                                                                *)
TasksEnd == \A p \in Tasks : <>(pc[p] \in {"done", "failed", "captured"})
=============================================================================
