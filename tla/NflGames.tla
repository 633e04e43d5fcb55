------------------------------ MODULE NflGames ------------------------------
(***************************************************************************)
(* The canonical NFL games and the two commands that write them: the       *)
(* import of a future schedule (nfl/future_schedule.py) and the backfill   *)
(* of played seasons (nfl/historical_backfill*.py).  Both read a published *)
(* file, decide from it and from the database whether they may persist,    *)
(* and later write through the same ingestion (nfl/game_persistence.py and *)
(* nfl/team_statistics_persistence.py), which upserts without looking at   *)
(* what was decided.                                                       *)
(*                                                                         *)
(* A row of a file is [ext, season, type, week, home, away, kickoff,       *)
(* score]; "score" is <<home, away>>, or <<>> while the game is unplayed.  *)
(* A row of statistics is [ext, season, type, week, team, opponent, lost]; *)
(* "lost" stands for all its counts.  The identity of a game at the        *)
(* provider is immutable, so "ext" also stands for the canonical id.       *)
(***************************************************************************)
EXTENDS Integers, FiniteSets

CONSTANTS
    Importers,      \* invocations of the two commands
    CommandOf,      \* importer -> "future" or "backfill"
    Schedules,      \* editions of the schedule: sets of rows
    Statistics,     \* editions of the team statistics: sets of rows
    Stored,         \* the games that may be there at the start: rows
    StoredStats,    \* and their statistics
    ForwardSeason,  \* the season that is predicted (2026)
    FirstTick

(* What a file has, or the database starts with: finitely many games.      *)
ASSUME GamesAssumption ==
    /\ FirstTick \in Int
    /\ \A rows \in Schedules \cup {Stored} : IsFiniteSet(rows)
    /\ \A r \in Stored \cup UNION Schedules :
          r.kickoff \in Int /\ r.ext \in Int /\ r.season \in Int

VARIABLES
    clock,          \* now, in ticks
    games,          \* nfl_games with games and game_sources, by id
    stats,          \* nfl_team_game_statistics
    importing,      \* where each importer is
    plan,           \* what it has decided to write: [rows, stats]
    imports         \* the statuses of its ingestion runs: [games, stats]

importVars == <<games, stats, importing, plan, imports>>

Final(row) == row.score # <<>>
Identity(row) == <<row.season, row.type, row.week, row.home, row.away>>
Upsert(db, rows) ==
    [g \in DOMAIN db \cup {r.ext : r \in rows} |->
        IF \E r \in rows : r.ext = g THEN CHOOSE r \in rows : r.ext = g ELSE db[g]]

NoPlan == [rows |-> {}, stats |-> {}]
NoImport == [games |-> "none", stats |-> "none"]

StoredSince(season) ==
    [g \in {r.ext : r \in {x \in Stored : x.season >= season}} |->
        CHOOSE r \in Stored : r.ext = g]

(* The database starts with the games of some seasons.                     *)
GamesInit(season) ==
    /\ clock = FirstTick
    /\ games = StoredSince(season)
    /\ stats = {s \in StoredStats : s.season >= season}
    /\ importing = [i \in Importers |-> "idle"]
    /\ plan = [i \in Importers |-> NoPlan]
    /\ imports = [i \in Importers |-> NoImport]

ImportGoto(i, label) == importing' = [importing EXCEPT ![i] = label]

(***************************************************************************)
(* The plan of a future schedule: the regular games of one season, against *)
(* what the database shows while it is read.                               *)
(***************************************************************************)
FutureRows(edition) == {r \in edition : r.season = ForwardSeason /\ r.type = "REG"}

(* A game that is there keeps its teams and its week, and is not touched   *)
(* once it is final.                                                       *)
SourceMismatch(db, r) ==
    r.ext \in DOMAIN db /\ (Identity(db[r.ext]) # Identity(r) \/ Final(db[r.ext]))

StoredUnderAnotherId(db, r) ==
    r.ext \notin DOMAIN db /\ \E g \in DOMAIN db : Identity(db[g]) = Identity(r)

FuturePlanReady(db, rows) ==
    /\ rows # {}
    /\ \A r, s \in rows : (r.ext = s.ext \/ Identity(r) = Identity(s)) => r = s
    /\ \A r \in rows : ~Final(r) /\ ~SourceMismatch(db, r) /\ ~StoredUnderAnotherId(db, r)

FutureWrites(db, rows) ==
    {r \in rows : r.ext \notin DOMAIN db \/ db[r.ext].kickoff # r.kickoff}

(* A file holds the result of a game only once it has been played.         *)
Published == {edition \in Schedules : \A r \in edition : Final(r) => r.kickoff < clock}

PlanFuture(i) ==
    /\ importing[i] = "idle" /\ CommandOf[i] = "future"
    /\ \E edition \in Published :
          LET rows == FutureRows(edition)
          IN  IF FuturePlanReady(games, rows)
              THEN /\ plan' = [plan EXCEPT ![i].rows = FutureWrites(games, rows)]
                   /\ ImportGoto(i, IF FutureWrites(games, rows) = {} THEN "done" ELSE "start")
              ELSE ImportGoto(i, "refused") /\ UNCHANGED plan
    /\ UNCHANGED <<clock, games, stats, imports>>

(***************************************************************************)
(* The plan of a backfill: the files against each other, without the       *)
(* database.                                                               *)
(***************************************************************************)
SameGame(s, r) ==
    /\ s.ext = r.ext /\ s.season = r.season /\ s.type = r.type /\ s.week = r.week
    /\ {s.team, s.opponent} = {r.home, r.away}

(* A final game has one row of statistics of each team, any other game     *)
(* has none.                                                               *)
Reconciled(rows, st) ==
    /\ \A s \in st : \E r \in rows : Final(r) /\ SameGame(s, r)
    /\ \A r \in rows : Final(r) =>
          /\ \A team \in {r.home, r.away} : \E s \in st : s.ext = r.ext /\ s.team = team
          /\ Cardinality({s \in st : s.ext = r.ext}) = 2

BackfillPlanReady(rows, st) ==
    /\ \A r, s \in rows : r.ext = s.ext => r = s
    /\ Reconciled(rows, st)

PlanBackfill(i) ==
    /\ importing[i] = "idle" /\ CommandOf[i] = "backfill"
    /\ \E edition \in Published, st \in Statistics :
          IF BackfillPlanReady(edition, st)
          THEN /\ plan' = [plan EXCEPT ![i] = [rows |-> edition, stats |-> st]]
               /\ ImportGoto(i, "start")
          ELSE ImportGoto(i, "refused") /\ UNCHANGED plan
    /\ UNCHANGED <<clock, games, stats, imports>>

(***************************************************************************)
(* The ingestion: a run committed first, then every row and the end of the *)
(* run in one transaction.                                                 *)
(***************************************************************************)
StartGames(i) ==
    /\ importing[i] = "start"
    /\ imports' = [imports EXCEPT ![i].games = "running"]
    /\ ImportGoto(i, "games")
    /\ UNCHANGED <<clock, games, stats, plan>>

(* persist_nfl_game refuses other teams, and nothing else.                 *)
Persistable(db, rows) ==
    \A r \in rows : r.ext \in DOMAIN db =>
        db[r.ext].home = r.home /\ db[r.ext].away = r.away

WriteGames(i) ==
    /\ importing[i] = "games" /\ Persistable(games, plan[i].rows)
    /\ games' = Upsert(games, plan[i].rows)
    /\ imports' = [imports EXCEPT ![i].games = "completed"]
    /\ ImportGoto(i, IF CommandOf[i] = "backfill" THEN "start_stats" ELSE "done")
    /\ UNCHANGED <<clock, stats, plan>>

StartStatistics(i) ==
    /\ importing[i] = "start_stats"
    /\ imports' = [imports EXCEPT ![i].stats = "running"]
    /\ ImportGoto(i, "stats")
    /\ UNCHANGED <<clock, games, stats, plan>>

(* resolve_statistics_game: the one game of that week between those teams, *)
(* which must also be the one the provider's id names.                     *)
GamesOf(db, s) ==
    {g \in DOMAIN db : /\ db[g].season = s.season /\ db[g].type = s.type /\ db[g].week = s.week
                       /\ {db[g].home, db[g].away} = {s.team, s.opponent}}

WriteStatistics(i) ==
    /\ importing[i] = "stats"
    /\ \A s \in plan[i].stats : GamesOf(games, s) = {s.ext}
    /\ stats' = {s \in stats : \A n \in plan[i].stats : n.ext # s.ext \/ n.team # s.team}
                \cup plan[i].stats
    /\ imports' = [imports EXCEPT ![i].stats = "completed"]
    /\ ImportGoto(i, "audit")
    /\ UNCHANGED <<clock, games, plan>>

(* A row that is refused, or any other error, rolls everything back and    *)
(* marks the run failed; when that fails too the run stays running.        *)
IngestionFails(i) ==
    /\ importing[i] \in {"games", "stats"}
    /\ \E status \in {"failed", "running"} :
          imports' = IF importing[i] = "games" THEN [imports EXCEPT ![i].games = status]
                     ELSE [imports EXCEPT ![i].stats = status]
    /\ ImportGoto(i, "failed")
    /\ UNCHANGED <<clock, games, stats, plan>>

(* The audit of a backfill counts what is stored for its seasons.          *)
InScope(db, rows) == {g \in DOMAIN db : \E r \in rows : r.season = db[g].season}

StatsOf(st, g) == {s \in st : s.ext = g}

AuditReady(db, st, i) ==
    LET scope == InScope(db, plan[i].rows)
    IN  /\ Cardinality(scope) = Cardinality(plan[i].rows)
        /\ \A g \in scope : Cardinality(StatsOf(st, g)) = 2
        /\ \A s \in st : s.ext \in scope => s.team \in {db[s.ext].home, db[s.ext].away}
        /\ imports[i] = [games |-> "completed", stats |-> "completed"]

Audit(i) ==
    /\ importing[i] = "audit"
    /\ ImportGoto(i, IF AuditReady(games, stats, i) THEN "audited" ELSE "not_ready")
    /\ UNCHANGED <<clock, games, stats, plan, imports>>

ImportStep(i) ==
    \/ PlanFuture(i) \/ PlanBackfill(i) \/ StartGames(i) \/ WriteGames(i) \/ StartStatistics(i)
    \/ WriteStatistics(i) \/ IngestionFails(i) \/ Audit(i)
=============================================================================
