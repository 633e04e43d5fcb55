----------------------------- MODULE MlbHistory -----------------------------
(***************************************************************************)
(* The history of the season and what is made of it: backfills of results, *)
(* guarded recoveries, roster synchronizations, official prediction runs   *)
(* and the building of models run as separate processes on one database    *)
(* and one directory of model files.                                       *)
(***************************************************************************)
EXTENDS MlbRecovery, MlbTraining

CONSTANTS
    FirstTick, Horizon, \* the clock runs from one to the other
    Crews               \* the sets of processes that may run together

(* Days follow each other, and what is stored was stored by today: the     *)
(* index leaves a player one current assignment.                           *)
ASSUME CalendarAssumption ==
    /\ FirstTick \in Nat \ {0} /\ Horizon \in Nat /\ FirstTick <= Horizon
    /\ \A t \in FirstTick .. Horizon : Today(t) \in Nat
    /\ \A t, u \in FirstTick .. Horizon : t <= u => Today(t) <= Today(u)
    /\ \A a \in StoredAssignments :
          /\ DOMAIN a = {"player", "team", "from", "through"}
          /\ a.from \in 0 .. Today(FirstTick) /\ a.through \in {NoDay} \cup (0 .. Today(FirstTick))
    /\ \A a, b \in StoredAssignments :
          a.player = b.player /\ a.through = NoDay /\ b.through = NoDay => a = b

VARIABLE crew

vars == <<clock, playerVars, rosterVars, resultsVars, locked, recovery,
          package, predictionVars, training, crew>>

Init ==
    /\ clock = FirstTick
    /\ RostersInit /\ ResultsInit /\ RecoveryInit /\ PredictionInit /\ TrainingInit
    /\ crew \in Crews

Roster(s) ==
    /\ RosterStep(s)
    /\ UNCHANGED <<clock, resultsVars, locked, recovery, package, predictionVars, training, crew>>

Ingest(i) ==
    /\ IngestStep(i)
    /\ UNCHANGED <<clock, rosterVars, recovery, package, predictionVars, training, crew>>

Recover(r) ==
    /\ RecoveryStep(r)
    /\ UNCHANGED <<clock, rosterVars, ingest, package, predictionVars, training, crew>>

Predict(p) ==
    /\ PredictorStep(p)
    /\ UNCHANGED <<clock, rosterVars, ingest, locked, recovery, package, training, crew>>

Train(t) ==
    /\ TrainerStep(t)
    /\ UNCHANGED <<clock, playerVars, rosterVars, resultsVars, locked, recovery, predictionVars, crew>>

Tick ==
    /\ clock < Horizon /\ clock' = clock + 1
    /\ UNCHANGED <<playerVars, rosterVars, resultsVars, locked, recovery, package,
                   predictionVars, training, crew>>

Next ==
    \/ \E s \in Rosters \cap crew : Roster(s)
    \/ \E i \in Ingesters \cap crew : Ingest(i)
    \/ \E r \in Recoveries \cap crew : Recover(r)
    \/ \E p \in Predictors \cap crew : Predict(p)
    \/ \E t \in Trainers \cap crew : Train(t)
    \/ Tick

Spec == Init /\ [][Next]_vars

(***************************************************************************)
(* Properties.                                                             *)
(***************************************************************************)
(* A player has one current team, and no day belongs to two of his         *)
(* assignments, where the last day of one may be the first of the next:    *)
(* except the days between two synchronizations of which the one with the  *)
(* later date took it while the other was under way, since one has read    *)
(* what the other then closes.                                             *)
OnDay(a, day) == a.from <= day /\ (a.through = NoDay \/ day < a.through)

Overtaken(day) ==
    \E s, t \in Rosters : /\ s \in snapshot[t].beside
                          /\ snapshot[s].day # NoDay
                          /\ snapshot[s].day <= day /\ day < snapshot[t].day

OneTeamAtATime ==
    \A a, b \in assignments : a.player = b.player /\ a # b =>
        /\ a.through # NoDay \/ b.through # NoDay
        /\ \A day \in Today(FirstTick) .. Today(Horizon) :
              OnDay(a, day) /\ OnDay(b, day) => Overtaken(day)

(* What a recovery writes it writes in one step: every game that was       *)
(* approved and final, each still with the identity that was approved and  *)
(* with nothing known of it, and no row of anybody else.  One that reports *)
(* it wrote nothing has written nothing.  Backfills and prediction runs    *)
(* move and fill the same games between the preview and the execution.     *)
WrittenGames(r) ==
    {results[x].game : x \in {y \in DOMAIN results : results[y].by = r}} \cup
    {t.game : t \in {u \in teamStats : u.by = r}}

GamesWithHistory ==
    {results[x].game : x \in DOMAIN results} \cup {t.game : t \in teamStats} \cup {p.game : p \in pitching}

RecoveryWrites(r) ==
    \/ \E x \in DOMAIN results' : results'[x].by = r /\ (x \in DOMAIN results => results[x] # results'[x])
    \/ \E t \in teamStats' \ teamStats : t.by = r
    \/ \E p \in pitching' \ pitching : p.by = r

GuardedRecovery ==
    [][\A r \in Recoveries :
         /\ RecoveryWrites(r) =>
               /\ Identities(AllowList[r]) = recovery[r].manifest.games
               /\ Targets(r) \cap GamesWithHistory = {}
               /\ WrittenGames(r)' = Targets(r)
               /\ teamStats \subseteq teamStats' /\ pitching \subseteq pitching'
               /\ \A x \in DOMAIN results : results'[x] = results[x]
         /\ recovery'[r].status \in {"rolled-back", "failed-before-write"} => WrittenGames(r)' = {}]_vars

(* A game is predicted, on each side, from every game the check of the     *)
(* history required of that team, or from as many newer ones; only a game  *)
(* whose time has been moved past the prediction since the check is        *)
(* excepted.  The check and the features are separate reads, and times,    *)
(* results and box scores arrive between them.                             *)
PredictedFromWholeHistory ==
    [][\A p \in Predictors : \A n \in predicting'[p].rows \ predicting[p].rows, side \in {1, 2} :
         \A g \in predicting[p].required :
             Plays(n.orient[side], g) /\ games[g].start < n.time =>
                 \/ g \in n.drawn[side]
                 \/ /\ Cardinality(n.drawn[side]) = TeamGameLimit
                    /\ \A h \in n.drawn[side] : Later(h, g)]_vars

(* Every row after the first window is tested exactly once; a model is     *)
(* tested, and tuned, on no row that starts before one it was fitted to,   *)
(* and is fitted to every row before its block; and what a row was made    *)
(* of had begun before the row's game, which itself is among it only if    *)
(* its rows were stored before the start it was listed with.  Rows are     *)
(* read one game at a time while results arrive and times move, and games  *)
(* may start at the same time.                                             *)
Chronological(r, s) == r.start < s.start \/ (r.start = s.start /\ r.game < s.game)
NotAfter(earlier, later) == \A r \in earlier, s \in later : r.start <= s.start /\ r.game # s.game

FoldsSeeThePast ==
    \A t \in Trainers :
        LET all == {training[t].rows[n] : n \in DOMAIN training[t].rows}
            folds == training[t].folds
        IN  /\ \A row \in all : \A d \in row.drawn :
                  /\ d[2] < row.start
                  /\ d[1] = row.game =>
                        \E s \in teamStats : s.game = row.game /\ s.created <= row.start
            /\ \A f \in folds :
                  /\ NotAfter(f.train, f.test)
                  /\ \A u \in f.tuning : /\ u.train \cup u.test \subseteq f.train
                                         /\ u.test # {} /\ NotAfter(u.train, u.test)
                  /\ \A row \in all : (\A s \in f.test : Chronological(row, s)) => row \in f.train
            /\ folds # {} =>
                  \A n \in InitialRows + 1 .. Len(training[t].rows) :
                      Cardinality({f \in folds : training[t].rows[n] \in f.test}) = 1

(* A run uses the model its manifest describes.  A build that died between *)
(* two of its files is never used: the only other model a run can have is  *)
(* one that was written while the run was loading.                         *)
PackageIsWhole ==
    \A p \in Predictors :
        predicting[p].build # NoBuild /\ predicting[p].build # predicting[p].checksum =>
            \E t \in Trainers : /\ BuildOf[t] = predicting[p].build
                                /\ training[t].saved >= predicting[p].time
=============================================================================
