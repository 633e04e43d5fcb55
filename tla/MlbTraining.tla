---------------------------- MODULE MlbTraining ----------------------------
(***************************************************************************)
(* The building of a model (features/datasets/moneyline_dataset.py,        *)
(* training/matchup_features.py, training/moneyline_baseline.py,           *)
(* training/moneyline_walk_forward.py, training/moneyline_candidate.py):   *)
(* the completed games become rows, the rows are evaluated by expanding    *)
(* chronological folds, and a model fitted on all of them is written, with *)
(* the report of the evaluation and a manifest, over the files of before.  *)
(* What a fit computes is left out; what it is given is not.               *)
(***************************************************************************)
EXTENDS MlbPrediction

CONSTANTS
    Trainers,
    BuildOf,        \* Trainers -> the content of the model each would fit
    InitialRows,    \* initial_training_rows
    BlockSize,      \* test_block_size
    TuningSplits    \* validation_splits

ASSUME TrainingAssumption ==
    {InitialRows, BlockSize, TuningSplits} \subseteq Nat \ {0} /\ TuningSplits > 1

VARIABLE training   \* [at, listed, rows, folds, report, saved]

NotTraining == [at |-> "idle", listed |-> <<>>, rows |-> <<>>, folds |-> {},
                report |-> NoBuild, saved |-> 0]

TrainingInit == training = [t \in Trainers |-> NotTraining]

SetTraining(t, changes) ==
    training' = [training EXCEPT
        ![t] = [f \in DOMAIN @ |-> IF f \in DOMAIN changes THEN changes[f] ELSE @[f]]]

(***************************************************************************)
(* The rows.                                                               *)
(***************************************************************************)
StarterOf(g, n) ==
    LET rows == {p \in pitching : p.game = g /\ p.order = 1 /\ p.team = games[g].orient[n]}
    IN  IF rows = {} THEN NoStarter ELSE (CHOOSE p \in rows : TRUE).player

(* GET_COMPLETED_GAMES_QUERY: the games that have a result, two team rows  *)
(* and two starters, by their starts and then by their ids.                *)
CompletedIds == {g \in {results[x].game : x \in DOMAIN results} : BoxScoreComplete(g)}

InOrder(ids) ==
    [n \in 1 .. Cardinality(ids) |->
        CHOOSE g \in ids : Cardinality({h \in ids : Later(g, h)}) = n - 1]

Completed(g) ==
    [game |-> g, orient |-> games[g].orient, start |-> games[g].start,
     score |-> results[CHOOSE x \in DOMAIN results : results[x].game = g].score,
     starters |-> <<StarterOf(g, 1), StarterOf(g, 2)>>]

CompletedGames == [n \in 1 .. Cardinality(CompletedIds) |-> Completed(InOrder(CompletedIds)[n])]

ListCompleted(t) ==
    /\ training[t].at = "idle"
    /\ SetTraining(t, [at |-> "rows", listed |-> CompletedGames])
    /\ UNCHANGED package

(* The matchup: home less away, missing when either is.                    *)
Difference(home, away) == IF Missing \in {home, away} THEN Missing ELSE home - away
MatchupFeatures(flat) == [name \in DOMAIN flat.home |-> Difference(flat.home[name], flat.away[name])]

(* The features of a game are read with the start it was listed with for a *)
(* cutoff, each game in a read of its own; a tie is no row.                *)
RowOf(c) ==
    LET vector == FeatureVector(c.orient, c.start, c.start, c.starters)
    IN  [game |-> c.game, start |-> c.start, won |-> c.score[1] > c.score[2],
         drawn |-> {<<g, games[g].start>> : g \in vector.drawn[1] \cup vector.drawn[2]},
         features |-> MatchupFeatures(Flatten(vector))]

AddRow(t) ==
    /\ training[t].at = "rows" /\ training[t].listed # <<>>
    /\ LET c == Head(training[t].listed)
       IN  SetTraining(t, [listed |-> Tail(training[t].listed),
               rows |-> IF c.score[1] = c.score[2] THEN training[t].rows
                        ELSE Append(training[t].rows, RowOf(c))])
    /\ UNCHANGED package

(***************************************************************************)
(* What a fit is given.                                                    *)
(***************************************************************************)
Names == <<"runs", "runsLast", "allowed", "allowedLast", "bullpen", "bullpenLast", "recent",
           "previous", "backToBack", "starter", "starterLast", "rest">>
Column(rows, name) == [n \in DOMAIN rows |-> rows[n].features[name]]

(* A feature that is never there, or always there and always the same, is  *)
(* dropped, and so is one that repeats an earlier one; the rows that are   *)
(* tested have no say.                                                     *)
Usable(rows, name) ==
    LET values == {Column(rows, name)[n] : n \in DOMAIN rows}
    IN  values # {Missing} /\ (Missing \in values \/ Cardinality(values) > 1)

ActiveFeatures(rows) ==
    {Names[n] : n \in {m \in DOMAIN Names :
        /\ Usable(rows, Names[m])
        /\ \A k \in 1 .. m - 1 : Usable(rows, Names[k]) => Column(rows, Names[k]) # Column(rows, Names[m])}}

Fits(rows) == ActiveFeatures(rows) # {} /\ {rows[n].won : n \in DOMAIN rows} = BOOLEAN

(***************************************************************************)
(* The folds: pairs of a number of rows to train on and of the last row to *)
(* test on.                                                                *)
(***************************************************************************)
Lesser(m, n) == IF m < n THEN m ELSE n

(* Mutant: a last block that is short is left out. *)
FullBlocksOnly(n) ==
    {<<InitialRows + k * BlockSize, InitialRows + (k + 1) * BlockSize>> :
        k \in {j \in 0 .. n : InitialRows + (j + 1) * BlockSize <= n}}

(* evaluate_moneyline_walk_forward: the last block may be short. *)
WalkForwardFolds(n) ==
    {<<InitialRows + k * BlockSize, Lesser(InitialRows + (k + 1) * BlockSize, n)>> :
        k \in {j \in 0 .. n : InitialRows + j * BlockSize < n}}

(* TimeSeriesSplit: as many equal blocks as there are splits, at the end.  *)
TuningFolds(n) ==
    LET size == n \div (TuningSplits + 1)
    IN  {<<n - (k + 1) * size, n - k * size>> : k \in 0 .. TuningSplits - 1}

Rows(rows, first, last) == {rows[n] : n \in first .. last}

(* chronological_train_test_split: what comes first, and the last block.   *)
Split(rows, f) == [train |-> Rows(rows, 1, f[1]), test |-> Rows(rows, f[1] + 1, f[2])]

(* The rows each fold was tuned, fitted and tested on.                     *)
Evaluation(rows) ==
    {[train |-> Split(rows, f).train, test |-> Split(rows, f).test,
      tuning |-> {Split(rows, u) : u \in TuningFolds(f[1])}] : f \in WalkForwardFolds(Len(rows))}

(* Every window can be split, tuned and fitted.                            *)
CanEvaluate(rows) ==
    /\ Len(rows) > InitialRows
    /\ \A f \in WalkForwardFolds(Len(rows)) :
          /\ f[2] >= 4 /\ f[1] > TuningSplits /\ Fits(SubSeq(rows, 1, f[1]))
          /\ \A u \in TuningFolds(f[1]) : Fits(SubSeq(rows, 1, u[1]))

Evaluate(t) ==
    /\ training[t].at = "rows" /\ training[t].listed = <<>>
    /\ IF CanEvaluate(training[t].rows)
       THEN SetTraining(t, [at |-> "fit", folds |-> Evaluation(training[t].rows), report |-> BuildOf[t]])
       ELSE SetTraining(t, [at |-> "done"])
    /\ UNCHANGED package

(***************************************************************************)
(* The files, each written in place.                                       *)
(***************************************************************************)
BeginModel(t) ==
    /\ training[t].at = "fit" /\ Fits(training[t].rows)
    /\ package' = [package EXCEPT !.model = NoBuild]
    /\ SetTraining(t, [at |-> "model"])

SaveModel(t) ==
    /\ training[t].at = "model"
    /\ package' = [package EXCEPT !.model = BuildOf[t]]
    /\ SetTraining(t, [at |-> "evaluation", saved |-> clock])

CopyEvaluation(t) ==
    /\ training[t].at = "evaluation"
    /\ package' = [package EXCEPT !.evaluation = training[t].report]
    /\ SetTraining(t, [at |-> "reload"])

(* What was written is loaded again, and must predict what was fitted;     *)
(* then the manifest is opened for writing.                                *)
BeginManifest(t) ==
    /\ training[t].at = "reload" /\ package.model = BuildOf[t]
    /\ package' = [package EXCEPT !.manifest = [model |-> NoBuild, evaluation |-> NoBuild]]
    /\ SetTraining(t, [at |-> "manifest"])

WriteManifest(t) ==
    /\ training[t].at = "manifest"
    /\ package' = [package EXCEPT !.manifest = [model |-> package.model, evaluation |-> package.evaluation]]
    /\ SetTraining(t, [at |-> "done"])

(* A command that raises, or dies, at any step.                            *)
TrainerDies(t) ==
    /\ training[t].at \notin {"idle", "done"}
    /\ SetTraining(t, [at |-> "done", listed |-> <<>>])
    /\ UNCHANGED package

TrainerStep(t) ==
    \/ ListCompleted(t) \/ AddRow(t) \/ Evaluate(t) \/ BeginModel(t) \/ SaveModel(t)
    \/ CopyEvaluation(t) \/ BeginManifest(t) \/ WriteManifest(t) \/ TrainerDies(t)
=============================================================================
