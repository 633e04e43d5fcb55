--------------------------- MODULE MlbPrediction ---------------------------
(***************************************************************************)
(* An official prediction run (predictions/moneyline_service.py): the      *)
(* model package is loaded, the run is created, the slate is fetched and   *)
(* its games synchronized, its probable starters are resolved, the history *)
(* is checked, and every game is predicted; the predictions and the end of *)
(* the run are one commit.                                                 *)
(***************************************************************************)
EXTENDS MlbFeatures

CONSTANTS
    Predictors,     \* official prediction runs
    SlateDate,      \* the date they predict
    SlatesOf(_)     \* date -> the schedules with probable starters: Seq(event)

ASSUME PredictionAssumption ==
    /\ Predictors \subseteq Syncers
    /\ \A slate \in SlatesOf(SlateDate) :
          IsSeq(slate) /\ \A n \in DOMAIN slate : slate[n].start \in Int

NoBuild == 0
VARIABLES
    package,        \* the files of the model: [model, manifest, evaluation]
    predictions,    \* committed: [run, game, orient, start, time, drawn, checksum, build]
    predicting      \* [at, time, checksum, build, slate, required, rows, status]

predictionVars == <<predictions, predicting>>
NotPredicting == [at |-> "idle", time |-> 0, checksum |-> NoBuild, build |-> NoBuild,
                  slate |-> <<>>, required |-> {}, rows |-> {}, status |-> "none"]

PredictionInit ==
    /\ package = [model |-> 1, manifest |-> [model |-> 1, evaluation |-> 1], evaluation |-> 1]
    /\ predictions = {}
    /\ predicting = [p \in Predictors |-> NotPredicting]

SetPredicting(p, changes) ==
    predicting' = [predicting EXCEPT
        ![p] = [f \in DOMAIN @ |-> IF f \in DOMAIN changes THEN changes[f] ELSE @[f]]]

(***************************************************************************)
(* load_moneyline_model_package: the manifest, the checksum of the model,  *)
(* and only then the model.                                                *)
(***************************************************************************)
(* Mutant: the checksum of the model file is not compared. *)
UncheckedPackage == package.manifest.model # NoBuild /\ package.model # NoBuild

PackageIsSound ==
    /\ package.manifest.model # NoBuild
    /\ package.model = package.manifest.model

ReadManifest(p) ==
    /\ predicting[p].at = "idle"
    /\ IF PackageIsSound
       THEN SetPredicting(p, [at |-> "model", time |-> clock, checksum |-> package.manifest.model])
       ELSE SetPredicting(p, [at |-> "done", status |-> "refused"])

(* The file is read again, the run is created and committed. *)
CreateRun(p) ==
    /\ predicting[p].at = "model"
    /\ IF package.model = NoBuild
       THEN SetPredicting(p, [at |-> "done", status |-> "refused"])
       ELSE SetPredicting(p, [at |-> "fetch", build |-> package.model, status |-> "running"])

(***************************************************************************)
(* The slate.                                                              *)
(***************************************************************************)
FetchSlate(p) ==
    /\ predicting[p].at = "fetch"
    /\ \E slate \in SlatesOf(SlateDate) : SetPredicting(p, [at |-> "sync", slate |-> slate])

(* One transaction: each game is resolved and takes the time of the        *)
(* schedule; a game of which two ids of the league are made fails it.      *)
SyncGame(tx, e) ==
    LET found == Resolve(tx.games, tx.sources, Mlb, e, Fresh(tx.games))
        g == CHOOSE x \in found : TRUE
    IN  IF ~tx.ok \/ found = {} THEN [tx EXCEPT !.ok = FALSE]
        ELSE [ok |-> \A s \in tx.sources : s.game = g /\ s.source = Mlb => s.ext = e.ext,
              touched |-> tx.touched \cup {g},
              games |-> UpdateCanonicalGame(tx.games, g, e),
              sources |-> tx.sources \cup {[source |-> Mlb, ext |-> e.ext, game |-> g]}]

SlateTransaction(p) ==
    FoldLeft(SyncGame, [ok |-> TRUE, touched |-> {}, games |-> games, sources |-> sources],
             predicting[p].slate)

Predicted(p) == {e \in {predicting[p].slate[n] : n \in DOMAIN predicting[p].slate} :
                    e.start > predicting[p].time}
Probable(p) == UNION {{x \in {e.probable[1], e.probable[2]} : x # NoStarter} : e \in Predicted(p)}

(* Games that have begun are skipped; of the others, the probable starters *)
(* that are not known are synchronized.                                    *)
SyncSlate(p) ==
    /\ predicting[p].at = "sync"
    /\ LET tx == SlateTransaction(p)
       IN  /\ tx.ok /\ tx.touched \cap locked = {}
           /\ games' = tx.games /\ sources' = tx.sources
    /\ toSync' = [toSync EXCEPT ![p] = Probable(p) \ Known(Probable(p))]
    /\ SetPredicting(p, [at |-> "players"])
    /\ UNCHANGED <<results, teamStats, pitching, players, playerIds, unlinked>>

SyncStarter(p) ==
    /\ predicting[p].at = "players" /\ SyncPlayer(p)
    /\ UNCHANGED <<historyVars, predicting>>

StarterId(x) == IF x = NoStarter THEN NoStarter ELSE playerIds[x]

(* The history is checked as of the time of the prediction, whatever time  *)
(* it is now.                                                              *)
CheckHistory(p) ==
    /\ predicting[p].at = "players" /\ PlayersSynced(p)
    /\ Probable(p) \subseteq DOMAIN playerIds
    /\ LET targets == {e.ext : e \in Predicted(p)}
           starters == {playerIds[x] : x \in Probable(p)}
       IN  /\ HistoryComplete(targets, starters, predicting[p].time)
           /\ SetPredicting(p, [at |-> "predict",
                  required |-> RequiredGames(TargetTeams(targets), {}, predicting[p].time)])

(***************************************************************************)
(* The predictions.                                                        *)
(***************************************************************************)
(* The canonical game is read again, and its features as of the time of    *)
(* the prediction.                                                         *)
PredictGame(p) ==
    /\ predicting[p].at = "predict"
    /\ \E e \in Predicted(p) :
          LET g == CHOOSE x \in MappedTo(sources, Mlb, e.ext) : TRUE
              starters == <<StarterId(e.probable[1]), StarterId(e.probable[2])>>
          IN  /\ \A r \in predicting[p].rows : r.ext # e.ext
              /\ MappedTo(sources, Mlb, e.ext) # {}
              /\ ValidContext(games[g].start, predicting[p].time)
              /\ SetPredicting(p, [rows |-> predicting[p].rows \cup
                    {[ext |-> e.ext, game |-> g, orient |-> games[g].orient,
                      start |-> games[g].start, time |-> predicting[p].time,
                      drawn |-> FeatureVector(games[g].orient, games[g].start,
                                              predicting[p].time, starters).drawn]}])

CompleteRun(p) ==
    /\ predicting[p].at = "predict"
    /\ {r.ext : r \in predicting[p].rows} = {e.ext : e \in Predicted(p)}
    /\ predictions' = predictions \cup
          {[run |-> p, game |-> r.game, orient |-> r.orient, start |-> r.start, time |-> r.time,
            drawn |-> r.drawn,
            checksum |-> predicting[p].checksum, build |-> predicting[p].build] :
              r \in predicting[p].rows}
    /\ SetPredicting(p, [at |-> "done", rows |-> {}, required |-> {}, slate |-> <<>>,
                         status |-> "completed"])

(* Any exception, at any step: what was not committed is rolled back and   *)
(* the run is marked failed; or the process dies and it stays running.     *)
RunFails(p) ==
    /\ predicting[p].at \notin {"idle", "model", "done"}
    /\ \E status \in {"failed", "running"} :
          predicting' = [predicting EXCEPT ![p] =
              [NotPredicting EXCEPT !.at = "done", !.time = predicting[p].time, !.status = status]]
    /\ ForgetPlayers(p)

PredictorStep(p) ==
    \/ /\ ReadManifest(p) \/ CreateRun(p) \/ FetchSlate(p) \/ CheckHistory(p) \/ PredictGame(p)
       /\ UNCHANGED <<historyVars, playerVars, predictions>>
    \/ SyncSlate(p) /\ UNCHANGED predictions
    \/ SyncStarter(p) /\ UNCHANGED predictions
    \/ CompleteRun(p) /\ UNCHANGED <<historyVars, playerVars>>
    \/ RunFails(p) /\ UNCHANGED <<historyVars, predictions>>
=============================================================================
