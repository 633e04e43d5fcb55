----------------------------- MODULE NflResearch -----------------------------
(***************************************************************************)
(* The commands that evaluate, freeze and replay the NFL models            *)
(* (scripts/*nfl_moneyline*.py, nfl/moneyline_holdout.py,                  *)
(* nfl/moneyline_frozen.py, nfl/early_moneyline_frozen.py,                 *)
(* nfl/historical_probability_evidence*.py and its repository).            *)
(*                                                                         *)
(* All but the export read the games and then their history in two         *)
(* statements at READ COMMITTED: a backfill may commit in between.  The    *)
(* export reads one REPEATABLE READ snapshot.  A fit is deterministic.     *)
(***************************************************************************)
EXTENDS NflDatasets, NflPrediction

CONSTANTS
    Researchers,    \* invocations of the commands
    ResearchOf,     \* researcher -> "develop", "early", "freeze", "holdout", "rebuild", "export"
    FolderOf        \* researcher -> the directory an export writes to

(* What is predicted in earnest comes after all that is learned from.      *)
ASSUME ResearchAssumption == ForwardSeason \in Int /\ HoldoutSeason < ForwardSeason

VARIABLES
    researching,    \* where each researcher is
    held,           \* what it has read: [view, rows, holdout, bundle, written]
    reports,        \* the report of a development evaluation
    reference,      \* the fit of the report of the final holdout
    artifact,       \* the fit of the mature model's artifact
    folders         \* directory -> its files

researchVars == <<researching, held, reports, reference, artifact, folders>>

Nothing == [view |-> <<>>, rows |-> <<>>, bundle |-> <<>>, written |-> 0]
NoReport == [folds |-> {}, selected |-> -1, rows |-> <<>>]

StoredGames == StoredSince(DevelopmentFrom)

(* What the repository has committed: the model and the data set of each   *)
(* route, known to the code by their fingerprints.                         *)
FrozenMature ==
    MatureRows(MatureDataset(GamesOfSeasons(StoredGames, Development), StoredGames, StoredStats))
FrozenEarly ==
    EarlyDataset(GamesOfSeasons(StoredGames, EarlyDevelopment), StoredGames, StoredStats)
Frozen(route) == IF route = "mature" THEN FrozenMature ELSE FrozenEarly

(* A fit is known by the rows it was made from, the committed one by <<>>. *)
Fit(rows) == IF rows = FrozenMature THEN <<>> ELSE rows

ResearchInit ==
    /\ researching = [r \in Researchers |-> "idle"]
    /\ held = [r \in Researchers |-> Nothing]
    /\ reports = [r \in Researchers |-> NoReport]
    /\ reference = <<>> /\ artifact = <<>>
    /\ folders = [d \in {FolderOf[r] : r \in Researchers} |-> <<>>]

ResearchGoto(r, label) == researching' = [researching EXCEPT ![r] = label]
Refuse(r) == ResearchGoto(r, "refused") /\ held' = [held EXCEPT ![r] = Nothing]
Finish(r) == ResearchGoto(r, "done") /\ held' = [held EXCEPT ![r] = Nothing]

(***************************************************************************)
(* Loading a data set: the games, then the history.                        *)
(***************************************************************************)
IsEarly(r) == ResearchOf[r] \in {"early", "freeze"}

ReadGames(r) ==
    /\ researching[r] = "idle" /\ ResearchOf[r] # "export"
    /\ held' = [held EXCEPT ![r].view =
          GamesOfSeasons(games, IF IsEarly(r) THEN EarlyDevelopment ELSE Development)]
    /\ ResearchGoto(r, "history")
    /\ UNCHANGED <<reports, reference, artifact, folders>>

Loaded(view, rows, audited, seasons) == audited /\ Modelable(view, seasons) /\ rows # <<>>

ReadHistory(r) ==
    /\ researching[r] = "history"
    /\ LET view == held[r].view
           rows == IF IsEarly(r) THEN EarlyDataset(view, games, stats)
                   ELSE MatureDataset(view, games, stats)
           audited == IF IsEarly(r) THEN EarlyAudit(view, games, stats)
                      ELSE MatureAudit(view, games, stats)
       IN  IF Loaded(view, rows, audited, Development)
           THEN /\ held' = [held EXCEPT ![r].view = <<>>, ![r].rows = rows]
                /\ ResearchGoto(r, "loaded")
           ELSE Refuse(r)
    /\ UNCHANGED <<reports, reference, artifact, folders>>

(***************************************************************************)
(* The development evaluations: every policy on the selection folds, the   *)
(* selected one on all of them.                                            *)
(***************************************************************************)
FoldsOf(rows, history, n) ==
    {[history |-> history, fold |-> PolicyFolds(rows, history, n)[k], number |-> k] : k \in 1 .. n}

SelectionResults(rows) ==
    UNION {FoldsOf(rows, history, SelectionFolds) : history \in ToSet(Policies)}

MayDevelop(rows) ==
    /\ SeasonsIn(rows) = Development
    /\ \A e \in SelectionResults(rows) : FoldIsSound(e.fold)
    /\ \E history \in ToSet(Policies) : Covers(Tried(rows), history)
    /\ \A e \in FoldsOf(rows, Select(Tried(rows)), AllFolds) : FoldIsSound(e.fold)

Develop(r) ==
    /\ researching[r] = "loaded" /\ ResearchOf[r] = "develop"
    /\ LET rows == held[r].rows
           selected == Select(Tried(rows))
       IN  IF MayDevelop(rows)
           THEN /\ reports' = [reports EXCEPT ![r] =
                      [selected |-> selected, rows |-> rows,
                       folds |-> SelectionResults(rows) \cup FoldsOf(rows, selected, AllFolds)]]
                /\ Finish(r)
           ELSE Refuse(r) /\ UNCHANGED reports
    /\ UNCHANGED <<reference, artifact, folders>>

(* The early model has one specification, on the committed data set alone. *)
EarlyResults(rows) ==
    {[history |-> 0, number |-> k,
      fold |-> SeasonFold(rows, EarlyFrom, EarlyFolds[k][1], EarlyFolds[k][2])] :
        k \in DOMAIN EarlyFolds}

EarlyContract(rows) == rows = FrozenEarly /\ SeasonsIn(rows) = EarlyDevelopment

EvaluateEarly(r) ==
    /\ researching[r] = "loaded" /\ ResearchOf[r] = "early"
    /\ LET rows == held[r].rows
       IN  IF EarlyContract(rows) /\ \A e \in EarlyResults(rows) : FoldIsSound(e.fold)
           THEN /\ reports' = [reports EXCEPT ![r] =
                      [selected |-> 0, rows |-> rows, folds |-> EarlyResults(rows)]]
                /\ Finish(r)
           ELSE Refuse(r) /\ UNCHANGED reports
    /\ UNCHANGED <<reference, artifact, folders>>

(* freeze_nfl_early_moneyline_candidate.py verifies and prints.            *)
FreezeEarly(r) ==
    /\ researching[r] = "loaded" /\ ResearchOf[r] = "freeze"
    /\ IF EarlyContract(held[r].rows) /\ Fittable(held[r].rows) THEN Finish(r) ELSE Refuse(r)
    /\ UNCHANGED <<reports, reference, artifact, folders>>

(***************************************************************************)
(* The final holdout and the artifact that is reproduced from it.          *)
(***************************************************************************)
ReadHoldoutGames(r) ==
    /\ researching[r] = "loaded" /\ ResearchOf[r] = "holdout"
    /\ held' = [held EXCEPT ![r].view = GamesOfSeasons(games, {HoldoutSeason})]
    /\ ResearchGoto(r, "holdout")
    /\ UNCHANGED <<reports, reference, artifact, folders>>

MayEvaluateHoldout(training, holdout) ==
    /\ SeasonsIn(training) = Development /\ SeasonsIn(holdout) = {HoldoutSeason}
    /\ Fittable(MatureRows(training)) /\ MatureRows(holdout) # <<>>

EvaluateHoldout(r) ==
    /\ researching[r] = "holdout"
    /\ LET view == held[r].view
           holdout == MatureDataset(view, games, stats)
       IN  IF /\ Loaded(view, holdout, MatureAudit(view, games, stats), {HoldoutSeason})
              /\ MayEvaluateHoldout(held[r].rows, holdout)
           THEN reference' = Fit(MatureRows(held[r].rows)) /\ Finish(r)
           ELSE Refuse(r) /\ UNCHANGED reference
    /\ UNCHANGED <<reports, artifact, folders>>

Reproduced(fitted, report) == SeasonsIn(fitted) = Development /\ Fittable(fitted) /\ Fit(fitted) = report

RebuildArtifact(r) ==
    /\ researching[r] = "loaded" /\ ResearchOf[r] = "rebuild"
    /\ LET fitted == MatureRows(held[r].rows)
       IN  IF Reproduced(fitted, reference)
           THEN artifact' = Fit(fitted) /\ Finish(r)
           ELSE Refuse(r) /\ UNCHANGED artifact
    /\ UNCHANGED <<reports, reference, folders>>

(* load_frozen_nfl_mature_artifact: the code knows the model's fingerprint. *)
ArtifactLoads == artifact = <<>>

(***************************************************************************)
(* The export of historical evidence.                                      *)
(***************************************************************************)
Preflight(r) ==
    /\ researching[r] = "idle" /\ ResearchOf[r] = "export"
    /\ ResearchGoto(r, IF folders[FolderOf[r]] = <<>> THEN "load" ELSE "refused")
    /\ UNCHANGED <<held, reports, reference, artifact, folders>>

Training(db, st) ==
    [mature |-> MatureRows(MatureDataset(GamesOfSeasons(db, Development), db, st)),
     early |-> EarlyDataset(GamesOfSeasons(db, EarlyDevelopment), db, st)]

(* Mutant: the data set is not compared with the one the model was fitted on. *)
ReconstructedUnchecked(training) == \A route \in {"mature", "early"} : Fittable(training[route])

(* What is replayed must be what the frozen models were fitted on.         *)
Reconstructed(training) == \A route \in {"mature", "early"} : training[route] = Frozen(route)

(* The games that are scored, ties included, and scored without a result.  *)
ScoreTargets(db) ==
    {g \in DOMAIN db : /\ db[g].score # <<>> /\ db[g].type \in {"REG", "POST"}
                       /\ db[g].season \in Min({f.score : f \in EvidenceFolds}) .. HoldoutSeason}

ScoreTarget(db, st, g) ==
    LET made == Inference(db, st, db[g])
    IN  [game |-> g, season |-> db[g].season, kickoff |-> db[g].kickoff, route |-> made.route,
         values |-> made.values, trace |-> {[game |-> s, kickoff |-> db[s].kickoff] : s \in made.trace}]

(* The registry of the games that have been predicted in earnest.          *)
ForwardExposures ==
    {n.game : n \in {x \in predictions : /\ x.official /\ predictionRuns[x.key].status = "completed"
                                         /\ games[x.game].season >= ForwardSeason}}

LoadEvidence(r) ==
    /\ researching[r] = "load"
    /\ LET training == Training(games, stats)
       IN  IF ArtifactLoads /\ Reconstructed(training)
           THEN /\ held' = [held EXCEPT ![r].bundle =
                      [training |-> training, exposed |-> ForwardExposures,
                       targets |-> {ScoreTarget(games, stats, g) : g \in ScoreTargets(games)}]]
                /\ ResearchGoto(r, "build")
           ELSE Refuse(r)
    /\ UNCHANGED <<reports, reference, artifact, folders>>

FoldTraining(input, f) ==
    SeasonFold(input.training[f.route], IF f.route = "early" THEN EarlyFrom ELSE DevelopmentFrom,
               f.last, f.score).training

(* The rows a target is forecast from: its fold's, or the frozen model's.  *)
ModelRows(input, t) ==
    IF t.season = HoldoutSeason THEN input.training[t.route]
    ELSE FoldTraining(input, CHOOSE f \in EvidenceFolds : f.route = t.route /\ f.score = t.season)

HasModel(t) == t.season = HoldoutSeason \/ \E f \in EvidenceFolds : f.route = t.route /\ f.score = t.season

InputIsSound(input) ==
    /\ \A t \in input.targets : \A s \in t.trace : s.kickoff < t.kickoff
    /\ \A f \in EvidenceFolds :
          LET training == FoldTraining(input, f)
          IN  /\ SeasonsIn(training) = (IF f.route = "early" THEN EarlyFrom ELSE DevelopmentFrom) .. f.last
              /\ Fittable(training)
              /\ \A t \in input.targets : t.route = f.route /\ t.season = f.score =>
                    \A x \in ToSet(training) : x.game # t.game

(* The documents of a package, in the order they are written.              *)
Documents == <<"probabilities", "training", "traces", "exposure">>

Brief(rows) ==
    {[game |-> x.game, kickoff |-> x.kickoff, season |-> x.season, won |-> x.won] : x \in ToSet(rows)}

Render(input) ==
    LET scored == {t \in input.targets : HasModel(t)}
    IN  [probabilities |-> {[game |-> t.game, season |-> t.season, cutoff |-> t.kickoff,
                             route |-> t.route, home |-> Forecast(ModelRows(input, t), t.values)] :
                              t \in scored},
         training |-> {[route |-> t.route, season |-> t.season, rows |-> Brief(ModelRows(input, t))] :
                         t \in scored},
         traces |-> {[game |-> t.game, sources |-> t.trace] : t \in scored},
         exposure |-> input.exposed]

(* Both renderings of one input are equal; the artifact is loaded again.   *)
BuildEvidence(r) ==
    /\ researching[r] = "build"
    /\ IF ArtifactLoads /\ InputIsSound(held[r].bundle)
       THEN /\ held' = [held EXCEPT ![r].bundle = Render(held[r].bundle)]
            /\ ResearchGoto(r, "write")
       ELSE Refuse(r)
    /\ UNCHANGED <<reports, reference, artifact, folders>>

OpenFolder(r) ==
    /\ researching[r] = "write"
    /\ IF folders[FolderOf[r]] = <<>>
       THEN ResearchGoto(r, "documents") /\ UNCHANGED held
       ELSE Refuse(r)
    /\ UNCHANGED <<reports, reference, artifact, folders>>

With(files, name, content) ==
    [n \in DOMAIN files \cup {name} |-> IF n = name THEN content ELSE files[n]]

Put(d, name, content) == folders' = [folders EXCEPT ![d] = With(@, name, content)]

WriteDocument(r) ==
    /\ researching[r] = "documents" /\ held[r].written < Len(Documents)
    /\ LET name == Documents[held[r].written + 1]
       IN  Put(FolderOf[r], name, held[r].bundle[name])
    /\ held' = [held EXCEPT ![r].written = @ + 1]
    /\ UNCHANGED <<researching, reports, reference, artifact>>

WriteManifest(r) ==
    /\ researching[r] = "documents" /\ held[r].written = Len(Documents)
    /\ Put(FolderOf[r], "manifest", held[r].bundle)
    /\ ResearchGoto(r, "validate")
    /\ UNCHANGED <<held, reports, reference, artifact>>

(* validate_evidence_package: the files are those the manifest names, and  *)
(* each is what it says.                                                   *)
ValidPackage(files) ==
    /\ DOMAIN files = {"manifest"} \cup ToSet(Documents)
    /\ \A name \in ToSet(Documents) : files[name] = files.manifest[name]

ValidateEvidence(r) ==
    /\ researching[r] = "validate"
    /\ IF ValidPackage(folders[FolderOf[r]]) THEN Finish(r) ELSE Refuse(r)
    /\ UNCHANGED <<reports, reference, artifact, folders>>

ResearcherCrash(r) ==
    /\ researching[r] \in {"documents", "validate"}
    /\ ResearchGoto(r, "crashed") /\ held' = [held EXCEPT ![r] = Nothing]
    /\ UNCHANGED <<reports, reference, artifact, folders>>

ResearcherStep(r) ==
    \/ ReadGames(r) \/ ReadHistory(r) \/ Develop(r) \/ EvaluateEarly(r) \/ FreezeEarly(r)
    \/ ReadHoldoutGames(r) \/ EvaluateHoldout(r) \/ RebuildArtifact(r)
    \/ Preflight(r) \/ LoadEvidence(r) \/ BuildEvidence(r) \/ OpenFolder(r)
    \/ WriteDocument(r) \/ WriteManifest(r) \/ ValidateEvidence(r) \/ ResearcherCrash(r)
=============================================================================
