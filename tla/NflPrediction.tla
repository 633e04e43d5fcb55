---------------------------- MODULE NflPrediction ----------------------------
(***************************************************************************)
(* Prediction runs of NFL games (nfl/moneyline_prediction_service.py, its  *)
(* repository and migration 026).                                          *)
(*                                                                         *)
(* A run is named by the caller's key.  An execution looks the key up and  *)
(* creates the run in one transaction, and predicts the whole slate in a   *)
(* second one at REPEATABLE READ: its snapshot is taken by the statement   *)
(* that locks the run, so the lock may be granted long after the snapshot. *)
(* A serialization failure sends the execution back to the start.          *)
(***************************************************************************)
EXTENDS NflGames, NflFeatures

CONSTANTS
    Predictors,     \* executions of a prediction request
    RequestOf,      \* predictor -> [key, type, from, until]
    WindowOpens, WindowCloses,  \* ticks before the first kickoff
    Attempts,       \* _MAX_CONCURRENCY_ATTEMPTS
    HomeProbability(_),     \* the frozen model of a route, on [route, values, trace]
    Threshold       \* its classification threshold

ASSUME PredictionAssumption ==
    /\ WindowOpens \in Nat /\ WindowCloses \in Nat /\ Attempts \in Nat \ {0}
    /\ Threshold \in Nat

VARIABLES
    predictionRuns, \* nfl_moneyline_prediction_runs, by key
    predictions,    \* nfl_moneyline_game_predictions
    predicting,     \* where each execution is
    attempts,       \* its attempts so far
    expected,       \* the slate it expects to predict
    seen            \* the snapshot of its write transaction

predictionVars == <<predictionRuns, predictions, predicting, attempts, expected, seen>>

Keys == {RequestOf[p].key : p \in Predictors}
KeyOf(p) == RequestOf[p].key
NoRun == [status |-> "none", request |-> <<>>, slate |-> <<>>, asOf |-> 0]
NoSnapshot == [games |-> <<>>, stats |-> {}, official |-> {}, status |-> "none", at |-> 0]

PredictionInit ==
    /\ predictionRuns = [k \in Keys |-> NoRun]
    /\ predictions = {}
    /\ predicting = [p \in Predictors |-> "idle"]
    /\ attempts = [p \in Predictors |-> 0]
    /\ expected = [p \in Predictors |-> <<>>]
    /\ seen = [p \in Predictors |-> NoSnapshot]

PredictGoto(p, label) == predicting' = [predicting EXCEPT ![p] = label]
Forget(p) == /\ seen' = [seen EXCEPT ![p] = NoSnapshot]
             /\ expected' = [expected EXCEPT ![p] = <<>>]

(* The unplayed games of the slate; an official run leaves the preseason.  *)
Targets(db, request) ==
    {g \in DOMAIN db : /\ db[g].season = ForwardSeason /\ ~Final(db[g])
                       /\ request.from <= db[g].kickoff /\ db[g].kickoff < request.until
                       /\ request.type = "official" => db[g].type \in {"REG", "POST"}}

(* What _slate_fingerprint hashes of the games of a slate.                 *)
SlateOf(db, request) ==
    [g \in Targets(db, request) |-> <<Identity(db[g]), db[g].kickoff>>]

FirstKickoff(db, ids) ==
    CHOOSE t \in {db[g].kickoff : g \in ids} : \A g \in ids : t <= db[g].kickoff

InOfficialWindow(db, ids, now) ==
    ids # {} => /\ FirstKickoff(db, ids) - WindowOpens <= now
                /\ now < FirstKickoff(db, ids) - WindowCloses

RequestIdentity(p) == <<RequestOf[p].type, RequestOf[p].from, RequestOf[p].until>>
ChildrenOf(k) == {n \in predictions : n.key = k}

(* An existing run is completed already, or may be taken up again.         *)
TakeUp(p, run) ==
    IF run.request # RequestIdentity(p) THEN "refused"
    ELSE IF run.status = "completed" THEN "done"
    ELSE IF run.status = "running" /\ ChildrenOf(KeyOf(p)) = {} THEN "open"
    ELSE "refused"

(* The preflight looks the key up.  Without a run it reads the slate, and  *)
(* an official one must have a game and be in its window.                  *)
LookUpRun(p) ==
    /\ predicting[p] = "idle"
    /\ LET run == predictionRuns[KeyOf(p)]
           targets == Targets(games, RequestOf[p])
           official == RequestOf[p].type = "official"
       IN  IF run.status # "none"
           THEN /\ PredictGoto(p, TakeUp(p, run))
                /\ expected' = [expected EXCEPT ![p] = run.slate]
           ELSE IF official /\ (targets = {} \/ ~InOfficialWindow(games, targets, clock))
           THEN PredictGoto(p, "refused") /\ UNCHANGED expected
           ELSE /\ PredictGoto(p, "create")
                /\ expected' = [expected EXCEPT ![p] = SlateOf(games, RequestOf[p])]
    /\ attempts' = [attempts EXCEPT ![p] = @ + 1]
    /\ UNCHANGED <<predictionRuns, predictions, seen>>

(* The insert of the run; a run that was created meanwhile must be of the  *)
(* same slate as well.                                                     *)
CreatePredictionRun(p) ==
    /\ predicting[p] = "create"
    /\ LET run == predictionRuns[KeyOf(p)]
       IN  IF run.status = "none"
           THEN /\ predictionRuns' = [predictionRuns EXCEPT ![KeyOf(p)] =
                       [status |-> "running", request |-> RequestIdentity(p),
                        slate |-> expected[p], asOf |-> 0]]
                /\ PredictGoto(p, "open")
           ELSE /\ PredictGoto(p, IF run.slate # expected[p] THEN "refused" ELSE TakeUp(p, run))
                /\ UNCHANGED predictionRuns
    /\ UNCHANGED <<predictions, attempts, expected, seen>>

OfficialGames == {n.game : n \in {x \in predictions : x.official}}

OpenSnapshot(p) ==
    /\ predicting[p] = "open"
    /\ seen' = [seen EXCEPT ![p] =
          [games |-> games, stats |-> stats, official |-> OfficialGames,
           status |-> predictionRuns[KeyOf(p)].status, at |-> clock]]
    /\ PredictGoto(p, "locking")
    /\ UNCHANGED <<predictionRuns, predictions, attempts, expected>>

HoldsRun(k) == \E p \in Predictors : KeyOf(p) = k /\ predicting[p] = "inferring"

(* Everything that is checked between the lock and the inference.          *)
MayInfer(p) ==
    LET request == RequestOf[p]
        targets == Targets(seen[p].games, request)
    IN  /\ SlateOf(seen[p].games, request) = expected[p]
        /\ \A g \in targets : clock < seen[p].games[g].kickoff
        /\ request.type = "official" =>
              /\ InOfficialWindow(seen[p].games, targets, clock)
              /\ targets \cap seen[p].official = {}

(* The lock of the run: a run that changed since the snapshot fails to     *)
(* serialize.                                                              *)
LockRun(p) ==
    /\ predicting[p] = "locking" /\ ~HoldsRun(KeyOf(p))
    /\ PredictGoto(p,
          IF predictionRuns[KeyOf(p)].status # seen[p].status THEN "retry"
          ELSE IF seen[p].status = "completed" THEN "done"
          ELSE IF seen[p].status # "running" THEN "failing"
          ELSE IF MayInfer(p) THEN "inferring" ELSE "failing")
    /\ IF predicting'[p] = "inferring" THEN UNCHANGED <<seen, expected>> ELSE Forget(p)
    /\ UNCHANGED <<predictionRuns, predictions, attempts>>

(* One prediction of the snapshot's game, made now.                        *)
Prediction(p, g) ==
    LET row == seen[p].games[g]
        inference == Inference(seen[p].games, seen[p].stats, row)
    IN  [key |-> KeyOf(p), official |-> RequestOf[p].type = "official", game |-> g,
         kickoff |-> row.kickoff, home |-> row.home, away |-> row.away,
         route |-> inference.route, trace |-> inference.trace,
         probability |-> HomeProbability(inference),
         side |-> IF HomeProbability(inference) >= Threshold THEN "home" ELSE "away",
         created |-> clock]

(* Mutant: the unique index over the official predictions is missing. *)
DuplicatesOfficialUnchecked(p, targets) == FALSE

(* The unique index over (protocol, game) of the official predictions.     *)
DuplicatesOfficial(p, targets) ==
    RequestOf[p].type = "official" /\ targets \cap OfficialGames # {}

(* The predictions are inserted against the canonical rows as they are now *)
(* (the trigger locks them) and the run is completed with them.            *)
StorePredictions(p) ==
    /\ predicting[p] = "inferring"
    /\ LET targets == DOMAIN expected[p]
           made == {Prediction(p, g) : g \in targets}
       IN  IF \E g \in targets : games[g] # seen[p].games[g]
           THEN PredictGoto(p, "retry") /\ UNCHANGED <<predictions, predictionRuns>>
           ELSE IF \/ DuplicatesOfficial(p, targets)
                   \/ \E g \in targets : clock >= games[g].kickoff
           THEN PredictGoto(p, "failing") /\ UNCHANGED <<predictions, predictionRuns>>
           ELSE /\ predictions' = predictions \cup made
                /\ predictionRuns' = [predictionRuns EXCEPT
                      ![KeyOf(p)].status = "completed", ![KeyOf(p)].asOf = seen[p].at]
                /\ PredictGoto(p, "done")
    /\ Forget(p)
    /\ UNCHANGED attempts

(* Any other error of the write transaction.                               *)
InferenceFails(p) ==
    /\ predicting[p] = "inferring"
    /\ PredictGoto(p, "failing") /\ Forget(p)
    /\ UNCHANGED <<predictionRuns, predictions, attempts>>

(* Mutant: the failure overwrites a run that another execution completed. *)
RetainFailedRunBlindly(p) ==
    /\ predicting[p] = "failing" /\ ~HoldsRun(KeyOf(p))
    /\ predictionRuns' = [predictionRuns EXCEPT ![KeyOf(p)].status = "failed"]
    /\ PredictGoto(p, "failed")
    /\ UNCHANGED <<predictions, attempts, expected, seen>>

(* _retain_failed_run: the update waits for the lock and changes only a    *)
(* run that is running; its own failure leaves the run as it is.           *)
RetainFailedRun(p) ==
    /\ predicting[p] = "failing" /\ ~HoldsRun(KeyOf(p))
    /\ \/ /\ predictionRuns[KeyOf(p)].status = "running"
          /\ predictionRuns' = [predictionRuns EXCEPT ![KeyOf(p)].status = "failed"]
       \/ UNCHANGED predictionRuns
    /\ PredictGoto(p, "failed")
    /\ UNCHANGED <<predictions, attempts, expected, seen>>

(* A serialization failure or a deadlock.                                  *)
RetryPrediction(p) ==
    /\ predicting[p] = "retry"
    /\ PredictGoto(p, IF attempts[p] < Attempts THEN "idle" ELSE "failed")
    /\ UNCHANGED <<predictionRuns, predictions, attempts, expected, seen>>

PredictorCrash(p) ==
    /\ predicting[p] \in {"open", "locking", "inferring", "failing"}
    /\ PredictGoto(p, "dead") /\ Forget(p)
    /\ UNCHANGED <<predictionRuns, predictions, attempts>>

PredictorStep(p) ==
    \/ LookUpRun(p) \/ CreatePredictionRun(p) \/ OpenSnapshot(p) \/ LockRun(p)
    \/ StorePredictions(p) \/ InferenceFails(p) \/ RetainFailedRun(p) \/ RetryPrediction(p)
    \/ PredictorCrash(p)
=============================================================================
