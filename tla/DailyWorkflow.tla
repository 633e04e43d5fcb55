---------------------------- MODULE DailyWorkflow ----------------------------
(***************************************************************************)
(* The daily MLB Moneyline workflow of one target date:                    *)
(* src/src/sportsmodel/orchestration/moneyline_daily.py, the workflow row  *)
(* it keeps in moneyline_daily_workflow_runs and the evidence rows (runs,  *)
(* evaluations, settlements) that its steps commit.                        *)
(*                                                                         *)
(* Every invocation of the pregame or of the postgame command runs in a    *)
(* slot p.  Each transaction of the code is one action; between two        *)
(* transactions any other slot may run, and the invocation may crash.  The *)
(* row an invocation read at its start is kept in local[p].row, as the     *)
(* code keeps it in the variable "workflow": it may be stale.              *)
(***************************************************************************)
EXTENDS Naturals, FiniteSets

CONSTANTS Games,            \* the slate of the target date
          PredictionRuns,   \* ids of official prediction runs
          OddsRuns,         \* ids of odds-ingestion runs with role "entry"
          Slots,            \* invocations that may be in flight together
          None,             \* SQL NULL
          Faults,           \* which kinds of failure may a day meet?
          MaxFaults,        \* bound on the failures of one behaviour
          LatePregame       \* may pregame start after the first pitch?

FaultKinds == {"provider", "db", "crash"}

ASSUME WorkflowAssumption ==
    /\ None \notin PredictionRuns \cup OddsRuns
    /\ Faults \subseteq SUBSET FaultKinds
    /\ MaxFaults \in Nat
    /\ LatePregame \in BOOLEAN

ASSUME SlateAssumption == IsFiniteSet(Games)

VARIABLES workflow,       \* the row of moneyline_daily_workflow_runs
          predictionRun,  \* status of each official prediction run
          oddsRun,        \* status of each entry odds run
          evaluated,      \* pairs <<run, odds>> with stored evaluations
          qualified,      \* <<run, odds, game>>: evaluation is a candidate
          settled,        \* <<run, odds, game>>: evaluation has a settlement
          earlyPending,   \* Early Entry candidates without a settlement
          over,           \* games the results provider reports final
          finals,         \* games with a stored final score
          firstPitch,     \* has the slate started?
          failing,        \* the kinds of failure this day may meet
          pc, local,      \* the invocations
          faults          \* failures so far

evidenceVars == <<predictionRun, oddsRun, evaluated, qualified, settled>>
worldVars == <<over, firstPitch, failing>>
resultVars == <<finals, earlyPending>>
vars == <<workflow, evidenceVars, worldVars, resultVars, pc, local, faults>>

-----------------------------------------------------------------------------
(* The workflow row *)

Statuses == {"pending", "running", "awaiting_results", "completed", "failed"}

(* The stages the table's CHECK constraint admits. *)
Stages == {"initialized", "schedule_sync", "prediction", "odds_ingestion",
           "evaluation", "pregame_audit", "results_ingestion", "settlement",
           "final_audit", "complete"}

(* current_stage as Python keeps it: one value is not a legal column value. *)
LocalStages == Stages \cup {"early_entry_settlement"}

PregameStages == {"schedule_sync", "prediction", "odds_ingestion",
                  "evaluation", "pregame_audit"}

WorkflowRow == [status: Statuses, stage: Stages,
                prediction: PredictionRuns \cup {None},
                odds: OddsRuns \cup {None},
                pregameDone: BOOLEAN, settlementDone: BOOLEAN,
                error: BOOLEAN]

NewWorkflow == [status |-> "pending", stage |-> "initialized",
                prediction |-> None, odds |-> None,
                pregameDone |-> FALSE, settlementDone |-> FALSE,
                error |-> FALSE]

StartAttempt(w, s) ==
    [w EXCEPT !.status = "running", !.stage = s, !.error = FALSE]

AdvanceStage(w, s) == [w EXCEPT !.stage = s]

RecordPredictionRun(w, r) ==
    [w EXCEPT !.prediction = r, !.stage = "odds_ingestion"]

RecordOddsRun(w, o) == [w EXCEPT !.odds = o, !.stage = "evaluation"]

AwaitResults(w) ==
    [w EXCEPT !.status = "awaiting_results", !.stage = "results_ingestion",
              !.pregameDone = TRUE, !.error = FALSE]

PostgamePending(w) ==
    [w EXCEPT !.status = "awaiting_results", !.stage = "results_ingestion",
              !.error = FALSE]

SettlementCompleted(w) ==
    [w EXCEPT !.stage = "final_audit", !.settlementDone = TRUE]

CompleteWorkflow(w) ==
    [w EXCEPT !.status = "completed", !.stage = "complete", !.error = FALSE]

(* Mutant: a table without the CHECK constraint. *)
FailWorkflowUnchecked(w, s) ==
    [w EXCEPT !.status = "failed", !.stage = s, !.error = TRUE]

(* The UPDATE of a stage the CHECK constraint rejects raises, and           *)
(* _record_pregame_failure swallows the exception: the row stays.           *)
FailWorkflow(w, s) ==
    IF s \in Stages
    THEN [w EXCEPT !.status = "failed", !.stage = s, !.error = TRUE]
    ELSE w

CanReusePregame(w) ==
    /\ w.status \in {"awaiting_results", "completed"}
    /\ w.prediction # None
    /\ w.odds # None

ResumeStage(w) ==
    IF w.prediction = None THEN "schedule_sync"
    ELSE IF w.odds = None THEN "odds_ingestion" ELSE "evaluation"

-----------------------------------------------------------------------------
(* Evidence read by the steps *)

Triples == PredictionRuns \X OddsRuns \X Games

Candidates(r, o) == {g \in Games : <<r, o, g>> \in qualified}

SettledGames(r, o) == {g \in Games : <<r, o, g>> \in settled}

Card(w) == <<w.prediction, w.odds>>

(* Mutant: only a completed run occupies the slot. *)
OccupiesWhenCompleted(o) == oddsRun[o] = "completed"

(* The predicate of the partial unique index on the entry snapshot slot.    *)
OccupiesSlot(o) == oddsRun[o] \in {"running", "completed"}

(* Mutant: the statuses of the runs are not looked at. *)
EvaluableUnchecked(r, o) == TRUE

(* _validate_runs of the evaluation service.                                *)
Evaluable(r, o) == predictionRun[r] = "completed" /\ oddsRun[o] = "completed"

(* Mutant: the settlements are not counted. *)
AuditPassesUncounted(r, o) == Evaluable(r, o) /\ <<r, o>> \in evaluated

(* audit_moneyline_live_pipeline followed by _validate_pregame_audit: no    *)
(* integrity issue and no unevaluated prediction.  The audit compares       *)
(* numbers of rows, never the rows themselves.                              *)
AuditPasses(r, o) ==
    /\ predictionRun[r] = "completed"
    /\ oddsRun[o] = "completed"
    /\ <<r, o>> \in evaluated
    /\ Cardinality(SettledGames(r, o)) <= Cardinality(Candidates(r, o))

(* The counts of load_moneyline_daily_official_evidence_counts that the     *)
(* no-card test reads.  A run of status "empty" completed without a row.    *)
PredictionRunCount ==
    Cardinality({r \in PredictionRuns : predictionRun[r] # "absent"})

FailedRunCount(w) ==
    Cardinality({r \in PredictionRuns \ {w.prediction} :
                    predictionRun[r] = "failed"})

EntryOddsRunCount == Cardinality({o \in OddsRuns : oddsRun[o] # "absent"})

NoPredictionRows == \A r \in PredictionRuns : predictionRun[r] # "completed"

Unlinked(w) ==
    /\ w.prediction = None
    /\ w.odds = None
    /\ ~w.pregameDone
    /\ w.error

FailedBeforeEvidence(w) ==
    /\ w.stage \in {"schedule_sync", "prediction"}
    /\ Unlinked(w)
    /\ PredictionRunCount = 0
    /\ EntryOddsRunCount = 0

FailedWithOneEmptyRun(w) ==
    /\ w.stage = "prediction"
    /\ Unlinked(w)
    /\ PredictionRunCount = 1
    /\ NoPredictionRows
    /\ FailedRunCount(w) = 1
    /\ EntryOddsRunCount = 0
    /\ evaluated = {} /\ qualified = {} /\ settled = {}

(* Mutant: the stored evaluations are not counted. *)
FailedBeforeCardAnyEvidence(w) ==
    /\ w.stage = "evaluation"
    /\ w.prediction # None /\ w.odds # None
    /\ PredictionRunCount = 1
    /\ EntryOddsRunCount = 1

FailedBeforeCard(w) ==
    /\ w.stage = "evaluation"
    /\ w.prediction # None /\ w.odds # None
    /\ ~w.pregameDone
    /\ w.error
    /\ PredictionRunCount = 1
    /\ EntryOddsRunCount = 1
    /\ predictionRun[w.prediction] \in {"completed", "empty"}
    /\ oddsRun[w.odds] = "completed"
    /\ evaluated = {} /\ qualified = {} /\ settled = {}

IsNoCard(w) ==
    /\ w.status = "failed"
    /\ \/ FailedBeforeEvidence(w)
       \/ FailedWithOneEmptyRun(w)
       \/ FailedBeforeCard(w)

MissingLinkage(w) == w.prediction = None \/ w.odds = None

(* Mutant: a failed pregame with both run ids is let through. *)
RefusesMissingLinkage(w) == ~IsNoCard(w) /\ MissingLinkage(w)

(* The two refusals of run_moneyline_daily_postgame. *)
Refuses(w) ==
    /\ ~IsNoCard(w)
    /\ \/ w.status = "failed" /\ w.stage \in PregameStages
       \/ MissingLinkage(w)

-----------------------------------------------------------------------------
(* Invocations *)

PregameSteps == {"begin_pregame", "schedule", "predict", "predicting",
                 "record_prediction", "odds", "fetching", "record_odds",
                 "evaluate", "stage_audit", "pregame_audit", "publish"}

PostgameSteps == {"evidence", "begin_postgame", "results",
                  "stage_settlement", "settle", "early", "mark_settlement",
                  "final_audit", "complete"}

NoCardSteps == {"no_card_results", "no_card_early"}

RecheckSteps == {"recheck_results", "recheck_early", "recheck_audit"}

FailureSteps == {"read_failure", "mark_failure"}

Steps == {"idle", "finish"} \cup PregameSteps \cup PostgameSteps
            \cup NoCardSteps \cup RecheckSteps \cup FailureSteps

Local == [row: WorkflowRow,       \* "workflow", its ids kept up to date
          stage: LocalStages,     \* "current_stage"
          run: PredictionRuns \cup OddsRuns \cup {None},
          count: BOOLEAN]         \* candidates, or pending ones, counted?

Idle == [row |-> NewWorkflow, stage |-> "initialized",
         run |-> None, count |-> FALSE]

(* After its first decision an invocation reads only the row's run ids. *)
RunIds(w) == [NewWorkflow EXCEPT !.prediction = w.prediction, !.odds = w.odds]

Init ==
    /\ workflow = NewWorkflow
    /\ predictionRun = [r \in PredictionRuns |-> "absent"]
    /\ oddsRun = [o \in OddsRuns |-> "absent"]
    /\ evaluated = {} /\ qualified = {} /\ settled = {}
    /\ earlyPending \in SUBSET Games
    /\ over = {} /\ finals = {} /\ firstPitch = FALSE /\ failing \in Faults
    /\ pc = [p \in Slots |-> "idle"]
    /\ local = [p \in Slots |-> Idle]
    /\ faults = 0

Goto(p, step) == pc' = [pc EXCEPT ![p] = step]

End(p) ==
    /\ Goto(p, "idle")
    /\ local' = [local EXCEPT ![p] = Idle]

Fault(kinds) ==
    /\ kinds \cap failing # {}
    /\ faults < MaxFaults
    /\ faults' = faults + 1

-----------------------------------------------------------------------------
(* Pregame *)

(* _prepare_pregame_workflow up to the decision: the row just read decides  *)
(* the whole attempt.  A reusable workflow is audited and nothing else, an  *)
(* invocation that changes no state and has no step here.                   *)
(* Bound: an attempt starts only while fresh run ids remain.                *)
StartPregame(p) ==
    /\ pc[p] = "idle"
    /\ ~firstPitch \/ LatePregame
    /\ \E r \in PredictionRuns : predictionRun[r] = "absent"
    /\ \E o \in OddsRuns : oddsRun[o] = "absent"
    /\ ~CanReusePregame(workflow)
    /\ Goto(p, "begin_pregame")
    /\ local' = [local EXCEPT ![p].row = RunIds(workflow),
                              ![p].stage = ResumeStage(workflow)]
    /\ UNCHANGED <<workflow, evidenceVars, worldVars, resultVars, faults>>

(* Mutant: an attempt ignores the run ids the row already has. *)
FirstStepFromScratch(w) == "schedule"

FirstPregameStep(w) ==
    IF w.prediction = None THEN "schedule"
    ELSE IF w.odds = None THEN "odds" ELSE "evaluate"

BeginPregame(p) ==
    /\ pc[p] = "begin_pregame"
    /\ workflow' = StartAttempt(workflow, local[p].stage)
    /\ Goto(p, FirstPregameStep(local[p].row))
    /\ UNCHANGED <<evidenceVars, worldVars, resultVars, local, faults>>

(* The schedule covers the target date: advance to prediction.              *)
SyncSchedule(p) ==
    /\ pc[p] = "schedule"
    /\ workflow' = AdvanceStage(workflow, "prediction")
    /\ Goto(p, "predict")
    /\ UNCHANGED <<evidenceVars, worldVars, resultVars, local, faults>>

(* create_moneyline_prediction_run commits the run before any prediction.   *)
CreatePredictionRun(p) ==
    /\ pc[p] = "predict"
    /\ \E r \in PredictionRuns :
        /\ predictionRun[r] = "absent"
        /\ predictionRun' = [predictionRun EXCEPT ![r] = "running"]
        /\ local' = [local EXCEPT ![p].run = r]
    /\ Goto(p, "predicting")
    /\ UNCHANGED <<workflow, oddsRun, evaluated, qualified, settled,
                   worldVars, resultVars, faults>>

(* All predictions and the status "completed" commit together; a slate      *)
(* without an eligible game completes the run with no row.                  *)
CompletePredictionRun(p) ==
    /\ pc[p] = "predicting"
    /\ \E s \in {"completed", "empty"} :
        predictionRun' = [predictionRun EXCEPT ![local[p].run] = s]
    /\ Goto(p, "record_prediction")
    /\ UNCHANGED <<workflow, oddsRun, evaluated, qualified, settled,
                   worldVars, resultVars, local, faults>>

(* Mutant: the exception of the prediction service is swallowed. *)
FailPredictionRunSilently(p) ==
    /\ pc[p] = "predicting"
    /\ Fault({"provider"})
    /\ predictionRun' = [predictionRun EXCEPT ![local[p].run] = "failed"]
    /\ Goto(p, "record_prediction")
    /\ UNCHANGED <<workflow, oddsRun, evaluated, qualified, settled,
                   worldVars, resultVars, local>>

(* Rollback, then a second transaction marks the run failed; when the       *)
(* database refuses that too, the run stays "running".                      *)
FailPredictionRun(p) ==
    /\ pc[p] = "predicting"
    /\ \/ /\ Fault({"provider"})
          /\ predictionRun' =
                [predictionRun EXCEPT ![local[p].run] = "failed"]
       \/ /\ Fault({"db"})
          /\ UNCHANGED predictionRun
    /\ Goto(p, "read_failure")
    /\ UNCHANGED <<workflow, oddsRun, evaluated, qualified, settled,
                   worldVars, resultVars, local>>

RecordPrediction(p) ==
    /\ pc[p] = "record_prediction"
    /\ workflow' = RecordPredictionRun(workflow, local[p].run)
    /\ local' = [local EXCEPT
                    ![p].row = [@ EXCEPT !.prediction = local[p].run],
                    ![p].stage = IF local[p].row.odds = None
                                 THEN "odds_ingestion" ELSE "evaluation"]
    /\ Goto(p, IF local[p].row.odds = None THEN "odds" ELSE "evaluate")
    /\ UNCHANGED <<evidenceVars, worldVars, resultVars, faults>>

(* create_ingestion_run: the partial unique index admits one running or     *)
(* completed entry run of the date; a conflict is DuplicateOddsSnapshotError.*)
ReserveEntryOdds(p) ==
    /\ pc[p] = "odds"
    /\ IF \E o \in OddsRuns : OccupiesSlot(o)
       THEN /\ Goto(p, "read_failure")
            /\ UNCHANGED <<oddsRun, local>>
       ELSE \E o \in OddsRuns :
                /\ oddsRun[o] = "absent"
                /\ oddsRun' = [oddsRun EXCEPT ![o] = "running"]
                /\ local' = [local EXCEPT ![p].run = o]
                /\ Goto(p, "fetching")
    /\ UNCHANGED <<workflow, predictionRun, evaluated, qualified, settled,
                   worldVars, resultVars, faults>>

(* Snapshots and the status "completed" commit together.                    *)
CompleteOddsRun(p) ==
    /\ pc[p] = "fetching"
    /\ oddsRun' = [oddsRun EXCEPT ![local[p].run] = "completed"]
    /\ Goto(p, "record_odds")
    /\ UNCHANGED <<workflow, predictionRun, evaluated, qualified, settled,
                   worldVars, resultVars, local, faults>>

FailOddsRun(p) ==
    /\ pc[p] = "fetching"
    /\ \/ /\ Fault({"provider"})
          /\ oddsRun' = [oddsRun EXCEPT ![local[p].run] = "failed"]
       \/ /\ Fault({"db"})
          /\ UNCHANGED oddsRun
    /\ Goto(p, "read_failure")
    /\ UNCHANGED <<workflow, predictionRun, evaluated, qualified, settled,
                   worldVars, resultVars, local>>

RecordOdds(p) ==
    /\ pc[p] = "record_odds"
    /\ workflow' = RecordOddsRun(workflow, local[p].run)
    /\ local' = [local EXCEPT ![p].row = [@ EXCEPT !.odds = local[p].run],
                              ![p].stage = "evaluation"]
    /\ Goto(p, "evaluate")
    /\ UNCHANGED <<evidenceVars, worldVars, resultVars, faults>>

(* The qualification of every evaluation of the pair is written again.      *)
Requalify(r, o, games) ==
    {t \in qualified : ~(t[1] = r /\ t[2] = o)} \cup ({r} \X {o} \X games)

(* evaluate_moneyline_prediction_run, one transaction.  Which games qualify *)
(* depends on today's probable starters, so a rerun may decide otherwise.   *)
Evaluate(p) ==
    LET r == local[p].row.prediction
        o == local[p].row.odds
    IN /\ pc[p] = "evaluate"
       /\ IF Evaluable(r, o)
          THEN /\ evaluated' = evaluated \cup {<<r, o>>}
               /\ \E games \in SUBSET Games :
                    qualified' = Requalify(r, o, games)
               /\ local' = [local EXCEPT ![p].stage = "pregame_audit"]
               /\ Goto(p, "stage_audit")
          ELSE /\ Goto(p, "read_failure")
               /\ UNCHANGED <<evaluated, qualified, local>>
       /\ UNCHANGED <<workflow, predictionRun, oddsRun, settled,
                      worldVars, resultVars, faults>>

StageAudit(p) ==
    /\ pc[p] = "stage_audit"
    /\ workflow' = AdvanceStage(workflow, "pregame_audit")
    /\ Goto(p, "pregame_audit")
    /\ UNCHANGED <<evidenceVars, worldVars, resultVars, local, faults>>

AuditPregame(p) ==
    LET r == local[p].row.prediction
        o == local[p].row.odds
    IN /\ pc[p] = "pregame_audit"
       /\ IF AuditPasses(r, o)
          THEN /\ local' = [local EXCEPT ![p].count = Candidates(r, o) # {}]
               /\ Goto(p, "publish")
          ELSE /\ Goto(p, "read_failure")
               /\ UNCHANGED local
       /\ UNCHANGED <<workflow, evidenceVars, worldVars, resultVars, faults>>

(* _mark_pregame_terminal_state *)
Publish(p) ==
    /\ pc[p] = "publish"
    /\ workflow' = IF local[p].count THEN AwaitResults(workflow)
                                     ELSE CompleteWorkflow(workflow)
    /\ Goto(p, "finish")
    /\ UNCHANGED <<evidenceVars, worldVars, resultVars, local, faults>>

(* The row is read once more for the result; nothing is written.            *)
Finish(p) ==
    /\ pc[p] = "finish"
    /\ End(p)
    /\ UNCHANGED <<workflow, evidenceVars, worldVars, resultVars, faults>>

-----------------------------------------------------------------------------
(* Postgame *)

(* run_moneyline_daily_postgame up to its first branch.  It runs for the    *)
(* previous Pacific date, so the slate has started.                         *)
StartPostgame(p) ==
    /\ pc[p] = "idle"
    /\ firstPitch
    /\ \/ /\ workflow.status = "failed" \/ MissingLinkage(workflow)
          /\ Goto(p, "evidence")
          /\ local' = [local EXCEPT ![p].row = workflow,
                                    ![p].stage = "results_ingestion"]
       \/ /\ workflow.status # "failed" /\ ~MissingLinkage(workflow)
          /\ Goto(p, IF workflow.status = "completed"
                     THEN "recheck_results" ELSE "begin_postgame")
          /\ local' = [local EXCEPT ![p].row = RunIds(workflow),
                                    ![p].stage = "results_ingestion"]
    /\ UNCHANGED <<workflow, evidenceVars, worldVars, resultVars, faults>>

(* The evidence is counted now, the row was read before.                    *)
JudgeEvidence(p) ==
    /\ pc[p] = "evidence"
    /\ \/ /\ Refuses(local[p].row)
          /\ End(p)
       \/ /\ ~Refuses(local[p].row)
          /\ Goto(p, IF IsNoCard(local[p].row) THEN "no_card_results"
                                               ELSE "begin_postgame")
          /\ local' = [local EXCEPT ![p].row = RunIds(@)]
    /\ UNCHANGED <<workflow, evidenceVars, worldVars, resultVars, faults>>

BeginPostgame(p) ==
    /\ pc[p] = "begin_postgame"
    /\ workflow' = StartAttempt(workflow, "results_ingestion")
    /\ Goto(p, "results")
    /\ UNCHANGED <<evidenceVars, worldVars, resultVars, local, faults>>

AfterResults == [results |-> "stage_settlement",
                 no_card_results |-> "no_card_early",
                 recheck_results |-> "recheck_early"]

(* _fetch_and_validate_postgame_results: every final game is stored and     *)
(* passes the completeness audit.                                           *)
IngestResults(p) ==
    /\ pc[p] \in DOMAIN AfterResults
    /\ finals' = finals \cup over
    /\ local' = [local EXCEPT ![p].stage = IF pc[p] = "recheck_results"
                                           THEN "early_entry_settlement"
                                           ELSE @]
    /\ Goto(p, AfterResults[pc[p]])
    /\ UNCHANGED <<workflow, evidenceVars, worldVars, earlyPending, faults>>

StageSettlement(p) ==
    /\ pc[p] = "stage_settlement"
    /\ workflow' = AdvanceStage(workflow, "settlement")
    /\ local' = [local EXCEPT ![p].stage = "settlement"]
    /\ Goto(p, "settle")
    /\ UNCHANGED <<evidenceVars, worldVars, resultVars, faults>>

(* settle_moneyline_paper_candidate_run: candidates with a final score.     *)
Settleable(r, o) == {r} \X {o} \X (Candidates(r, o) \cap finals)

(* Mutant: pending candidates are forgotten. *)
NonePending(r, o) == FALSE

(* pending_count of the settlement summary. *)
CandidatesPending(r, o) == ~(Candidates(r, o) \subseteq finals)

(* Mutant: settlements are inserted and not upserted, so that one that is   *)
(* there already is an error.                                               *)
SettleByInsert(p) ==
    LET r == local[p].row.prediction
        o == local[p].row.odds
        new == Settleable(r, o)
    IN /\ pc[p] = "settle"
       /\ IF settled \cap new = {}
          THEN /\ settled' = settled \cup new
               /\ local' = [local EXCEPT
                                ![p].count = CandidatesPending(r, o),
                                ![p].stage = "early_entry_settlement"]
               /\ Goto(p, "early")
          ELSE Goto(p, "read_failure") /\ UNCHANGED <<settled, local>>
       /\ UNCHANGED <<workflow, predictionRun, oddsRun, evaluated, qualified,
                      worldVars, resultVars, faults>>

Settle(p) ==
    LET r == local[p].row.prediction
        o == local[p].row.odds
    IN /\ pc[p] = "settle"
       /\ settled' = settled \cup Settleable(r, o)
       /\ local' = [local EXCEPT
                        ![p].count = CandidatesPending(r, o),
                        ![p].stage = "early_entry_settlement"]
       /\ Goto(p, "early")
       /\ UNCHANGED <<workflow, predictionRun, oddsRun, evaluated, qualified,
                      worldVars, resultVars, faults>>

(* settle_moneyline_early_entry: every cohort of the date.                  *)
SettleEarlyEntry(p) ==
    /\ pc[p] \in {"early", "no_card_early", "recheck_early"}
    /\ earlyPending' = earlyPending \ finals
    /\ \/ /\ pc[p] = "early"
          /\ local' = [local EXCEPT ![p].count = @ \/ earlyPending' # {}]
          /\ Goto(p, "mark_settlement")
       \/ /\ pc[p] = "no_card_early"
          /\ End(p)
       \/ /\ pc[p] = "recheck_early"
          /\ local' = [local EXCEPT ![p].stage = "final_audit"]
          /\ Goto(p, "recheck_audit")
    /\ UNCHANGED <<workflow, evidenceVars, worldVars, finals, faults>>

(* _mark_postgame_settlement_state *)
MarkSettlement(p) ==
    /\ pc[p] = "mark_settlement"
    /\ workflow' = IF local[p].count THEN PostgamePending(workflow)
                                     ELSE SettlementCompleted(workflow)
    /\ local' = [local EXCEPT ![p].stage = IF local[p].count
                                           THEN "results_ingestion"
                                           ELSE "final_audit"]
    /\ Goto(p, "final_audit")
    /\ UNCHANGED <<evidenceVars, worldVars, resultVars, faults>>

FinalAudit(p) ==
    /\ pc[p] \in {"final_audit", "recheck_audit"}
    /\ IF AuditPasses(local[p].row.prediction, local[p].row.odds)
       THEN \/ /\ pc[p] = "final_audit"
               /\ Goto(p, IF local[p].count THEN "finish" ELSE "complete")
               /\ UNCHANGED local
            \/ /\ pc[p] = "recheck_audit"
               /\ End(p)
       ELSE /\ Goto(p, IF pc[p] = "final_audit" THEN "read_failure"
                                               ELSE "mark_failure")
            /\ UNCHANGED local
    /\ UNCHANGED <<workflow, evidenceVars, worldVars, resultVars, faults>>

Complete(p) ==
    /\ pc[p] = "complete"
    /\ workflow' = CompleteWorkflow(workflow)
    /\ Goto(p, "finish")
    /\ UNCHANGED <<evidenceVars, worldVars, resultVars, local, faults>>

-----------------------------------------------------------------------------
(* Failures *)

(* Steps outside any try block, and steps whose handler does not read the   *)
(* stage again.                                                             *)
Raise(p) ==
    IF pc[p] \in {"begin_pregame", "evidence"} \cup NoCardSteps
    THEN End(p)
    ELSE /\ Goto(p, IF pc[p] \in RecheckSteps THEN "mark_failure"
                                              ELSE "read_failure")
         /\ UNCHANGED local

(* A step raises before its transaction commits.                            *)
StepRaises(p) ==
    /\ \/ /\ pc[p] \in {"schedule", "predict", "odds", "evaluate", "settle"}
          /\ Fault({"provider", "db"})
       \/ /\ pc[p] \in {"begin_pregame", "record_prediction",
                        "record_odds", "stage_audit", "pregame_audit",
                        "publish", "finish", "evidence", "begin_postgame",
                        "stage_settlement", "mark_settlement", "final_audit",
                        "complete", "recheck_audit"}
          /\ Fault({"db"})
    /\ Raise(p)
    /\ UNCHANGED <<workflow, evidenceVars, worldVars, resultVars>>

(* Scores of some games are stored before the ingestion fails.              *)
IngestRaises(p) ==
    /\ pc[p] \in DOMAIN AfterResults
    /\ Fault({"provider", "db"})
    /\ \E games \in SUBSET over : finals' = finals \cup games
    /\ Raise(p)
    /\ UNCHANGED <<workflow, evidenceVars, worldVars, earlyPending>>

(* Cohorts settle in transactions of their own: some may have committed.    *)
EarlyEntryRaises(p) ==
    /\ pc[p] \in {"early", "no_card_early", "recheck_early"}
    /\ Fault({"provider", "db"})
    /\ \E games \in SUBSET finals : earlyPending' = earlyPending \ games
    /\ Raise(p)
    /\ UNCHANGED <<workflow, evidenceVars, worldVars, finals>>

(* The handler takes the stage of the row as it is now; if that read fails  *)
(* it keeps its own.                                                        *)
ReadFailureStage(p) ==
    /\ pc[p] = "read_failure"
    /\ \/ /\ local' = [local EXCEPT ![p].stage = workflow.stage]
          /\ UNCHANGED faults
       \/ /\ Fault({"db"})
          /\ UNCHANGED local
    /\ Goto(p, "mark_failure")
    /\ UNCHANGED <<workflow, evidenceVars, worldVars, resultVars>>

(* _record_pregame_failure: its own failure is swallowed.                   *)
MarkFailure(p) ==
    /\ pc[p] = "mark_failure"
    /\ \/ /\ workflow' = FailWorkflow(workflow, local[p].stage)
          /\ UNCHANGED faults
       \/ /\ Fault({"db"})
          /\ UNCHANGED workflow
    /\ End(p)
    /\ UNCHANGED <<evidenceVars, worldVars, resultVars>>

Crash(p) ==
    /\ pc[p] # "idle"
    /\ Fault({"crash"})
    /\ End(p)
    /\ UNCHANGED <<workflow, evidenceVars, worldVars, resultVars>>

-----------------------------------------------------------------------------
(* The world *)

SlateStarts ==
    /\ ~firstPitch
    /\ firstPitch' = TRUE
    /\ UNCHANGED <<workflow, evidenceVars, resultVars, over, pc, local,
                   failing, faults>>

GameEnds(g) ==
    /\ firstPitch
    /\ g \notin over
    /\ over' = over \cup {g}
    /\ UNCHANGED <<workflow, evidenceVars, resultVars, firstPitch, pc, local,
                   failing, faults>>

PregameStep(p) ==
    \/ BeginPregame(p) \/ SyncSchedule(p) \/ CreatePredictionRun(p)
    \/ CompletePredictionRun(p) \/ RecordPrediction(p) \/ ReserveEntryOdds(p)
    \/ CompleteOddsRun(p) \/ RecordOdds(p) \/ Evaluate(p) \/ StageAudit(p)
    \/ AuditPregame(p) \/ Publish(p) \/ Finish(p)

PostgameStep(p) ==
    \/ JudgeEvidence(p) \/ BeginPostgame(p) \/ IngestResults(p)
    \/ StageSettlement(p) \/ Settle(p) \/ SettleEarlyEntry(p)
    \/ MarkSettlement(p) \/ FinalAudit(p) \/ Complete(p)

FailureStep(p) ==
    \/ FailPredictionRun(p) \/ FailOddsRun(p) \/ StepRaises(p)
    \/ IngestRaises(p) \/ EarlyEntryRaises(p) \/ Crash(p)

HandlerStep(p) == ReadFailureStage(p) \/ MarkFailure(p)

SlotNext(p) ==
    \/ StartPregame(p) \/ StartPostgame(p) \/ PregameStep(p)
    \/ PostgameStep(p) \/ FailureStep(p) \/ HandlerStep(p)

Next == \/ \E p \in Slots : SlotNext(p)
        \/ SlateStarts
        \/ \E g \in Games : GameEnds(g)

Spec == Init /\ [][Next]_vars

(* A command that has started runs on until it ends, fails or dies.  No     *)
(* command is ever started for certain, and no game is sure to be played.   *)
Fairness ==
    \A p \in Slots : WF_vars(PregameStep(p) \/ PostgameStep(p) \/ HandlerStep(p))

FairSpec == Spec /\ Fairness

-----------------------------------------------------------------------------
(* Properties *)

(* Every variable has its type; in particular the row never holds a stage   *)
(* outside the CHECK constraint of migration 017.                           *)
TypeOK ==
    /\ workflow \in WorkflowRow
    /\ predictionRun \in [PredictionRuns ->
            {"absent", "running", "failed", "completed", "empty"}]
    /\ oddsRun \in [OddsRuns -> {"absent", "running", "failed", "completed"}]
    /\ evaluated \subseteq PredictionRuns \X OddsRuns
    /\ qualified \subseteq Triples
    /\ settled \subseteq Triples
    /\ earlyPending \subseteq Games
    /\ over \subseteq Games
    /\ finals \subseteq Games
    /\ firstPitch \in BOOLEAN
    /\ pc \in [Slots -> Steps]
    /\ local \in [Slots -> Local]
    /\ failing \in Faults /\ faults \in Nat

(* The run ids linked to the workflow row always name runs that finished,   *)
(* whatever the interleaving of invocations and wherever they crash         *)
(* (record_moneyline_daily_prediction_run, record_moneyline_daily_odds_run).*)
LinkedRunsFinished ==
    /\ workflow.prediction # None =>
            predictionRun[workflow.prediction] \in {"completed", "empty"}
    /\ workflow.odds # None => oddsRun[workflow.odds] = "completed"

(* Once an entry odds run is linked to the day, no retry, no crash and no   *)
(* concurrent invocation ever links another one: the slot reserved by       *)
(* create_ingestion_run protects a row it never mentions.                   *)
OddsLinkFrozen ==
    [][workflow.odds # None => workflow'.odds = workflow.odds]_vars

(* Every evaluation ever stored for the day compares with the entry odds    *)
(* run the row links, whichever of two concurrent pregames evaluated it,    *)
(* from whatever ids it had in memory, and whatever became of the runs      *)
(* either has made: candidates and settlements are of one market.           *)
EvaluatedOnLinkedOdds == \A e \in evaluated : e[2] = workflow.odds

(* A candidate or a settlement always belongs to an evaluated pair of       *)
(* completed runs: no step evaluates or settles evidence still being made.  *)
EvidenceChain ==
    /\ \A t \in qualified \cup settled : <<t[1], t[2]>> \in evaluated
    /\ \A e \in evaluated : /\ predictionRun[e[1]] = "completed"
                            /\ oddsRun[e[2]] = "completed"

(* Providers fail; the database and the process do not.                    *)
OnlyProvidersFail == failing \subseteq {"provider"}

(* Short of a crash or a database outage, a workflow that awaits results    *)
(* names a pair of runs whose evaluations are stored, so that postgame      *)
(* settles the card that was published.                                     *)
PublishedCardEvaluated ==
    OnlyProvidersFail /\ workflow.status = "awaiting_results" =>
        Card(workflow) \in evaluated

(* A completed day has an evaluated card, every candidate of which has a    *)
(* settlement.                                                              *)
CompletedIsSettled ==
    workflow.status = "completed" =>
        /\ Card(workflow) \in evaluated
        /\ Candidates(workflow.prediction, workflow.odds)
            \subseteq SettledGames(workflow.prediction, workflow.odds)

(* A late pregame decides a card again that has settlements, and may        *)
(* withdraw a candidate that is settled (NoExcessSettlements).  Such a day  *)
(* is never completed: the audit only compares how many settlements and     *)
(* candidates there are, postgame settles what is a candidate now, and      *)
(* between the two no withdrawn settlement survives in a completed day, in  *)
(* whatever order pregame and postgame are run again, fail or die.          *)
WithdrawnIsNeverClosed ==
    workflow.status = "completed" => settled \subseteq qualified

(* When postgame reports a day without an official card, no candidate and   *)
(* no settlement of that day exists and the failed row is as it was.        *)
NoCardIsHonest ==
    [][\A p \in Slots :
            pc[p] = "no_card_early" /\ SettleEarlyEntry(p) =>
                /\ workflow.status = "failed" /\ workflow' = workflow
                /\ qualified' = {} /\ settled' = {}]_vars

(* With no crash and no database outage, every run of the day is linked to  *)
(* the workflow, failed, or held by the invocation that will link it: a     *)
(* retry neither duplicates the prediction nor meets a slot nobody owns.    *)
RunsAccounted == OnlyProvidersFail =>
    /\ \A r \in PredictionRuns :
            predictionRun[r] \in {"running", "completed", "empty"} =>
                \/ workflow.prediction = r
                \/ \E p \in Slots : local[p].run = r
    /\ \A o \in OddsRuns :
            oddsRun[o] \in {"running", "completed"} =>
                \/ workflow.odds = o
                \/ \E p \in Slots : local[p].run = o

(* A pregame or postgame attempt that ends in its exception handler leaves  *)
(* the row "failed" (_record_pregame_failure).                              *)
FailureRecorded ==
    [][\A p \in Slots :
            MarkFailure(p) => workflow'.status = "failed"]_vars

(* "Run or safely resume": an idle workflow without an odds link can        *)
(* reserve the entry slot.                                                  *)
ResumeNotStranded ==
    (workflow.odds = None /\ \A p \in Slots : pc[p] = "idle")
        => \A o \in OddsRuns : ~OccupiesSlot(o)

(* Without two invocations at once and with pregame only before the first   *)
(* pitch, the workflow keeps the promise of OfficialCard, through every     *)
(* retry, provider failure, database outage and crash.                      *)
CardOfDay == INSTANCE OfficialCard WITH
    predicted <- workflow.prediction,
    priced <- workflow.odds,
    candidates <- Candidates(workflow.prediction, workflow.odds),
    settled <- SettledGames(workflow.prediction, workflow.odds),
    closed <- workflow.status = "completed"

CardPromise == CardOfDay!Spec

(* The audit's count rule over every pair of runs.                          *)
NoExcessSettlements ==
    \A e \in evaluated :
        Cardinality(SettledGames(e[1], e[2]))
            <= Cardinality(Candidates(e[1], e[2]))

(* "The same date can safely be rerun": once a card was published, one      *)
(* postgame that begins when its candidates and the early entries are       *)
(* played, and meets no failure of its own, completes the day, whatever     *)
(* part of the work earlier commands had done when they failed or died,     *)
(* unless a late pregame has withdrawn a candidate that is settled.         *)
OneCleanPostgame ==
    \A p \in Slots, n \in 0 .. MaxFaults :
        (/\ pc[p] = "begin_postgame" /\ workflow.pregameDone /\ faults = n
         /\ settled \subseteq qualified
         /\ Candidates(workflow.prediction, workflow.odds) \cup earlyPending \subseteq over)
            ~> (workflow.status = "completed" \/ faults > n)

-----------------------------------------------------------------------------
(* The inductive invariant behind LinkedRunsFinished, OddsLinkFrozen,       *)
(* EvidenceChain and EvaluatedOnLinkedOdds                                  *)

Finished(r) == predictionRun[r] \in {"completed", "empty"}

(* Steps that read the prediction id, and steps that read both ids. *)
NeedsPrediction == {"odds", "fetching", "record_odds"}

NeedsCard == {"evaluate", "stage_audit", "pregame_audit", "publish",
              "begin_postgame", "results", "stage_settlement", "settle",
              "early", "mark_settlement", "final_audit", "complete",
              "recheck_results", "recheck_early", "recheck_audit"}

(* The run a slot is making has the status its step expects. *)
RunInHand(p) ==
    /\ pc[p] = "predicting" =>
            /\ local[p].run \in PredictionRuns
            /\ predictionRun[local[p].run] = "running"
    /\ pc[p] = "record_prediction" =>
            local[p].run \in PredictionRuns /\ Finished(local[p].run)
    /\ pc[p] = "fetching" =>
            local[p].run \in OddsRuns /\ oddsRun[local[p].run] = "running"
    /\ pc[p] = "record_odds" =>
            local[p].run \in OddsRuns /\ oddsRun[local[p].run] = "completed"

(* The ids a slot holds name finished runs and are there when needed; the  *)
(* stage an attempt starts at is one the table admits.                      *)
RowInHand(p) ==
    /\ pc[p] = "begin_pregame" => local[p].stage \in Stages
    /\ local[p].row.prediction # None => Finished(local[p].row.prediction)
    /\ local[p].row.odds # None => oddsRun[local[p].row.odds] = "completed"
    /\ pc[p] \in NeedsPrediction => local[p].row.prediction # None
    /\ pc[p] \in NeedsCard => ~MissingLinkage(local[p].row)

(* The partial unique index: one entry run is running or completed. *)
OneLiveEntryRun ==
    \A o1, o2 \in OddsRuns :
        /\ oddsRun[o1] \in {"running", "completed"}
        /\ oddsRun[o2] \in {"running", "completed"}
        => o1 = o2

(* No two slots are making the same run. *)
SoleMaker ==
    \A p, q \in Slots :
        p # q /\ pc[p] = pc[q] /\ pc[p] \in {"predicting", "fetching"}
            => local[p].run # local[q].run

RunsInv ==
    /\ TypeOK
    /\ \A p \in Slots : RunInHand(p) /\ RowInHand(p)
    /\ SoleMaker
    /\ LinkedRunsFinished
    /\ OneLiveEntryRun
    /\ EvidenceChain
=============================================================================
