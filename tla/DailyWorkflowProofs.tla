------------------------- MODULE DailyWorkflowProofs -------------------------
(***************************************************************************)
(* Proofs about the daily workflow for any slate, any run ids, any number  *)
(* of concurrent invocations and any number of failures.                   *)
(***************************************************************************)
EXTENDS DailyWorkflow, TLAPS

-----------------------------------------------------------------------------
(* The row operators *)

(* Every UPDATE of the repository keeps the row well formed.               *)
LEMMA RowTypes ==
    ASSUME NEW w \in WorkflowRow
    PROVE  /\ \A s \in Stages : /\ StartAttempt(w, s) \in WorkflowRow
                                /\ AdvanceStage(w, s) \in WorkflowRow
           /\ \A r \in PredictionRuns : RecordPredictionRun(w, r) \in WorkflowRow
           /\ \A o \in OddsRuns : RecordOddsRun(w, o) \in WorkflowRow
           /\ AwaitResults(w) \in WorkflowRow
           /\ PostgamePending(w) \in WorkflowRow
           /\ SettlementCompleted(w) \in WorkflowRow
           /\ CompleteWorkflow(w) \in WorkflowRow
           /\ \A s : FailWorkflow(w, s) \in WorkflowRow
           /\ RunIds(w) \in WorkflowRow
<1>1. \A s \in Stages : /\ StartAttempt(w, s) \in WorkflowRow
                        /\ AdvanceStage(w, s) \in WorkflowRow
  BY DEF StartAttempt, AdvanceStage, WorkflowRow, Statuses
<1>2. \A r \in PredictionRuns : RecordPredictionRun(w, r) \in WorkflowRow
  BY DEF RecordPredictionRun, WorkflowRow, Stages
<1>3. \A o \in OddsRuns : RecordOddsRun(w, o) \in WorkflowRow
  BY DEF RecordOddsRun, WorkflowRow, Stages
<1>4. AwaitResults(w) \in WorkflowRow /\ PostgamePending(w) \in WorkflowRow
  BY DEF AwaitResults, PostgamePending, WorkflowRow, Statuses, Stages
<1>5. SettlementCompleted(w) \in WorkflowRow /\ CompleteWorkflow(w) \in WorkflowRow
  BY DEF SettlementCompleted, CompleteWorkflow, WorkflowRow, Statuses, Stages
<1>6. \A s : FailWorkflow(w, s) \in WorkflowRow
  BY DEF FailWorkflow, WorkflowRow, Statuses, Stages
<1>7. RunIds(w) \in WorkflowRow
  BY DEF RunIds, NewWorkflow, WorkflowRow, Statuses, Stages
<1> QED BY <1>1, <1>2, <1>3, <1>4, <1>5, <1>6, <1>7

(* Only the two record statements touch a run id, and each only its own.   *)
LEMMA RowLinks ==
    ASSUME NEW w \in WorkflowRow
    PROVE  /\ \A s : /\ StartAttempt(w, s).prediction = w.prediction
                     /\ StartAttempt(w, s).odds = w.odds
                     /\ AdvanceStage(w, s).prediction = w.prediction
                     /\ AdvanceStage(w, s).odds = w.odds
                     /\ FailWorkflow(w, s).prediction = w.prediction
                     /\ FailWorkflow(w, s).odds = w.odds
           /\ \A r : /\ RecordPredictionRun(w, r).prediction = r
                     /\ RecordPredictionRun(w, r).odds = w.odds
                     /\ RecordOddsRun(w, r).prediction = w.prediction
                     /\ RecordOddsRun(w, r).odds = r
           /\ AwaitResults(w).prediction = w.prediction
           /\ AwaitResults(w).odds = w.odds
           /\ PostgamePending(w).prediction = w.prediction
           /\ PostgamePending(w).odds = w.odds
           /\ SettlementCompleted(w).prediction = w.prediction
           /\ SettlementCompleted(w).odds = w.odds
           /\ CompleteWorkflow(w).prediction = w.prediction
           /\ CompleteWorkflow(w).odds = w.odds
           /\ RunIds(w).prediction = w.prediction
           /\ RunIds(w).odds = w.odds
<1>1. \A s : /\ StartAttempt(w, s).prediction = w.prediction
             /\ StartAttempt(w, s).odds = w.odds
             /\ AdvanceStage(w, s).prediction = w.prediction
             /\ AdvanceStage(w, s).odds = w.odds
             /\ FailWorkflow(w, s).prediction = w.prediction
             /\ FailWorkflow(w, s).odds = w.odds
  BY DEF StartAttempt, AdvanceStage, FailWorkflow, WorkflowRow
<1>2. \A r : /\ RecordPredictionRun(w, r).prediction = r
             /\ RecordPredictionRun(w, r).odds = w.odds
             /\ RecordOddsRun(w, r).prediction = w.prediction
             /\ RecordOddsRun(w, r).odds = r
  BY DEF RecordPredictionRun, RecordOddsRun, WorkflowRow
<1>3. /\ AwaitResults(w).prediction = w.prediction
      /\ AwaitResults(w).odds = w.odds
      /\ PostgamePending(w).prediction = w.prediction
      /\ PostgamePending(w).odds = w.odds
  BY DEF AwaitResults, PostgamePending, WorkflowRow
<1>4. /\ SettlementCompleted(w).prediction = w.prediction
      /\ SettlementCompleted(w).odds = w.odds
      /\ CompleteWorkflow(w).prediction = w.prediction
      /\ CompleteWorkflow(w).odds = w.odds
  BY DEF SettlementCompleted, CompleteWorkflow, WorkflowRow
<1>5. RunIds(w).prediction = w.prediction /\ RunIds(w).odds = w.odds
  BY DEF RunIds, NewWorkflow
<1> QED BY <1>1, <1>2, <1>3, <1>4, <1>5

(* What an idle slot holds.                                                 *)
LEMMA IdleType ==
    /\ Idle \in Local
    /\ Idle.row.prediction = None
    /\ Idle.row.odds = None
  BY DEF Idle, Local, NewWorkflow, WorkflowRow, Statuses, Stages, LocalStages

LEMMA StageTypes ==
    /\ \A w \in WorkflowRow : ResumeStage(w) \in Stages
    /\ \A w : FirstPregameStep(w) \in {"schedule", "odds", "evaluate"}
  BY DEF ResumeStage, FirstPregameStep, Stages

-----------------------------------------------------------------------------
(* Type correctness *)

(* What an invocation remembers keeps its type.                            *)
LEMMA LocalTypes ==
    ASSUME local \in [Slots -> Local], NEW p \in Slots
    PROVE  /\ \A s \in LocalStages : [local EXCEPT ![p].stage = s] \in [Slots -> Local]
           /\ \A w \in WorkflowRow, s \in LocalStages :
                 [local EXCEPT ![p].row = w, ![p].stage = s] \in [Slots -> Local]
           /\ \A c \in BOOLEAN : [local EXCEPT ![p].count = c] \in [Slots -> Local]
           /\ \A c \in BOOLEAN, s \in LocalStages :
                 [local EXCEPT ![p].count = c, ![p].stage = s] \in [Slots -> Local]
<1>1. \A s \in LocalStages : [local EXCEPT ![p].stage = s] \in [Slots -> Local]
  BY DEF Local
<1>2. \A w \in WorkflowRow, s \in LocalStages :
         [local EXCEPT ![p].row = w, ![p].stage = s] \in [Slots -> Local]
  BY DEF Local
<1>3. \A c \in BOOLEAN : [local EXCEPT ![p].count = c] \in [Slots -> Local]
  BY DEF Local
<1>4. \A c \in BOOLEAN, s \in LocalStages :
         [local EXCEPT ![p].count = c, ![p].stage = s] \in [Slots -> Local]
  BY DEF Local
<1> QED BY <1>1, <1>2, <1>3, <1>4

LEMMA PregameTypes ==
    ASSUME RunsInv, NEW p \in Slots, StartPregame(p) \/ PregameStep(p)
    PROVE  TypeOK'
<1> USE DEF TypeOK, Goto, evidenceVars, worldVars, resultVars
<1>t. TypeOK /\ RunInHand(p) /\ RowInHand(p)
  BY DEF RunsInv
<1>s. PregameSteps \cup FailureSteps \cup {"idle", "finish"} \subseteq Steps
  BY DEF Steps
<1>w. workflow \in WorkflowRow /\ local[p] \in Local
  BY <1>t
<1>m. local \in [Slots -> Local]
  BY <1>t
<1>1. CASE StartPregame(p)
  <2>1. RunIds(workflow) \in WorkflowRow /\ ResumeStage(workflow) \in LocalStages
    BY <1>w, RowTypes, StageTypes DEF LocalStages
  <2>2. local' \in [Slots -> Local]
    BY <1>1, <1>m, <2>1, LocalTypes, Zenon DEF StartPregame
  <2> QED BY <1>1, <1>t, <1>s, <2>2 DEF StartPregame, PregameSteps
<1>2. CASE BeginPregame(p)
  <2>1. pc' \in [Slots -> Steps]
    BY <1>2, <1>t, <1>s, StageTypes DEF BeginPregame, PregameSteps
  <2>2. workflow' \in WorkflowRow
    BY <1>2, <1>t, <1>w, RowTypes DEF BeginPregame, RowInHand
  <2> QED BY <1>2, <1>t, <2>1, <2>2 DEF BeginPregame
<1>3. CASE SyncSchedule(p)
  <2>1. workflow' \in WorkflowRow
    BY <1>3, <1>w, RowTypes DEF SyncSchedule, Stages
  <2> QED BY <1>3, <1>t, <1>s, <2>1 DEF SyncSchedule, PregameSteps
<1>4. CASE CreatePredictionRun(p)
  <2>1. local' \in [Slots -> Local]
    BY <1>4, <1>t DEF CreatePredictionRun, Local
  <2> QED BY <1>4, <1>t, <1>s, <2>1 DEF CreatePredictionRun, PregameSteps
<1>5. CASE CompletePredictionRun(p)
  BY <1>5, <1>t, <1>s DEF CompletePredictionRun, PregameSteps
<1>6. CASE RecordPrediction(p)
  <2>1. local[p].run \in PredictionRuns
    BY <1>6, <1>t DEF RecordPrediction, RunInHand
  <2>2. workflow' \in WorkflowRow
    BY <1>6, <1>w, <2>1, RowTypes DEF RecordPrediction
  <2>3. [local[p].row EXCEPT !.prediction = local[p].run] \in WorkflowRow
    BY <1>w, <2>1 DEF Local, WorkflowRow
  <2>s. {"odds_ingestion", "evaluation"} \subseteq LocalStages
    BY DEF LocalStages, Stages
  <2>c. PICK w \in WorkflowRow, s \in LocalStages :
            local' = [local EXCEPT ![p].row = w, ![p].stage = s]
    BY <1>6, <2>3, <2>s, Zenon DEF RecordPrediction
  <2>4. local' \in [Slots -> Local]
    BY <1>m, <2>c, LocalTypes
  <2> QED BY <1>6, <1>t, <1>s, <2>2, <2>4 DEF RecordPrediction, PregameSteps
<1>7. CASE ReserveEntryOdds(p)
  <2>1. local' \in [Slots -> Local]
    BY <1>7, <1>t DEF ReserveEntryOdds, Local
  <2> QED BY <1>7, <1>t, <1>s, <2>1
          DEF ReserveEntryOdds, PregameSteps, FailureSteps
<1>8. CASE CompleteOddsRun(p)
  BY <1>8, <1>t, <1>s DEF CompleteOddsRun, PregameSteps
<1>9. CASE RecordOdds(p)
  <2>1. local[p].run \in OddsRuns
    BY <1>9, <1>t DEF RecordOdds, RunInHand
  <2>2. workflow' \in WorkflowRow
    BY <1>9, <1>w, <2>1, RowTypes DEF RecordOdds
  <2>3. [local[p].row EXCEPT !.odds = local[p].run] \in WorkflowRow
    BY <1>w, <2>1 DEF Local, WorkflowRow
  <2>c. PICK w \in WorkflowRow :
            local' = [local EXCEPT ![p].row = w, ![p].stage = "evaluation"]
    BY <1>9, <2>3, Zenon DEF RecordOdds
  <2>s. "evaluation" \in LocalStages
    BY DEF LocalStages, Stages
  <2>4. local' \in [Slots -> Local]
    BY <1>m, <2>c, <2>s, LocalTypes
  <2> QED BY <1>9, <1>t, <1>s, <2>2, <2>4 DEF RecordOdds, PregameSteps
<1>10. CASE Evaluate(p)
  <2>1. local[p].row.prediction \in PredictionRuns /\ local[p].row.odds \in OddsRuns
    BY <1>10, <1>t, <1>w
       DEF Evaluate, RowInHand, NeedsCard, MissingLinkage, Local, WorkflowRow
  <2>2. evaluated' \subseteq PredictionRuns \X OddsRuns
    BY <1>10, <1>t, <2>1 DEF Evaluate
  <2>3. qualified' \subseteq Triples
    BY <1>10, <1>t, <2>1 DEF Evaluate, Requalify, Triples
  <2>s. "pregame_audit" \in LocalStages
    BY DEF LocalStages, Stages
  <2>c. local' = local \/ local' = [local EXCEPT ![p].stage = "pregame_audit"]
    BY <1>10, Zenon DEF Evaluate
  <2>4. local' \in [Slots -> Local]
    <3>1. [local EXCEPT ![p].stage = "pregame_audit"] \in [Slots -> Local]
      BY <1>m, <2>s, LocalTypes, Zenon
    <3> QED BY <1>m, <2>c, <3>1, Zenon
  <2> QED BY <1>10, <1>t, <1>s, <2>2, <2>3, <2>4
          DEF Evaluate, PregameSteps, FailureSteps
<1>11. CASE StageAudit(p)
  <2>1. workflow' \in WorkflowRow
    BY <1>11, <1>w, RowTypes DEF StageAudit, Stages
  <2> QED BY <1>11, <1>t, <1>s, <2>1 DEF StageAudit, PregameSteps
<1>12. CASE AuditPregame(p)
  <2>c. PICK c \in BOOLEAN : local' = local \/ local' = [local EXCEPT ![p].count = c]
    BY <1>12, Zenon DEF AuditPregame
  <2>1. local' \in [Slots -> Local]
    <3>1. [local EXCEPT ![p].count = c] \in [Slots -> Local]
      BY <1>m, <2>c, LocalTypes, Zenon
    <3> QED BY <1>m, <2>c, <3>1, Zenon
  <2> QED BY <1>12, <1>t, <1>s, <2>1 DEF AuditPregame, PregameSteps, FailureSteps
<1>13. CASE Publish(p)
  <2>1. workflow' \in WorkflowRow
    BY <1>13, <1>w, RowTypes DEF Publish
  <2> QED BY <1>13, <1>t, <1>s, <2>1 DEF Publish
<1>14. CASE Finish(p)
  BY <1>14, <1>t, <1>s, IdleType DEF Finish, End
<1> QED
  BY <1>1, <1>2, <1>3, <1>4, <1>5, <1>6, <1>7, <1>8, <1>9, <1>10, <1>11,
     <1>12, <1>13, <1>14 DEF PregameStep

LEMMA PostgameTypes ==
    ASSUME RunsInv, NEW p \in Slots, StartPostgame(p) \/ PostgameStep(p)
    PROVE  TypeOK'
<1> USE DEF TypeOK, Goto, evidenceVars, worldVars, resultVars
<1>t. TypeOK /\ RunInHand(p) /\ RowInHand(p)
  BY DEF RunsInv
<1>s. PostgameSteps \cup NoCardSteps \cup RecheckSteps \cup FailureSteps
        \cup {"idle", "finish"} \subseteq Steps
  BY DEF Steps
<1>w. workflow \in WorkflowRow /\ local[p] \in Local /\ local[p].row \in WorkflowRow
  BY <1>t DEF Local
<1>m. local \in [Slots -> Local]
  BY <1>t
<1>l. {"results_ingestion", "settlement", "early_entry_settlement", "final_audit", "complete"}
        \subseteq LocalStages
  BY DEF LocalStages, Stages
<1>1. CASE StartPostgame(p)
  <2>1. RunIds(workflow) \in WorkflowRow
    BY <1>w, RowTypes
  <2>2. local' \in [Slots -> Local]
    <3>1. PICK w \in WorkflowRow :
              local' = [local EXCEPT ![p].row = w, ![p].stage = "results_ingestion"]
      BY <1>1, <1>w, <2>1, Zenon DEF StartPostgame
    <3>2. "results_ingestion" \in LocalStages
      BY <1>l
    <3> QED BY <1>m, <3>1, <3>2, LocalTypes
  <2> QED BY <1>1, <1>t, <1>s, <2>2 DEF StartPostgame, PostgameSteps, RecheckSteps
<1>2. CASE JudgeEvidence(p)
  <2>1. RunIds(local[p].row) \in WorkflowRow
    BY <1>w, RowTypes
  <2>2. local' \in [Slots -> Local]
    BY <1>2, <1>t, <2>1, IdleType DEF JudgeEvidence, End, Local
  <2> QED BY <1>2, <1>t, <1>s, <2>2 DEF JudgeEvidence, End, PostgameSteps, NoCardSteps
<1>3. CASE BeginPostgame(p)
  <2>1. workflow' \in WorkflowRow
    BY <1>3, <1>w, RowTypes DEF BeginPostgame, Stages
  <2> QED BY <1>3, <1>t, <1>s, <2>1 DEF BeginPostgame, PostgameSteps
<1>4. CASE IngestResults(p)
  <2>1. local' \in [Slots -> Local]
    BY <1>4, <1>t DEF IngestResults, Local, LocalStages
  <2>2. AfterResults[pc[p]] \in Steps
    BY <1>4, <1>s DEF IngestResults, AfterResults, PostgameSteps, NoCardSteps, RecheckSteps
  <2> QED BY <1>4, <1>t, <2>1, <2>2 DEF IngestResults
<1>5. CASE StageSettlement(p)
  <2>1. workflow' \in WorkflowRow
    BY <1>5, <1>w, RowTypes DEF StageSettlement, Stages
  <2>2. local' \in [Slots -> Local]
    BY <1>5, <1>t DEF StageSettlement, Local, LocalStages, Stages
  <2> QED BY <1>5, <1>t, <1>s, <2>1, <2>2 DEF StageSettlement, PostgameSteps
<1>6. CASE Settle(p)
  <2>1. local[p].row.prediction \in PredictionRuns /\ local[p].row.odds \in OddsRuns
    BY <1>6, <1>t, <1>w DEF Settle, RowInHand, NeedsCard, MissingLinkage, WorkflowRow
  <2>2. settled' \subseteq Triples
    BY <1>6, <1>t, <2>1 DEF Settle, Settleable, Candidates, Triples
  <2>c. PICK c \in BOOLEAN :
            local' = [local EXCEPT ![p].count = c,
                                   ![p].stage = "early_entry_settlement"]
    BY <1>6, Zenon DEF Settle, CandidatesPending
  <2>s. "early_entry_settlement" \in LocalStages
    BY <1>l
  <2>3. local' \in [Slots -> Local]
    BY <1>m, <2>c, <2>s, LocalTypes
  <2> QED BY <1>6, <1>t, <1>s, <2>2, <2>3 DEF Settle, PostgameSteps
<1>7. CASE SettleEarlyEntry(p)
  <2>c. PICK c \in BOOLEAN :
            \/ local' = [local EXCEPT ![p].count = c]
            \/ local' = [local EXCEPT ![p] = Idle]
            \/ local' = [local EXCEPT ![p].stage = "final_audit"]
    <3>1. (local[p].count \/ earlyPending' # {}) \in BOOLEAN
      OBVIOUS
    <3> QED BY <1>7, <3>1, Zenon DEF SettleEarlyEntry, End
  <2>s. "final_audit" \in LocalStages /\ [local EXCEPT ![p] = Idle] \in [Slots -> Local]
    BY <1>t, <1>l, IdleType
  <2>1. local' \in [Slots -> Local]
    <3>1. /\ [local EXCEPT ![p].count = c] \in [Slots -> Local]
          /\ [local EXCEPT ![p].stage = "final_audit"] \in [Slots -> Local]
      BY <1>m, <2>c, <2>s, LocalTypes, Zenon
    <3> QED BY <2>c, <2>s, <3>1, Zenon
  <2>2. pc' \in [Slots -> Steps]
    BY <1>7, <1>t, <1>s DEF SettleEarlyEntry, End, PostgameSteps, RecheckSteps
  <2> QED BY <1>7, <1>t, <2>1, <2>2 DEF SettleEarlyEntry
<1>8. CASE MarkSettlement(p)
  <2>1. workflow' \in WorkflowRow
    BY <1>8, <1>w, RowTypes DEF MarkSettlement
  <2>2. local' \in [Slots -> Local]
    BY <1>8, <1>t DEF MarkSettlement, Local, LocalStages, Stages
  <2> QED BY <1>8, <1>t, <1>s, <2>1, <2>2 DEF MarkSettlement, PostgameSteps
<1>9. CASE FinalAudit(p)
  <2>1. local' \in [Slots -> Local]
    BY <1>9, <1>t, IdleType DEF FinalAudit, End
  <2>2. pc' \in [Slots -> Steps]
    BY <1>9, <1>t, <1>s DEF FinalAudit, End, PostgameSteps, FailureSteps
  <2> QED BY <1>9, <1>t, <2>1, <2>2 DEF FinalAudit
<1>10. CASE Complete(p)
  <2>1. workflow' \in WorkflowRow
    BY <1>10, <1>w, RowTypes DEF Complete
  <2> QED BY <1>10, <1>t, <1>s, <2>1 DEF Complete
<1> QED
  BY <1>1, <1>2, <1>3, <1>4, <1>5, <1>6, <1>7, <1>8, <1>9, <1>10
     DEF PostgameStep

LEMMA FailureTypes ==
    ASSUME WorkflowAssumption, RunsInv, NEW p \in Slots,
           FailureStep(p) \/ HandlerStep(p)
    PROVE  TypeOK'
<1> USE DEF TypeOK, Goto, evidenceVars, worldVars, resultVars
<1>t. TypeOK
  BY DEF RunsInv
<1>s. FailureSteps \cup {"idle"} \subseteq Steps
  BY DEF Steps
<1>f. ASSUME NEW kinds, Fault(kinds) PROVE faults' \in Nat
  BY <1>t, <1>f DEF Fault
<1>r. ASSUME Raise(p) PROVE pc' \in [Slots -> Steps] /\ local' \in [Slots -> Local]
  BY <1>t, <1>s, <1>r, IdleType DEF Raise, End, FailureSteps
<1>1. CASE FailPredictionRun(p)
  BY <1>1, <1>t, <1>s, <1>f DEF FailPredictionRun, FailureSteps
<1>2. CASE FailOddsRun(p)
  BY <1>2, <1>t, <1>s, <1>f DEF FailOddsRun, FailureSteps
<1>3. CASE StepRaises(p)
  BY <1>3, <1>t, <1>f, <1>r DEF StepRaises
<1>4. CASE IngestRaises(p)
  BY <1>4, <1>t, <1>f, <1>r DEF IngestRaises
<1>5. CASE EarlyEntryRaises(p)
  BY <1>5, <1>t, <1>f, <1>r DEF EarlyEntryRaises
<1>6. CASE Crash(p)
  BY <1>6, <1>t, <1>s, <1>f, IdleType DEF Crash, End
<1>7. CASE ReadFailureStage(p)
  <2>1. workflow.stage \in LocalStages
    BY <1>t DEF WorkflowRow, LocalStages
  <2>2. local' \in [Slots -> Local]
    BY <1>7, <1>t, <2>1 DEF ReadFailureStage, Local
  <2> QED BY <1>7, <1>t, <1>s, <1>f, <2>2 DEF ReadFailureStage, FailureSteps
<1>8. CASE MarkFailure(p)
  <2>1. workflow' \in WorkflowRow
    BY <1>8, <1>t, RowTypes DEF MarkFailure
  <2> QED BY <1>8, <1>t, <1>s, <1>f, <2>1, IdleType DEF MarkFailure, End
<1> QED
  BY <1>1, <1>2, <1>3, <1>4, <1>5, <1>6, <1>7, <1>8 DEF FailureStep, HandlerStep

LEMMA WorldTypes ==
    ASSUME RunsInv, SlateStarts \/ (\E g \in Games : GameEnds(g))
    PROVE  TypeOK'
  BY DEF RunsInv, TypeOK, SlateStarts, GameEnds, evidenceVars, resultVars

LEMMA TypeStep ==
    ASSUME WorkflowAssumption, RunsInv, [Next]_vars
    PROVE  TypeOK'
<1>1. ASSUME NEW p \in Slots, SlotNext(p) PROVE TypeOK'
  BY <1>1, PregameTypes, PostgameTypes, FailureTypes DEF SlotNext
<1>2. CASE UNCHANGED vars
  BY <1>2 DEF RunsInv, TypeOK, vars, evidenceVars, worldVars, resultVars
<1> QED
  BY <1>1, <1>2, WorldTypes DEF Next

-----------------------------------------------------------------------------
(* Runs and links *)

(* A step that leaves the stored evidence alone and changes one slot keeps *)
(* RunsInv when that slot and the row satisfy their part of it.             *)
LEMMA QuietStep ==
    ASSUME RunsInv, TypeOK', NEW p \in Slots, UNCHANGED evidenceVars,
           \A q \in Slots \ {p} : pc'[q] = pc[q] /\ local'[q] = local[q],
           pc'[p] \notin {"predicting", "fetching"},
           RunInHand(p)', RowInHand(p)', LinkedRunsFinished'
    PROVE  RunsInv'
<1>1. \A q \in Slots : (RunInHand(q) /\ RowInHand(q))'
  <2>1. ASSUME NEW q \in Slots \ {p} PROVE (RunInHand(q) /\ RowInHand(q))'
    BY <2>1 DEF RunsInv, RunInHand, RowInHand, Finished, evidenceVars
  <2> QED BY <2>1
<1>2. SoleMaker'
  BY DEF RunsInv, SoleMaker
<1>3. OneLiveEntryRun' /\ EvidenceChain'
  BY DEF RunsInv, OneLiveEntryRun, EvidenceChain, evidenceVars
<1> QED
  BY <1>1, <1>2, <1>3 DEF RunsInv

LEMMA QuietPregame ==
    ASSUME RunsInv, TypeOK', NEW p \in Slots,
           \/ StartPregame(p) \/ BeginPregame(p) \/ SyncSchedule(p)
           \/ RecordPrediction(p) \/ RecordOdds(p) \/ StageAudit(p)
           \/ AuditPregame(p) \/ Publish(p) \/ Finish(p)
    PROVE  RunsInv'
<1> USE DEF Goto
<1>t. /\ TypeOK /\ RunInHand(p) /\ RowInHand(p) /\ LinkedRunsFinished
      /\ local[p] \in Local /\ workflow \in WorkflowRow
      /\ pc \in [Slots -> Steps] /\ local \in [Slots -> Local]
  BY DEF RunsInv, TypeOK
<1>r. local[p].row \in WorkflowRow
  BY <1>t DEF Local
<1>1. CASE StartPregame(p)
  <2>1. LinkedRunsFinished'
    BY <1>1, <1>t DEF StartPregame, LinkedRunsFinished, evidenceVars
  <2>2. /\ pc'[p] = "begin_pregame" /\ local'[p].stage \in Stages
        /\ local'[p].row = RunIds(workflow)
        /\ \A q \in Slots \ {p} : pc'[q] = pc[q] /\ local'[q] = local[q]
    BY <1>1, <1>t, StageTypes DEF StartPregame, Local
  <2>3. UNCHANGED evidenceVars
    BY <1>1 DEF StartPregame
  <2>4. RunInHand(p)' /\ RowInHand(p)'
    BY <1>t, <2>2, <2>3, RowLinks
       DEF RunInHand, RowInHand, LinkedRunsFinished, Finished,
           NeedsPrediction, NeedsCard, evidenceVars
  <2> QED BY <2>1, <2>2, <2>3, <2>4, QuietStep
<1>2. CASE BeginPregame(p)
  <2>1. StartAttempt(workflow, local[p].stage).prediction = workflow.prediction
        /\ StartAttempt(workflow, local[p].stage).odds = workflow.odds
    BY <1>t, RowLinks
  <2>2. LinkedRunsFinished' /\ UNCHANGED evidenceVars
    BY <1>2, <1>t, <2>1 DEF BeginPregame, LinkedRunsFinished, evidenceVars
  <2>3. /\ pc'[p] = FirstPregameStep(local[p].row) /\ local' = local
        /\ \A q \in Slots \ {p} : pc'[q] = pc[q]
    BY <1>2, <1>t DEF BeginPregame
  <2>4. RunInHand(p)' /\ RowInHand(p)'
    BY <1>t, <2>2, <2>3
       DEF RunInHand, RowInHand, Finished, FirstPregameStep, MissingLinkage,
           NeedsPrediction, NeedsCard, evidenceVars
  <2> QED BY <2>2, <2>3, <2>4, StageTypes, QuietStep
<1>3. CASE SyncSchedule(p)
  <2>1. LinkedRunsFinished' /\ UNCHANGED evidenceVars
    BY <1>3, <1>t, RowLinks DEF SyncSchedule, LinkedRunsFinished, evidenceVars
  <2>2. /\ pc'[p] = "predict" /\ local' = local
        /\ \A q \in Slots \ {p} : pc'[q] = pc[q]
    BY <1>3, <1>t DEF SyncSchedule
  <2>3. RunInHand(p)' /\ RowInHand(p)'
    BY <1>t, <2>1, <2>2
       DEF RunInHand, RowInHand, Finished, NeedsPrediction, NeedsCard, evidenceVars
  <2> QED BY <2>1, <2>2, <2>3, QuietStep
<1>4. CASE RecordPrediction(p)
  <2>1. local[p].run \in PredictionRuns /\ Finished(local[p].run)
    BY <1>4, <1>t DEF RecordPrediction, RunInHand
  <2>2. UNCHANGED evidenceVars
    BY <1>4 DEF RecordPrediction
  <2>3. /\ workflow'.prediction = local[p].run
        /\ workflow'.odds = workflow.odds
    BY <1>4, <1>t, RowLinks DEF RecordPrediction
  <2>4. LinkedRunsFinished'
    BY <1>t, <2>1, <2>2, <2>3 DEF LinkedRunsFinished, Finished, evidenceVars
  <2>5. /\ pc'[p] = IF local[p].row.odds = None THEN "odds" ELSE "evaluate"
        /\ local'[p].row.prediction = local[p].run
        /\ local'[p].row.odds = local[p].row.odds
        /\ \A q \in Slots \ {p} : pc'[q] = pc[q] /\ local'[q] = local[q]
    <3>1. PICK s :
            local' = [local EXCEPT
                        ![p].row = [local[p].row EXCEPT !.prediction = local[p].run],
                        ![p].stage = s]
      BY <1>4, Zenon DEF RecordPrediction
    <3>2. local'[p].row = [local[p].row EXCEPT !.prediction = local[p].run]
      BY <1>t, <3>1 DEF Local
    <3> QED BY <1>4, <1>t, <1>r, <3>1, <3>2 DEF RecordPrediction, WorkflowRow
  <2>6. RunInHand(p)' /\ RowInHand(p)'
    BY <1>t, <2>1, <2>2, <2>5, WorkflowAssumption
       DEF RunInHand, RowInHand, Finished, MissingLinkage,
           NeedsPrediction, NeedsCard, evidenceVars
  <2> QED BY <2>2, <2>4, <2>5, <2>6, QuietStep
<1>5. CASE RecordOdds(p)
  <2>1. local[p].run \in OddsRuns /\ oddsRun[local[p].run] = "completed"
    BY <1>5, <1>t DEF RecordOdds, RunInHand
  <2>2. UNCHANGED evidenceVars
    BY <1>5 DEF RecordOdds
  <2>3. /\ workflow'.prediction = workflow.prediction
        /\ workflow'.odds = local[p].run
    BY <1>5, <1>t, RowLinks DEF RecordOdds
  <2>4. LinkedRunsFinished'
    BY <1>t, <2>1, <2>2, <2>3 DEF LinkedRunsFinished, evidenceVars
  <2>5. /\ pc'[p] = "evaluate"
        /\ local'[p].row.prediction = local[p].row.prediction
        /\ local'[p].row.odds = local[p].run
        /\ \A q \in Slots \ {p} : pc'[q] = pc[q] /\ local'[q] = local[q]
    <3>1. local' = [local EXCEPT
                        ![p].row = [local[p].row EXCEPT !.odds = local[p].run],
                        ![p].stage = "evaluation"]
      BY <1>5, Zenon DEF RecordOdds
    <3>2. local'[p].row = [local[p].row EXCEPT !.odds = local[p].run]
      BY <1>t, <3>1 DEF Local
    <3> QED BY <1>5, <1>t, <1>r, <3>1, <3>2 DEF RecordOdds, WorkflowRow
  <2>6. local[p].row.prediction # None
    BY <1>5, <1>t DEF RecordOdds, RowInHand, NeedsPrediction
  <2>7. RunInHand(p)' /\ RowInHand(p)'
    BY <1>t, <2>1, <2>2, <2>5, <2>6, WorkflowAssumption
       DEF RunInHand, RowInHand, Finished, MissingLinkage,
           NeedsPrediction, NeedsCard, evidenceVars
  <2> QED BY <2>2, <2>4, <2>5, <2>7, QuietStep
<1>6. CASE StageAudit(p) \/ Publish(p)
  <2>1. LinkedRunsFinished' /\ UNCHANGED evidenceVars
    BY <1>6, <1>t, RowLinks DEF StageAudit, Publish, LinkedRunsFinished, evidenceVars
  <2>2. /\ pc'[p] \in {"pregame_audit", "finish"} /\ local' = local
        /\ pc[p] \in NeedsCard
        /\ \A q \in Slots \ {p} : pc'[q] = pc[q]
    BY <1>6, <1>t DEF StageAudit, Publish, NeedsCard
  <2>3. RunInHand(p)' /\ RowInHand(p)'
    BY <1>t, <2>1, <2>2
       DEF RunInHand, RowInHand, Finished, NeedsPrediction, MissingLinkage,
           evidenceVars
  <2> QED BY <2>1, <2>2, <2>3, QuietStep
<1>7. CASE AuditPregame(p)
  <2>1. LinkedRunsFinished' /\ UNCHANGED evidenceVars
    BY <1>7, <1>t DEF AuditPregame, LinkedRunsFinished, evidenceVars
  <2>c. PICK c : local' \in {local, [local EXCEPT ![p].count = c]}
    BY <1>7, Zenon DEF AuditPregame
  <2>2. /\ pc'[p] \in {"publish", "read_failure"} /\ local'[p].row = local[p].row
        /\ pc[p] \in NeedsCard
        /\ \A q \in Slots \ {p} : pc'[q] = pc[q] /\ local'[q] = local[q]
    BY <1>7, <1>t, <2>c DEF AuditPregame, NeedsCard, Local
  <2>3. RunInHand(p)' /\ RowInHand(p)'
    BY <1>t, <2>1, <2>2
       DEF RunInHand, RowInHand, Finished, NeedsPrediction, MissingLinkage,
           evidenceVars
  <2> QED BY <2>1, <2>2, <2>3, QuietStep
<1>8. CASE Finish(p)
  <2>1. LinkedRunsFinished' /\ UNCHANGED evidenceVars
    BY <1>8, <1>t DEF Finish, LinkedRunsFinished, evidenceVars
  <2>2. /\ pc'[p] = "idle" /\ local'[p] = Idle
        /\ \A q \in Slots \ {p} : pc'[q] = pc[q] /\ local'[q] = local[q]
    BY <1>8, <1>t DEF Finish, End
  <2>3. RunInHand(p)' /\ RowInHand(p)'
    BY <2>2, IdleType DEF RunInHand, RowInHand, NeedsPrediction, NeedsCard
  <2> QED BY <2>1, <2>2, <2>3, QuietStep
<1> QED
  BY <1>1, <1>2, <1>3, <1>4, <1>5, <1>6, <1>7, <1>8

LEMMA QuietPostgame ==
    ASSUME RunsInv, TypeOK', NEW p \in Slots,
           \/ StartPostgame(p) \/ JudgeEvidence(p) \/ BeginPostgame(p)
           \/ IngestResults(p) \/ StageSettlement(p) \/ SettleEarlyEntry(p)
           \/ MarkSettlement(p) \/ FinalAudit(p) \/ Complete(p)
    PROVE  RunsInv'
<1> USE DEF Goto
<1>t. /\ TypeOK /\ RunInHand(p) /\ RowInHand(p) /\ LinkedRunsFinished
      /\ local[p] \in Local /\ workflow \in WorkflowRow
      /\ pc \in [Slots -> Steps] /\ local \in [Slots -> Local]
  BY DEF RunsInv, TypeOK
<1>r. local[p].row \in WorkflowRow
  BY <1>t DEF Local
<1>1. CASE StartPostgame(p)
  <2>1. LinkedRunsFinished' /\ UNCHANGED evidenceVars
    BY <1>1, <1>t DEF StartPostgame, LinkedRunsFinished, evidenceVars
  <2>2. /\ pc'[p] \in {"evidence", "recheck_results", "begin_postgame"}
        /\ pc'[p] # "evidence" => ~MissingLinkage(workflow)
        /\ local'[p].row \in {workflow, RunIds(workflow)}
        /\ \A q \in Slots \ {p} : pc'[q] = pc[q] /\ local'[q] = local[q]
    BY <1>1, <1>t DEF StartPostgame, Local
  <2>3. RunInHand(p)' /\ RowInHand(p)'
    BY <1>t, <2>1, <2>2, RowLinks
       DEF RunInHand, RowInHand, LinkedRunsFinished, Finished, MissingLinkage,
           NeedsPrediction, NeedsCard, evidenceVars
  <2> QED BY <2>1, <2>2, <2>3, QuietStep
<1>2. CASE JudgeEvidence(p)
  <2>1. LinkedRunsFinished' /\ UNCHANGED evidenceVars
    BY <1>2, <1>t DEF JudgeEvidence, LinkedRunsFinished, evidenceVars
  <2>2. \A q \in Slots \ {p} : pc'[q] = pc[q] /\ local'[q] = local[q]
    BY <1>2, <1>t DEF JudgeEvidence, End
  <2>3. CASE Refuses(local[p].row)
    <3>1. pc'[p] = "idle" /\ local'[p] = Idle
      BY <1>2, <1>t, <2>3 DEF JudgeEvidence, End
    <3>2. RunInHand(p)' /\ RowInHand(p)'
      BY <3>1, IdleType DEF RunInHand, RowInHand, NeedsPrediction, NeedsCard
    <3> QED BY <2>1, <2>2, <3>1, <3>2, QuietStep
  <2>4. CASE ~Refuses(local[p].row)
    <3>1. /\ pc'[p] \in {"no_card_results", "begin_postgame"}
          /\ pc'[p] = "begin_postgame" => ~IsNoCard(local[p].row)
          /\ local'[p].row = RunIds(local[p].row)
      BY <1>2, <1>t, <2>4 DEF JudgeEvidence, Local
    <3>2. pc'[p] = "begin_postgame" => ~MissingLinkage(local[p].row)
      BY <2>4, <3>1 DEF Refuses
    <3>3. RunInHand(p)' /\ RowInHand(p)'
      BY <1>t, <1>r, <2>1, <3>1, <3>2, RowLinks
         DEF RunInHand, RowInHand, Finished, MissingLinkage,
             NeedsPrediction, NeedsCard, evidenceVars
    <3> QED BY <2>1, <2>2, <3>1, <3>3, QuietStep
  <2> QED BY <2>3, <2>4
<1>3. CASE BeginPostgame(p) \/ StageSettlement(p) \/ MarkSettlement(p) \/ Complete(p)
  <2>1. /\ workflow'.prediction = workflow.prediction
        /\ workflow'.odds = workflow.odds
    BY <1>3, <1>t, RowLinks DEF BeginPostgame, StageSettlement, MarkSettlement, Complete
  <2>2. LinkedRunsFinished' /\ UNCHANGED evidenceVars
    BY <1>3, <1>t, <2>1 DEF BeginPostgame, StageSettlement, MarkSettlement, Complete,
          LinkedRunsFinished, evidenceVars
  <2>3. /\ pc'[p] \in {"results", "settle", "final_audit", "finish"}
        /\ pc[p] \in NeedsCard
        /\ local'[p].row = local[p].row
        /\ \A q \in Slots \ {p} : pc'[q] = pc[q] /\ local'[q] = local[q]
    BY <1>3, <1>t DEF BeginPostgame, StageSettlement, MarkSettlement, Complete,
          NeedsCard, Local
  <2>4. RunInHand(p)' /\ RowInHand(p)'
    BY <1>t, <2>2, <2>3
       DEF RunInHand, RowInHand, Finished, NeedsPrediction, MissingLinkage,
           evidenceVars
  <2> QED BY <2>2, <2>3, <2>4, QuietStep
<1>4. CASE IngestResults(p)
  <2>1. LinkedRunsFinished' /\ UNCHANGED evidenceVars
    BY <1>4, <1>t DEF IngestResults, LinkedRunsFinished, evidenceVars
  <2>2. /\ pc'[p] \in {"stage_settlement", "no_card_early", "recheck_early"}
        /\ pc'[p] # "no_card_early" => pc[p] \in NeedsCard
        /\ local'[p].row = local[p].row
        /\ \A q \in Slots \ {p} : pc'[q] = pc[q] /\ local'[q] = local[q]
    BY <1>4, <1>t DEF IngestResults, AfterResults, NeedsCard, Local
  <2>3. RunInHand(p)' /\ RowInHand(p)'
    BY <1>t, <2>1, <2>2
       DEF RunInHand, RowInHand, Finished, NeedsPrediction, NeedsCard, MissingLinkage,
           evidenceVars
  <2> QED BY <2>1, <2>2, <2>3, QuietStep
<1>5. CASE SettleEarlyEntry(p)
  <2>1. LinkedRunsFinished' /\ UNCHANGED evidenceVars
    BY <1>5, <1>t DEF SettleEarlyEntry, LinkedRunsFinished, evidenceVars
  <2>2. \A q \in Slots \ {p} : pc'[q] = pc[q] /\ local'[q] = local[q]
    BY <1>5, <1>t DEF SettleEarlyEntry, End
  <2>3. \/ pc'[p] = "idle" /\ local'[p] = Idle
        \/ /\ pc'[p] \in {"mark_settlement", "recheck_audit"}
           /\ pc[p] \in NeedsCard
           /\ local'[p].row = local[p].row
    <3>1. \/ /\ pc[p] = "early"
             /\ \E c : local' = [local EXCEPT ![p].count = c]
             /\ pc' = [pc EXCEPT ![p] = "mark_settlement"]
          \/ /\ local' = [local EXCEPT ![p] = Idle]
             /\ pc' = [pc EXCEPT ![p] = "idle"]
          \/ /\ pc[p] = "recheck_early"
             /\ local' = [local EXCEPT ![p].stage = "final_audit"]
             /\ pc' = [pc EXCEPT ![p] = "recheck_audit"]
      BY <1>5, Zenon DEF SettleEarlyEntry, End
    <3> QED BY <1>t, <3>1 DEF NeedsCard, Local
  <2>4. RunInHand(p)' /\ RowInHand(p)'
    BY <1>t, <2>1, <2>3, IdleType
       DEF RunInHand, RowInHand, Finished, NeedsPrediction, NeedsCard, MissingLinkage,
           evidenceVars
  <2> QED BY <2>1, <2>2, <2>3, <2>4, QuietStep
<1>6. CASE FinalAudit(p)
  <2>1. LinkedRunsFinished' /\ UNCHANGED evidenceVars
    BY <1>6, <1>t DEF FinalAudit, LinkedRunsFinished, evidenceVars
  <2>2. \A q \in Slots \ {p} : pc'[q] = pc[q] /\ local'[q] = local[q]
    BY <1>6, <1>t DEF FinalAudit, End
  <2>3. \/ pc'[p] = "idle" /\ local'[p] = Idle
        \/ /\ pc'[p] \in {"finish", "complete", "read_failure", "mark_failure"}
           /\ pc[p] \in NeedsCard
           /\ local' = local
    BY <1>6, <1>t DEF FinalAudit, End, NeedsCard
  <2>4. RunInHand(p)' /\ RowInHand(p)'
    BY <1>t, <2>1, <2>3, IdleType
       DEF RunInHand, RowInHand, Finished, NeedsPrediction, NeedsCard, MissingLinkage,
           evidenceVars
  <2> QED BY <2>1, <2>2, <2>3, <2>4, QuietStep
<1> QED
  BY <1>1, <1>2, <1>3, <1>4, <1>5, <1>6

LEMMA QuietFailure ==
    ASSUME RunsInv, TypeOK', NEW p \in Slots,
           \/ StepRaises(p) \/ IngestRaises(p) \/ EarlyEntryRaises(p)
           \/ Crash(p) \/ ReadFailureStage(p) \/ MarkFailure(p)
    PROVE  RunsInv'
<1> USE DEF Goto
<1>t. /\ TypeOK /\ RunInHand(p) /\ RowInHand(p) /\ LinkedRunsFinished
      /\ local[p] \in Local /\ workflow \in WorkflowRow
      /\ pc \in [Slots -> Steps] /\ local \in [Slots -> Local]
  BY DEF RunsInv, TypeOK
<1>1. UNCHANGED evidenceVars
  BY DEF StepRaises, IngestRaises, EarlyEntryRaises, Crash, ReadFailureStage, MarkFailure
<1>2. workflow'.prediction = workflow.prediction /\ workflow'.odds = workflow.odds
  BY <1>t, RowLinks
     DEF StepRaises, IngestRaises, EarlyEntryRaises, Crash, ReadFailureStage, MarkFailure
<1>3. LinkedRunsFinished'
  BY <1>t, <1>1, <1>2 DEF LinkedRunsFinished, evidenceVars
<1>4. /\ \A q \in Slots \ {p} : pc'[q] = pc[q] /\ local'[q] = local[q]
      /\ pc'[p] \in {"idle", "read_failure", "mark_failure"}
      /\ local'[p] = Idle \/ local'[p].row = local[p].row
  <2>1. ASSUME Raise(p)
        PROVE  /\ \A q \in Slots \ {p} : pc'[q] = pc[q] /\ local'[q] = local[q]
               /\ pc'[p] \in {"idle", "read_failure", "mark_failure"}
               /\ local'[p] = Idle \/ local'[p].row = local[p].row
    BY <1>t, <2>1 DEF Raise, End
  <2>2. CASE Crash(p) \/ MarkFailure(p)
    BY <1>t, <2>2 DEF Crash, MarkFailure, End
  <2>3. CASE ReadFailureStage(p)
    BY <1>t, <2>3 DEF ReadFailureStage, Local
  <2> QED
    BY <2>1, <2>2, <2>3 DEF StepRaises, IngestRaises, EarlyEntryRaises
<1>5. RunInHand(p)' /\ RowInHand(p)'
  BY <1>t, <1>1, <1>4, IdleType
     DEF RunInHand, RowInHand, Finished, NeedsPrediction, NeedsCard, evidenceVars
<1> QED
  BY <1>1, <1>3, <1>4, <1>5, QuietStep

(* A step that makes or ends a run: the rows of the other slots and the    *)
(* runs they make are as before.                                            *)
LEMMA SlotStep ==
    ASSUME RunsInv, NEW p \in Slots,
           \A q \in Slots \ {p} : pc'[q] = pc[q] /\ local'[q] = local[q],
           \A r \in PredictionRuns :
                Finished(r) => predictionRun'[r] = predictionRun[r],
           \A o \in OddsRuns :
                oddsRun[o] = "completed" => oddsRun'[o] = "completed",
           \A q \in Slots \ {p} : pc[q] = "predicting" =>
                predictionRun'[local[q].run] = predictionRun[local[q].run],
           \A q \in Slots \ {p} : pc[q] = "fetching" =>
                oddsRun'[local[q].run] = oddsRun[local[q].run],
           RunInHand(p)', RowInHand(p)'
    PROVE  \A q \in Slots : (RunInHand(q) /\ RowInHand(q))'
<1>1. ASSUME NEW q \in Slots \ {p} PROVE (RunInHand(q) /\ RowInHand(q))'
  <2>1. local[q].row \in WorkflowRow
    BY DEF RunsInv, TypeOK, Local
  <2> QED BY <1>1, <2>1 DEF RunsInv, RunInHand, RowInHand, Finished, WorkflowRow
<1> QED BY <1>1

LEMMA PredictionRunSteps ==
    ASSUME RunsInv, TypeOK', NEW p \in Slots,
           CreatePredictionRun(p) \/ CompletePredictionRun(p) \/ FailPredictionRun(p)
    PROVE  RunsInv'
<1> USE DEF Goto
<1>t. /\ TypeOK /\ RunInHand(p) /\ RowInHand(p) /\ LinkedRunsFinished /\ SoleMaker
      /\ EvidenceChain /\ OneLiveEntryRun
      /\ local[p] \in Local /\ workflow \in WorkflowRow
      /\ pc \in [Slots -> Steps] /\ local \in [Slots -> Local]
      /\ \A q \in Slots : RunInHand(q)
  BY DEF RunsInv, TypeOK
<1>o. UNCHANGED <<workflow, oddsRun, evaluated, qualified, settled>>
  BY DEF CreatePredictionRun, CompletePredictionRun, FailPredictionRun
<1>1. PICK r \in PredictionRuns, s \in {"running", "completed", "empty", "failed"} :
        /\ predictionRun' \in {predictionRun, [predictionRun EXCEPT ![r] = s]}
        /\ \/ predictionRun[r] = "absent" /\ s = "running" /\ pc'[p] = "predicting"
              /\ local'[p].run = r /\ predictionRun'[r] = s
           \/ pc[p] = "predicting" /\ local[p].run = r /\ local' = local
              /\ \/ /\ s \in {"completed", "empty"} /\ pc'[p] = "record_prediction"
                    /\ predictionRun'[r] = s
                 \/ s = "failed" /\ pc'[p] = "read_failure"
        /\ local'[p].row = local[p].row
        /\ \A q \in Slots \ {p} : pc'[q] = pc[q] /\ local'[q] = local[q]
  <2>1. CASE CreatePredictionRun(p)
    <3>1. PICK r \in PredictionRuns :
            /\ predictionRun[r] = "absent"
            /\ predictionRun' = [predictionRun EXCEPT ![r] = "running"]
            /\ local' = [local EXCEPT ![p].run = r]
      BY <2>1 DEF CreatePredictionRun
    <3>2. predictionRun'[r] = "running"
      BY <1>t, <3>1 DEF TypeOK
    <3>3. /\ pc'[p] = "predicting"
          /\ \A q \in Slots \ {p} : pc'[q] = pc[q] /\ local'[q] = local[q]
          /\ local'[p].run = r /\ local'[p].row = local[p].row
      BY <1>t, <2>1, <3>1 DEF CreatePredictionRun, Local
    <3> QED BY <3>1, <3>2, <3>3
  <2>2. CASE CompletePredictionRun(p)
    BY <1>t, <2>2 DEF CompletePredictionRun, TypeOK, RunInHand
  <2>3. CASE FailPredictionRun(p)
    BY <1>t, <2>3 DEF FailPredictionRun, TypeOK, RunInHand
  <2> QED BY <2>1, <2>2, <2>3
<1>2. ~Finished(r)
  BY <1>t, <1>1 DEF RunInHand, Finished
<1>3. \A x \in PredictionRuns : Finished(x) => predictionRun'[x] = predictionRun[x]
  BY <1>t, <1>1, <1>2 DEF Finished, TypeOK
<1>4. \A q \in Slots \ {p} : pc[q] = "predicting" =>
            predictionRun'[local[q].run] = predictionRun[local[q].run]
  BY <1>t, <1>1 DEF RunInHand, SoleMaker, TypeOK
<1>5. RunInHand(p)' /\ RowInHand(p)'
  BY <1>t, <1>o, <1>1, <1>3
     DEF RunInHand, RowInHand, Finished, NeedsPrediction, NeedsCard, Local, WorkflowRow
<1>6. \A q \in Slots : (RunInHand(q) /\ RowInHand(q))'
  BY <1>o, <1>1, <1>3, <1>4, <1>5, SlotStep
<1>7. SoleMaker'
  BY <1>t, <1>1 DEF SoleMaker, RunInHand
<1>8. LinkedRunsFinished' /\ OneLiveEntryRun'
  BY <1>t, <1>o, <1>3 DEF LinkedRunsFinished, OneLiveEntryRun, Finished, WorkflowRow
<1>9. EvidenceChain'
  BY <1>t, <1>o, <1>3 DEF EvidenceChain, Finished, TypeOK
<1> QED
  BY <1>6, <1>7, <1>8, <1>9 DEF RunsInv

LEMMA OddsRunSteps ==
    ASSUME RunsInv, TypeOK', NEW p \in Slots,
           ReserveEntryOdds(p) \/ CompleteOddsRun(p) \/ FailOddsRun(p)
    PROVE  RunsInv'
<1> USE DEF Goto
<1>t. /\ TypeOK /\ RunInHand(p) /\ RowInHand(p) /\ LinkedRunsFinished /\ SoleMaker
      /\ EvidenceChain /\ OneLiveEntryRun
      /\ local[p] \in Local /\ workflow \in WorkflowRow
      /\ pc \in [Slots -> Steps] /\ local \in [Slots -> Local]
      /\ \A q \in Slots : RunInHand(q)
  BY DEF RunsInv, TypeOK
<1>o. UNCHANGED <<workflow, predictionRun, evaluated, qualified, settled>>
  BY DEF ReserveEntryOdds, CompleteOddsRun, FailOddsRun
<1>c. CASE UNCHANGED oddsRun /\ pc'[p] = "read_failure" /\ local' = local
           /\ \A q \in Slots \ {p} : pc'[q] = pc[q]
  <2>1. UNCHANGED evidenceVars /\ LinkedRunsFinished'
    BY <1>c, <1>o, <1>t DEF evidenceVars, LinkedRunsFinished
  <2>2. RunInHand(p)' /\ RowInHand(p)'
    BY <1>c, <1>o, <1>t DEF RunInHand, RowInHand, Finished, NeedsPrediction, NeedsCard
  <2> QED BY <1>c, <2>1, <2>2, QuietStep
<1>d. CASE ~(UNCHANGED oddsRun /\ pc'[p] = "read_failure" /\ local' = local
             /\ \A q \in Slots \ {p} : pc'[q] = pc[q])
  <2>1. PICK o \in OddsRuns, s \in {"running", "completed", "failed"} :
          /\ oddsRun' = [oddsRun EXCEPT ![o] = s]
          /\ \/ oddsRun[o] = "absent" /\ s = "running" /\ pc'[p] = "fetching"
                /\ local'[p].run = o /\ \A x \in OddsRuns : ~OccupiesSlot(x)
             \/ pc[p] = "fetching" /\ local[p].run = o /\ local' = local
                /\ \/ s = "completed" /\ pc'[p] = "record_odds"
                   \/ s = "failed" /\ pc'[p] = "read_failure"
          /\ local'[p].row = local[p].row
          /\ pc[p] \in NeedsPrediction
          /\ \A q \in Slots \ {p} : pc'[q] = pc[q] /\ local'[q] = local[q]
    <3>1. CASE ReserveEntryOdds(p)
      BY <1>t, <1>d, <3>1 DEF ReserveEntryOdds, TypeOK, Local, NeedsPrediction
    <3>2. CASE CompleteOddsRun(p)
      BY <1>t, <3>2 DEF CompleteOddsRun, TypeOK, RunInHand, NeedsPrediction
    <3>3. CASE FailOddsRun(p)
      BY <1>t, <1>d, <3>3 DEF FailOddsRun, TypeOK, RunInHand, NeedsPrediction
    <3> QED BY <3>1, <3>2, <3>3
  <2>2. oddsRun[o] # "completed" /\ oddsRun \in [OddsRuns ->
            {"absent", "running", "failed", "completed"}]
    BY <1>t, <2>1 DEF RunInHand, TypeOK
  <2>3. \A x \in OddsRuns : oddsRun[x] = "completed" => oddsRun'[x] = "completed"
    BY <2>1, <2>2
  <2>4. \A q \in Slots \ {p} : pc[q] = "fetching" =>
            oddsRun'[local[q].run] = oddsRun[local[q].run]
    BY <1>t, <2>1, <2>2 DEF RunInHand, SoleMaker
  <2>5. RunInHand(p)' /\ RowInHand(p)'
    BY <1>t, <1>o, <2>1, <2>2, <2>3
       DEF RunInHand, RowInHand, Finished, NeedsPrediction, NeedsCard, Local, WorkflowRow
  <2>6. \A q \in Slots : (RunInHand(q) /\ RowInHand(q))'
    BY <1>o, <2>1, <2>3, <2>4, <2>5, SlotStep
  <2>7. SoleMaker'
    BY <1>t, <2>1 DEF SoleMaker, RunInHand
  <2>8. LinkedRunsFinished'
    BY <1>t, <1>o, <2>3 DEF LinkedRunsFinished, WorkflowRow
  <2>9. OneLiveEntryRun'
    BY <1>t, <2>1, <2>2 DEF OneLiveEntryRun, OccupiesSlot, RunInHand
  <2>10. EvidenceChain'
    BY <1>t, <1>o, <2>3 DEF EvidenceChain, TypeOK
  <2> QED BY <2>6, <2>7, <2>8, <2>9, <2>10 DEF RunsInv
<1> QED BY <1>c, <1>d

(* Evaluation and settlement add evidence of a finished pair of runs.       *)
LEMMA EvidenceSteps ==
    ASSUME RunsInv, TypeOK', NEW p \in Slots, Evaluate(p) \/ Settle(p)
    PROVE  RunsInv'
<1> USE DEF Goto
<1>t. /\ TypeOK /\ RunInHand(p) /\ RowInHand(p) /\ LinkedRunsFinished /\ SoleMaker
      /\ EvidenceChain /\ OneLiveEntryRun
      /\ local[p] \in Local /\ pc \in [Slots -> Steps] /\ local \in [Slots -> Local]
  BY DEF RunsInv, TypeOK
<1>o. UNCHANGED <<workflow, predictionRun, oddsRun>>
  BY DEF Evaluate, Settle
<1>1. /\ \A q \in Slots \ {p} : pc'[q] = pc[q] /\ local'[q] = local[q]
      /\ pc'[p] \in {"stage_audit", "read_failure", "early"}
      /\ local'[p].row = local[p].row
      /\ pc[p] \in NeedsCard
  <2>1. CASE Evaluate(p)
    BY <1>t, <2>1 DEF Evaluate, NeedsCard, Local
  <2>2. CASE Settle(p)
    <3>1. PICK c : local' = [local EXCEPT ![p].count = c,
                                          ![p].stage = "early_entry_settlement"]
      BY <2>2, Zenon DEF Settle
    <3> QED BY <1>t, <2>2, <3>1 DEF Settle, NeedsCard, Local
  <2> QED BY <2>1, <2>2
<1>2. RunInHand(p)' /\ RowInHand(p)'
  BY <1>t, <1>o, <1>1
     DEF RunInHand, RowInHand, Finished, NeedsPrediction, MissingLinkage
<1>3. \A q \in Slots : (RunInHand(q) /\ RowInHand(q))'
  BY <1>o, <1>1, <1>2, SlotStep
<1>4. SoleMaker' /\ LinkedRunsFinished' /\ OneLiveEntryRun'
  BY <1>t, <1>o, <1>1 DEF SoleMaker, LinkedRunsFinished, OneLiveEntryRun
<1>5. EvidenceChain'
  <2>1. CASE Evaluate(p)
    BY <1>t, <1>o, <2>1 DEF Evaluate, Evaluable, Requalify, EvidenceChain
  <2>2. CASE Settle(p)
    <3>1. \A t \in settled' \ settled : t \in qualified
      BY <2>2 DEF Settle, Settleable, Candidates
    <3>2. UNCHANGED <<evaluated, qualified>>
      BY <2>2 DEF Settle
    <3> QED BY <1>t, <1>o, <3>1, <3>2 DEF EvidenceChain
  <2> QED BY <2>1, <2>2
<1> QED
  BY <1>3, <1>4, <1>5 DEF RunsInv

-----------------------------------------------------------------------------
(* Theorems *)

LEMMA RunsInit == Init => RunsInv
<1> SUFFICES ASSUME Init PROVE RunsInv
  OBVIOUS
<1>1. TypeOK
  <2>1. NewWorkflow \in WorkflowRow
    BY DEF NewWorkflow, WorkflowRow, Statuses, Stages
  <2>2. "idle" \in Steps
    BY DEF Steps
  <2> QED BY <2>1, <2>2, IdleType DEF Init, TypeOK
<1>2. \A p \in Slots : RunInHand(p) /\ RowInHand(p)
  BY IdleType DEF Init, RunInHand, RowInHand, NeedsPrediction, NeedsCard
<1>3. SoleMaker /\ LinkedRunsFinished /\ OneLiveEntryRun /\ EvidenceChain
  BY DEF Init, SoleMaker, LinkedRunsFinished, OneLiveEntryRun, EvidenceChain,
         NewWorkflow
<1> QED
  BY <1>1, <1>2, <1>3 DEF RunsInv

LEMMA RunsStep == RunsInv /\ [Next]_vars => RunsInv'
<1> SUFFICES ASSUME RunsInv, [Next]_vars PROVE RunsInv'
  OBVIOUS
<1>1. TypeOK'
  BY TypeStep, WorkflowAssumption
<1>2. ASSUME NEW p \in Slots, SlotNext(p) PROVE RunsInv'
  BY <1>1, <1>2, QuietPregame, QuietPostgame, QuietFailure, PredictionRunSteps,
     OddsRunSteps, EvidenceSteps
     DEF SlotNext, PregameStep, PostgameStep, FailureStep, HandlerStep
<1>3. CASE \/ SlateStarts \/ (\E g \in Games : GameEnds(g)) \/ UNCHANGED vars
  <2>1. UNCHANGED <<workflow, evidenceVars, pc, local>>
    BY <1>3 DEF SlateStarts, GameEnds, vars
  <2> QED
    BY <1>1, <2>1 DEF RunsInv, RunInHand, RowInHand, Finished, SoleMaker,
       LinkedRunsFinished, OneLiveEntryRun, EvidenceChain, evidenceVars
<1> QED
  BY <1>2, <1>3 DEF Next

(* RunsInv is an invariant of the daily workflow, for any number of         *)
(* concurrent invocations of run_moneyline_daily_pregame and                *)
(* run_moneyline_daily_postgame, failing and crashing at any step.          *)
THEOREM RunsInvariant == Spec => []RunsInv
  BY RunsInit, RunsStep, PTL DEF Spec

(* Type correctness of the row, the evidence and every invocation: in       *)
(* particular no statement ever stores a stage the table rejects.           *)
THEOREM TypeCorrect == Spec => []TypeOK
<1>1. RunsInv => TypeOK
  BY DEF RunsInv
<1> QED BY <1>1, RunsInvariant, PTL

(* The ids on the workflow row always name finished runs                    *)
(* (_run_schedule_and_prediction, _run_odds_ingestion).                     *)
THEOREM LinksAreFinished == Spec => []LinkedRunsFinished
<1>1. RunsInv => LinkedRunsFinished
  BY DEF RunsInv
<1> QED BY <1>1, RunsInvariant, PTL

(* Candidates and settlements only ever hang on evaluated pairs of          *)
(* completed runs (evaluate_moneyline_prediction_run).                      *)
THEOREM EvidenceIsChained == Spec => []EvidenceChain
<1>1. RunsInv => EvidenceChain
  BY DEF RunsInv
<1> QED BY <1>1, RunsInvariant, PTL

LEMMA OddsLinkStep ==
    RunsInv /\ [Next]_vars =>
        (workflow.odds # None => workflow'.odds = workflow.odds)
<1> SUFFICES ASSUME RunsInv, [Next]_vars, workflow.odds # None
             PROVE  workflow'.odds = workflow.odds
  OBVIOUS
<1>t. /\ workflow \in WorkflowRow /\ LinkedRunsFinished /\ OneLiveEntryRun
      /\ \A p \in Slots : RunInHand(p)
  BY DEF RunsInv, TypeOK
<1>1. ASSUME NEW p \in Slots, RecordOdds(p) PROVE workflow'.odds = workflow.odds
  <2>1. local[p].run \in OddsRuns /\ oddsRun[local[p].run] = "completed"
    BY <1>1, <1>t DEF RecordOdds, RunInHand
  <2>2. workflow.odds \in OddsRuns /\ oddsRun[workflow.odds] = "completed"
    BY <1>t DEF LinkedRunsFinished, WorkflowRow
  <2>3. local[p].run = workflow.odds
    BY <1>t, <2>1, <2>2 DEF OneLiveEntryRun
  <2> QED BY <1>1, <1>t, <2>3, RowLinks DEF RecordOdds
<1>2. ASSUME NEW p \in Slots, PregameStep(p), ~RecordOdds(p)
      PROVE  workflow'.odds = workflow.odds
  BY <1>2, <1>t, RowLinks
     DEF PregameStep, BeginPregame, SyncSchedule, CreatePredictionRun,
         CompletePredictionRun, RecordPrediction, ReserveEntryOdds,
         CompleteOddsRun, Evaluate, StageAudit, AuditPregame, Publish, Finish
<1>3. ASSUME NEW p \in Slots, PostgameStep(p) PROVE workflow'.odds = workflow.odds
  BY <1>3, <1>t, RowLinks
     DEF PostgameStep, JudgeEvidence, BeginPostgame, IngestResults,
         StageSettlement, Settle, SettleEarlyEntry, MarkSettlement, FinalAudit,
         Complete
<1>4. ASSUME NEW p \in Slots, FailureStep(p) \/ HandlerStep(p)
      PROVE  workflow'.odds = workflow.odds
  BY <1>4, <1>t, RowLinks
     DEF FailureStep, HandlerStep, FailPredictionRun, FailOddsRun, StepRaises,
         IngestRaises, EarlyEntryRaises, Crash, ReadFailureStage, MarkFailure
<1>5. ASSUME NEW p \in Slots, StartPregame(p) \/ StartPostgame(p)
      PROVE  workflow'.odds = workflow.odds
  BY <1>5 DEF StartPregame, StartPostgame
<1>6. CASE \/ SlateStarts \/ (\E g \in Games : GameEnds(g)) \/ UNCHANGED vars
  BY <1>6 DEF SlateStarts, GameEnds, vars
<1> QED
  BY <1>1, <1>2, <1>3, <1>4, <1>5, <1>6 DEF Next, SlotNext

(* A linked entry odds run is never replaced: record_moneyline_daily_odds_run*)
(* overwrites the column without a condition, and the slot it never mentions *)
(* is what makes a second, different id impossible.                         *)
THEOREM OddsLinkNeverMoves == Spec => OddsLinkFrozen
  BY RunsInvariant, OddsLinkStep, PTL DEF Spec, OddsLinkFrozen

(* Who holds an entry run, or has evaluated with one, finds the row linked. *)
OddsAreLinked ==
    /\ evaluated # {} => workflow.odds # None
    /\ \A p \in Slots : local[p].row.odds # None => workflow.odds # None

(* Where an invocation has its odds id from.                                *)
LEMMA RowInHandSteps ==
    ASSUME RunsInv, NEW p \in Slots, SlotNext(p), NEW q \in Slots
    PROVE  \/ local'[q].row.odds \in {local[q].row.odds, None, workflow.odds}
           \/ RecordOdds(p) /\ workflow'.odds # None
<1>t. /\ workflow \in WorkflowRow /\ local \in [Slots -> Local] /\ local[p] \in Local
      /\ local[p].row \in WorkflowRow
  BY DEF RunsInv, TypeOK, Local
<1>1. CASE RecordOdds(p)
  <2>1. local[p].run \in OddsRuns
    BY <1>1 DEF RecordOdds, RunsInv, RunInHand
  <2> QED BY <1>1, <1>t, <2>1, RowLinks, WorkflowAssumption DEF RecordOdds
<1>2. CASE StartPregame(p) \/ StartPostgame(p)
  BY <1>2, <1>t, RowLinks DEF StartPregame, StartPostgame, Local
<1>3. CASE RecordPrediction(p)
  BY <1>3, <1>t DEF RecordPrediction, Local, WorkflowRow
<1>4. CASE PregameStep(p) /\ ~RecordOdds(p) /\ ~RecordPrediction(p)
  BY <1>4, <1>t, IdleType
     DEF PregameStep, BeginPregame, SyncSchedule, CreatePredictionRun, CompletePredictionRun,
         ReserveEntryOdds, CompleteOddsRun, Evaluate, StageAudit, AuditPregame, Publish, Finish,
         End, Local
<1>5. CASE PostgameStep(p)
  <2>1. CASE JudgeEvidence(p)
    BY <2>1, <1>t, RowLinks, IdleType DEF JudgeEvidence, End, Local
  <2>2. CASE BeginPostgame(p) \/ IngestResults(p) \/ StageSettlement(p) \/ Settle(p)
    BY <2>2, <1>t DEF BeginPostgame, IngestResults, StageSettlement, Settle, Local
  <2>3. CASE SettleEarlyEntry(p)
    BY <2>3, <1>t, IdleType DEF SettleEarlyEntry, End, Local
  <2>4. CASE MarkSettlement(p) \/ FinalAudit(p) \/ Complete(p)
    BY <2>4, <1>t, IdleType DEF MarkSettlement, FinalAudit, Complete, End, Local
  <2> QED BY <1>5, <2>1, <2>2, <2>3, <2>4 DEF PostgameStep
<1>6. CASE FailureStep(p) \/ HandlerStep(p)
  BY <1>6, <1>t, IdleType
     DEF FailureStep, HandlerStep, FailPredictionRun, FailOddsRun, StepRaises,
         IngestRaises, EarlyEntryRaises, Crash, ReadFailureStage, MarkFailure, Raise, End, Local
<1> QED BY <1>1, <1>2, <1>3, <1>4, <1>5, <1>6 DEF SlotNext

LEMMA OddsAreLinkedStep ==
    RunsInv /\ OddsAreLinked /\ [Next]_vars => OddsAreLinked'
<1> SUFFICES ASSUME RunsInv, OddsAreLinked, [Next]_vars PROVE OddsAreLinked'
  OBVIOUS
<1>1. workflow.odds # None => workflow'.odds # None
  BY OddsLinkStep
<1>2. ASSUME NEW p \in Slots, SlotNext(p) PROVE OddsAreLinked'
  <2>1. \A q \in Slots : local'[q].row.odds # None => workflow'.odds # None
    BY <1>1, <1>2, RowInHandSteps DEF OddsAreLinked
  <2>2. CASE UNCHANGED evaluated
    BY <1>1, <2>1, <2>2 DEF OddsAreLinked
  <2>3. CASE Evaluate(p)
    <3>1. local[p].row.odds # None
      BY <2>3 DEF Evaluate, RunsInv, RowInHand, NeedsCard, MissingLinkage
    <3> QED BY <1>1, <2>1, <3>1 DEF OddsAreLinked
  <2>4. UNCHANGED evaluated \/ Evaluate(p)
    BY <1>2
       DEF SlotNext, StartPregame, StartPostgame, PregameStep, BeginPregame, SyncSchedule,
           CreatePredictionRun, CompletePredictionRun, RecordPrediction, ReserveEntryOdds,
           CompleteOddsRun, RecordOdds, StageAudit, AuditPregame, Publish, Finish, PostgameStep,
           JudgeEvidence, BeginPostgame, IngestResults, StageSettlement, Settle,
           SettleEarlyEntry, MarkSettlement, FinalAudit, Complete, FailureStep, HandlerStep,
           FailPredictionRun, FailOddsRun, StepRaises, IngestRaises, EarlyEntryRaises, Crash,
           ReadFailureStage, MarkFailure, evidenceVars
  <2> QED BY <2>2, <2>3, <2>4
<1>3. CASE \/ SlateStarts \/ (\E g \in Games : GameEnds(g)) \/ UNCHANGED vars
  BY <1>3 DEF SlateStarts, GameEnds, vars, evidenceVars, OddsAreLinked
<1> QED BY <1>2, <1>3 DEF Next

(* Whatever two overlapping pregames held in memory when they evaluated,    *)
(* every stored evaluation compares with the entry odds run the row links:  *)
(* the row names the one live run from before the first evaluation on       *)
(* (evaluate_moneyline_prediction_run, _run_odds_ingestion).                *)
THEOREM EvaluationsUseLinkedOdds == Spec => []EvaluatedOnLinkedOdds
<1>1. Init => OddsAreLinked
  BY IdleType DEF Init, OddsAreLinked
<1>2. RunsInv /\ OddsAreLinked => EvaluatedOnLinkedOdds
  <2> SUFFICES ASSUME RunsInv, OddsAreLinked, NEW e \in evaluated PROVE e[2] = workflow.odds
    BY DEF EvaluatedOnLinkedOdds
  <2>1. e[2] \in OddsRuns /\ oddsRun[e[2]] = "completed"
    BY DEF RunsInv, TypeOK, EvidenceChain
  <2>2. workflow.odds \in OddsRuns /\ oddsRun[workflow.odds] = "completed"
    BY DEF OddsAreLinked, RunsInv, TypeOK, WorkflowRow, LinkedRunsFinished
  <2> QED BY <2>1, <2>2 DEF RunsInv, OneLiveEntryRun
<1> QED BY <1>1, <1>2, OddsAreLinkedStep, RunsInvariant, PTL DEF Spec
=============================================================================
