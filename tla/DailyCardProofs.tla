--------------------------- MODULE DailyCardProofs ---------------------------
(***************************************************************************)
(* Proofs about the official card of a day: what holds when one invocation *)
(* runs at a time, as Task Scheduler's "do not start a new instance" and   *)
(* an operator who waits for the first command provide, for any slate, any *)
(* run ids, any order of pregames and postgames, and any number of         *)
(* failures, crashes and outages.  Each theorem names what else it needs.  *)
(***************************************************************************)
EXTENDS DailyWorkflowProofs, FiniteSetTheorems

(* One invocation at a time.                                               *)
OneSlot == \A p, q \in Slots : p = q

-----------------------------------------------------------------------------
(* The inductive invariant.                                                *)

CardCandidates == Candidates(workflow.prediction, workflow.odds)
CardSettled == SettledGames(workflow.prediction, workflow.odds)
StartedRuns == {r \in PredictionRuns : predictionRun[r] # "absent"}

CardIsSettled ==
    /\ Card(workflow) \in evaluated
    /\ CardCandidates \subseteq CardSettled
    /\ settled \subseteq qualified

Predicting == {"schedule", "predict", "predicting", "record_prediction"}
Pricing == {"odds", "fetching", "record_odds"}
Settling == {"begin_postgame", "results", "stage_settlement", "settle", "early",
             "mark_settlement", "final_audit", "complete"}

(* What the invocation read at its start is still so, and what its step    *)
(* relies on has not been undone.                                          *)
InStep(p) ==
    /\ pc[p] # "idle" => /\ local[p].row.prediction = workflow.prediction
                         /\ local[p].row.odds = workflow.odds
    /\ pc[p] = "evidence" => /\ local[p].row = workflow
                             /\ workflow.status = "failed" \/ MissingLinkage(workflow)
    /\ pc[p] \in PregameSteps \ {"begin_pregame"} => workflow.status = "running"
    /\ pc[p] \in Predicting => workflow.prediction = None
    /\ pc[p] \in Pricing => workflow.odds = None

(* The counts an invocation carries from one transaction to the next.      *)
Counted(p) ==
    /\ pc[p] = "publish" => /\ Card(workflow) \in evaluated
                            /\ ~local[p].count => /\ CardCandidates = {}
                                                  /\ settled \subseteq qualified
    /\ pc[p] \in Settling => workflow.status # "completed"
    /\ pc[p] \in {"early", "mark_settlement", "final_audit", "complete"} /\ ~local[p].count =>
          CardCandidates \subseteq CardSettled
    /\ pc[p] = "complete" => /\ ~local[p].count /\ Card(workflow) \in evaluated
                             /\ settled \subseteq qualified
    /\ pc[p] \in NoCardSteps => /\ workflow.status = "failed"
                                /\ qualified = {} /\ settled = {}

DayInv ==
    /\ evaluated \subseteq {Card(workflow)}
    /\ workflow.prediction = None => workflow.odds = None
    /\ workflow.status = "completed" => CardIsSettled
    /\ IsFiniteSet(StartedRuns)

SerialInv == DayInv /\ \A p \in Slots : InStep(p) /\ Counted(p)

-----------------------------------------------------------------------------
(* Frames.                                                                 *)

LEMMA RowStatuses ==
    ASSUME NEW w \in WorkflowRow
    PROVE  /\ \A s : /\ StartAttempt(w, s).status = "running"
                     /\ AdvanceStage(w, s).status = w.status
                     /\ FailWorkflow(w, s).status \in {"failed", w.status}
           /\ \A r : /\ RecordPredictionRun(w, r).status = w.status
                     /\ RecordOddsRun(w, r).status = w.status
           /\ AwaitResults(w).status = "awaiting_results"
           /\ PostgamePending(w).status = "awaiting_results"
           /\ SettlementCompleted(w).status = w.status
           /\ CompleteWorkflow(w).status = "completed"
<1>1. \A s : /\ StartAttempt(w, s).status = "running"
             /\ AdvanceStage(w, s).status = w.status
             /\ FailWorkflow(w, s).status \in {"failed", w.status}
  BY DEF StartAttempt, AdvanceStage, FailWorkflow, WorkflowRow
<1>2. \A r : /\ RecordPredictionRun(w, r).status = w.status
             /\ RecordOddsRun(w, r).status = w.status
  BY DEF RecordPredictionRun, RecordOddsRun, WorkflowRow
<1>3. /\ AwaitResults(w).status = "awaiting_results"
      /\ PostgamePending(w).status = "awaiting_results"
      /\ SettlementCompleted(w).status = w.status
      /\ CompleteWorkflow(w).status = "completed"
  BY DEF AwaitResults, PostgamePending, SettlementCompleted, CompleteWorkflow, WorkflowRow
<1> QED BY <1>1, <1>2, <1>3

LEMMA SlotTypes ==
    ASSUME RunsInv, NEW p \in Slots
    PROVE  /\ workflow \in WorkflowRow /\ local \in [Slots -> Local] /\ pc \in [Slots -> Steps]
           /\ local[p] \in Local /\ local[p].row \in WorkflowRow /\ local[p].count \in BOOLEAN
BY DEF RunsInv, TypeOK, Local

(* The card and its evidence stay.                                         *)
CardStays ==
    /\ workflow'.prediction = workflow.prediction /\ workflow'.odds = workflow.odds
    /\ UNCHANGED <<evaluated, qualified, settled>>

LEMMA CardStaysFacts ==
    ASSUME CardStays
    PROVE  /\ Card(workflow)' = Card(workflow)
           /\ CardCandidates' = CardCandidates /\ CardSettled' = CardSettled
           /\ CardIsSettled' <=> CardIsSettled
BY DEF CardStays, Card, CardCandidates, CardSettled, Candidates, SettledGames, CardIsSettled

(* A step that leaves the evidence of the card where it is.                *)
LEMMA QuietDay ==
    ASSUME DayInv, CardStays,
           workflow'.status = "completed" => workflow.status = "completed" \/ CardIsSettled,
           UNCHANGED predictionRun \/ IsFiniteSet(StartedRuns')
    PROVE  DayInv'
<1>1. IsFiniteSet(StartedRuns)'
  BY DEF DayInv, StartedRuns
<1> QED BY <1>1, CardStaysFacts DEF DayInv, CardStays

(* An audit that passes when every candidate has a settlement has counted  *)
(* no settlement of what is no candidate any more.                         *)
LEMMA AuditedCard ==
    ASSUME RunsInv, DayInv, AuditPasses(workflow.prediction, workflow.odds),
           CardCandidates \subseteq CardSettled
    PROVE  settled \subseteq qualified
<1>1. IsFiniteSet(CardSettled)
  BY SlateAssumption, FS_Subset DEF CardSettled, SettledGames
<1>2. /\ IsFiniteSet(CardCandidates) /\ Cardinality(CardCandidates) \in Nat
      /\ Cardinality(CardSettled) \in Nat
      /\ Cardinality(CardCandidates) <= Cardinality(CardSettled)
  BY <1>1, FS_Subset, FS_CardinalityType
<1>3. Cardinality(CardSettled) <= Cardinality(CardCandidates)
  BY DEF AuditPasses, CardSettled, CardCandidates
<1>4. CardSettled = CardCandidates
  BY <1>1, <1>2, <1>3, FS_Subset
<1> SUFFICES ASSUME NEW t \in settled PROVE t \in qualified
  OBVIOUS
<1>5. /\ t \in PredictionRuns \X OddsRuns \X Games
      /\ <<t[1], t[2]>> = <<workflow.prediction, workflow.odds>>
  BY DEF RunsInv, TypeOK, Triples, EvidenceChain, DayInv, Card
<1>6. t = <<workflow.prediction, workflow.odds, t[3]>> /\ t[3] \in Games
  BY <1>5
<1>7. t[3] \in CardCandidates
  BY <1>4, <1>6 DEF CardSettled, SettledGames
<1> QED BY <1>6, <1>7 DEF CardCandidates, Candidates

-----------------------------------------------------------------------------
(* The steps of an invocation.                                             *)

Serial(p) == RunsInv /\ DayInv /\ InStep(p) /\ Counted(p)
Keeps(p) == DayInv' /\ InStep(p)' /\ Counted(p)'

StepSets == PregameSteps \cup PostgameSteps \cup NoCardSteps \cup RecheckSteps

(* The invocation ends, or goes to its failure handler.                    *)
LEMMA EndsSerial ==
    ASSUME NEW p \in Slots, Serial(p), DayInv', CardStays,
           pc'[p] \in {"idle", "finish", "read_failure", "mark_failure"},
           pc'[p] # "idle" => pc[p] # "idle" /\ local'[p].row = local[p].row
    PROVE  Keeps(p)
<1>1. pc'[p] \notin StepSets /\ pc'[p] # "evidence" /\ pc'[p] \notin Predicting \cup Pricing \cup Settling
      /\ pc'[p] # "publish"
  BY DEF StepSets, PregameSteps, PostgameSteps, NoCardSteps, RecheckSteps, Predicting, Pricing, Settling
<1>2. InStep(p)'
  BY <1>1 DEF Serial, InStep, CardStays, StepSets
<1>3. Counted(p)'
  BY <1>1 DEF Counted, StepSets, Settling
<1> QED BY <1>2, <1>3 DEF Keeps

LEMMA StartPregameSerial ==
    ASSUME NEW p \in Slots, Serial(p), StartPregame(p)
    PROVE  Keeps(p)
<1>t. /\ workflow \in WorkflowRow /\ local \in [Slots -> Local] /\ pc \in [Slots -> Steps]
      /\ local[p] \in Local
  BY SlotTypes DEF Serial
<1>1. /\ CardStays /\ UNCHANGED <<workflow, predictionRun>>
      /\ pc'[p] = "begin_pregame" /\ local'[p].row = RunIds(workflow)
  BY <1>t DEF StartPregame, CardStays, evidenceVars, worldVars, Goto, Local
<1>2. DayInv'
  BY <1>1, QuietDay DEF Serial
<1>3. InStep(p)'
  BY <1>1, <1>t, RowLinks DEF Serial, DayInv, InStep, CardStays, PregameSteps, PostgameSteps,
     NoCardSteps, RecheckSteps, Predicting, Pricing
<1>4. Counted(p)'
  BY <1>1 DEF Counted, NoCardSteps, Settling
<1> QED BY <1>2, <1>3, <1>4 DEF Keeps

LEMMA StartPostgameSerial ==
    ASSUME NEW p \in Slots, Serial(p), StartPostgame(p)
    PROVE  Keeps(p)
<1>t. /\ workflow \in WorkflowRow /\ local \in [Slots -> Local] /\ pc \in [Slots -> Steps]
      /\ local[p] \in Local
  BY SlotTypes DEF Serial
<1>1. CardStays /\ UNCHANGED <<workflow, predictionRun>>
  BY DEF StartPostgame, CardStays, evidenceVars, worldVars
<1>2. DayInv'
  BY <1>1, QuietDay DEF Serial
<1>3. \/ /\ pc'[p] = "evidence" /\ local'[p].row = workflow
         /\ workflow.status = "failed" \/ MissingLinkage(workflow)
      \/ /\ pc'[p] \in {"recheck_results", "begin_postgame"}
         /\ pc'[p] = "begin_postgame" => workflow.status # "completed"
         /\ local'[p].row = RunIds(workflow)
  BY <1>t DEF StartPostgame, Goto, Local
<1>4. InStep(p)'
  BY <1>1, <1>3, <1>t, RowLinks DEF InStep, PregameSteps, PostgameSteps,
     NoCardSteps, RecheckSteps, Predicting, Pricing
<1>5. Counted(p)'
  BY <1>1, <1>3 DEF Counted, NoCardSteps, Settling
<1> QED BY <1>2, <1>4, <1>5 DEF Keeps

(* The steps of pregame that change the row, and not the card.             *)
LEMMA PregameRowSerial ==
    ASSUME NEW p \in Slots, Serial(p),
           BeginPregame(p) \/ SyncSchedule(p) \/ StageAudit(p)
    PROVE  Keeps(p)
<1>t. /\ workflow \in WorkflowRow /\ local \in [Slots -> Local] /\ pc \in [Slots -> Steps]
      /\ local[p] \in Local /\ local[p].row \in WorkflowRow
  BY SlotTypes DEF Serial
<1>1. /\ CardStays /\ UNCHANGED <<firstPitch, predictionRun, local>>
      /\ pc[p] \in {"begin_pregame", "schedule", "stage_audit"}
  BY <1>t, RowLinks DEF BeginPregame, SyncSchedule, StageAudit, CardStays, evidenceVars, worldVars
<1>2. pc[p] \in PregameSteps
      /\ local[p].row.prediction = workflow.prediction /\ local[p].row.odds = workflow.odds
  BY <1>1 DEF PregameSteps, Serial, InStep
<1>3. workflow'.status = "running"
  BY <1>1, <1>t, RowStatuses DEF BeginPregame, SyncSchedule, StageAudit, Serial, InStep, PregameSteps
<1>4. DayInv'
  BY <1>1, <1>3, QuietDay DEF Serial
<1>5. /\ pc'[p] \in {"schedule", "odds", "evaluate", "predict", "pregame_audit"}
      /\ pc'[p] \in {"schedule", "predict"} => workflow.prediction = None
      /\ pc'[p] = "odds" => workflow.odds = None
  <2>1. CASE BeginPregame(p)
    BY <1>2, <1>t, <2>1 DEF BeginPregame, Goto, FirstPregameStep
  <2>2. CASE SyncSchedule(p)
    BY <1>t, <2>2 DEF SyncSchedule, Goto, Serial, InStep, Predicting
  <2>3. CASE StageAudit(p)
    BY <1>t, <2>3 DEF StageAudit, Goto
  <2> QED BY <2>1, <2>2, <2>3
<1>6. InStep(p)'
  BY <1>1, <1>2, <1>3, <1>5 DEF InStep, CardStays, PregameSteps, PostgameSteps, NoCardSteps,
     RecheckSteps, Predicting, Pricing
<1>7. Counted(p)'
  BY <1>5 DEF Counted, NoCardSteps, Settling
<1> QED BY <1>4, <1>6, <1>7 DEF Keeps

(* The run that pregame makes, before it is linked.                        *)
LEMMA PredictSerial ==
    ASSUME NEW p \in Slots, Serial(p),
           CreatePredictionRun(p) \/ CompletePredictionRun(p) \/ FailPredictionRun(p)
    PROVE  Keeps(p)
<1>t. /\ local \in [Slots -> Local] /\ pc \in [Slots -> Steps] /\ local[p] \in Local
      /\ predictionRun \in [PredictionRuns ->
             {"absent", "running", "failed", "completed", "empty"}]
  BY SlotTypes DEF Serial, RunsInv, TypeOK
<1>1. /\ CardStays /\ UNCHANGED <<workflow, firstPitch>> /\ pc[p] \in {"predict", "predicting"}
      /\ local'[p].row = local[p].row
  BY <1>t DEF CreatePredictionRun, CompletePredictionRun, FailPredictionRun, CardStays, worldVars,
     Local
<1>2. pc[p] \in PregameSteps \ {"begin_pregame"} /\ pc[p] \in Predicting
  BY <1>1 DEF PregameSteps, Predicting
<1>3. IsFiniteSet(StartedRuns')
  <2>1. IsFiniteSet(StartedRuns)
    BY DEF Serial, DayInv
  <2>2. CASE CreatePredictionRun(p)
    <3>1. PICK r \in PredictionRuns : predictionRun' = [predictionRun EXCEPT ![r] = "running"]
      BY <2>2 DEF CreatePredictionRun
    <3>2. StartedRuns' = StartedRuns \cup {r}
      BY <3>1, <1>t DEF StartedRuns
    <3> QED BY <2>1, <3>2, FS_AddElement
  <2>3. CASE CompletePredictionRun(p) \/ FailPredictionRun(p)
    <3>1. local[p].run \in PredictionRuns /\ predictionRun[local[p].run] = "running"
      BY <2>3 DEF CompletePredictionRun, FailPredictionRun, Serial, RunsInv, RunInHand
    <3>2. StartedRuns' = StartedRuns
      BY <2>3, <3>1, <1>t DEF CompletePredictionRun, FailPredictionRun, StartedRuns
    <3> QED BY <2>1, <3>2
  <2> QED BY <2>2, <2>3
<1>4. DayInv'
  BY <1>1, <1>3, QuietDay DEF Serial
<1>5. CASE pc'[p] = "read_failure"
  BY <1>1, <1>4, <1>5, EndsSerial
<1>6. CASE pc'[p] \in {"predicting", "record_prediction"}
  <2>1. InStep(p)'
    BY <1>1, <1>2, <1>6 DEF Serial, InStep, CardStays, PregameSteps, PostgameSteps, NoCardSteps,
       RecheckSteps, Predicting, Pricing
  <2>2. Counted(p)'
    BY <1>6 DEF Counted, NoCardSteps, Settling
  <2> QED BY <1>4, <2>1, <2>2 DEF Keeps
<1>7. pc'[p] \in {"read_failure", "predicting", "record_prediction"}
  BY <1>t DEF CreatePredictionRun, CompletePredictionRun, FailPredictionRun, Goto
<1> QED BY <1>5, <1>6, <1>7

(* Nothing is evaluated before both runs are linked.                       *)
LEMMA NoEvidence ==
    ASSUME RunsInv, DayInv, workflow.prediction = None \/ workflow.odds = None
    PROVE  evaluated = {} /\ qualified = {} /\ settled = {}
<1>1. evaluated \subseteq PredictionRuns \X OddsRuns
  BY DEF RunsInv, TypeOK
<1>2. Card(workflow) \notin PredictionRuns \X OddsRuns
  BY WorkflowAssumption DEF Card
<1>3. evaluated = {}
  BY <1>1, <1>2 DEF DayInv
<1> QED BY <1>3 DEF RunsInv, EvidenceChain

LEMMA LinkSerial ==
    ASSUME NEW p \in Slots, Serial(p), RecordPrediction(p) \/ RecordOdds(p)
    PROVE  Keeps(p)
<1>t. /\ workflow \in WorkflowRow /\ local \in [Slots -> Local] /\ pc \in [Slots -> Steps]
      /\ local[p] \in Local /\ local[p].row \in WorkflowRow
  BY SlotTypes DEF Serial
<1>1. /\ UNCHANGED <<evaluated, qualified, settled, predictionRun, firstPitch>>
      /\ pc[p] \in {"record_prediction", "record_odds"}
  BY DEF RecordPrediction, RecordOdds, evidenceVars, worldVars
<1>2. /\ pc[p] \in PregameSteps \ {"begin_pregame"} /\ workflow.status = "running"
      /\ local[p].row.prediction = workflow.prediction /\ local[p].row.odds = workflow.odds
      /\ workflow.prediction = None => workflow.odds = None
  BY <1>1 DEF PregameSteps, Serial, InStep, DayInv
<1>3. workflow.prediction = None \/ workflow.odds = None
  BY <1>1 DEF Serial, InStep, Predicting, Pricing
<1>4. evaluated = {} /\ qualified = {} /\ settled = {}
  BY <1>3, NoEvidence DEF Serial
<1>5. workflow'.status = "running"
  BY <1>2, <1>t, RowStatuses DEF RecordPrediction, RecordOdds
<1>6. CASE RecordPrediction(p)
  <2>1. workflow.prediction = None /\ workflow.odds = None
    BY <1>2, <1>6 DEF RecordPrediction, Serial, InStep, Predicting
  <2>2. /\ workflow'.prediction = local[p].run /\ workflow'.odds = None
        /\ local'[p].row.prediction = local[p].run /\ local'[p].row.odds = None
        /\ pc'[p] = "odds"
    BY <1>2, <1>6, <1>t, <2>1, RowLinks DEF RecordPrediction, Goto, Local, WorkflowRow
  <2>3. DayInv'
    BY <1>1, <1>4, <1>5, <2>2 DEF Serial, DayInv, StartedRuns
  <2>4. InStep(p)'
    BY <1>1, <1>4, <1>5, <2>2 DEF InStep, PregameSteps, PostgameSteps, NoCardSteps,
       RecheckSteps, Predicting, Pricing
  <2>5. Counted(p)'
    BY <2>2 DEF Counted, NoCardSteps, Settling
  <2> QED BY <2>3, <2>4, <2>5 DEF Keeps
<1>7. CASE RecordOdds(p)
  <2>1. workflow.prediction # None
    BY <1>2, <1>7 DEF RecordOdds, Serial, RunsInv, RowInHand, NeedsPrediction
  <2>2. /\ workflow'.prediction = workflow.prediction /\ workflow'.odds = local[p].run
        /\ local'[p].row.prediction = workflow.prediction /\ local'[p].row.odds = local[p].run
        /\ pc'[p] = "evaluate"
    BY <1>2, <1>7, <1>t, RowLinks DEF RecordOdds, Goto, Local, WorkflowRow
  <2>3. DayInv'
    BY <1>1, <1>4, <1>5, <2>1, <2>2 DEF Serial, DayInv, StartedRuns
  <2>4. InStep(p)'
    BY <1>1, <1>4, <1>5, <2>2 DEF InStep, PregameSteps, PostgameSteps, NoCardSteps,
       RecheckSteps, Predicting, Pricing
  <2>5. Counted(p)'
    BY <2>2 DEF Counted, NoCardSteps, Settling
  <2> QED BY <2>3, <2>4, <2>5 DEF Keeps
<1> QED BY <1>6, <1>7

LEMMA PriceSerial ==
    ASSUME NEW p \in Slots, Serial(p),
           ReserveEntryOdds(p) \/ CompleteOddsRun(p) \/ FailOddsRun(p)
    PROVE  Keeps(p)
<1>t. local \in [Slots -> Local] /\ pc \in [Slots -> Steps] /\ local[p] \in Local
  BY SlotTypes DEF Serial
<1>1. /\ CardStays /\ UNCHANGED <<workflow, firstPitch, predictionRun>>
      /\ pc[p] \in {"odds", "fetching"} /\ local'[p].row = local[p].row
  BY <1>t DEF ReserveEntryOdds, CompleteOddsRun, FailOddsRun, CardStays, worldVars, Local
<1>2. pc[p] \in PregameSteps \ {"begin_pregame"} /\ pc[p] \in Pricing
  BY <1>1 DEF PregameSteps, Pricing
<1>3. DayInv'
  BY <1>1, QuietDay DEF Serial
<1>4. CASE pc'[p] = "read_failure"
  BY <1>1, <1>3, <1>4, EndsSerial
<1>5. CASE pc'[p] \in {"fetching", "record_odds"}
  <2>1. InStep(p)'
    BY <1>1, <1>2, <1>5 DEF Serial, InStep, CardStays, PregameSteps, PostgameSteps, NoCardSteps,
       RecheckSteps, Predicting, Pricing
  <2>2. Counted(p)'
    BY <1>5 DEF Counted, NoCardSteps, Settling
  <2> QED BY <1>3, <2>1, <2>2 DEF Keeps
<1>6. pc'[p] \in {"read_failure", "fetching", "record_odds"}
  BY <1>t DEF ReserveEntryOdds, CompleteOddsRun, FailOddsRun, Goto
<1> QED BY <1>4, <1>5, <1>6

LEMMA EvaluateSerial ==
    ASSUME NEW p \in Slots, Serial(p), Evaluate(p)
    PROVE  Keeps(p)
<1>t. local \in [Slots -> Local] /\ pc \in [Slots -> Steps] /\ local[p] \in Local
      /\ workflow \in WorkflowRow
  BY SlotTypes DEF Serial
<1>1. /\ UNCHANGED <<workflow, settled, predictionRun, firstPitch>> /\ pc[p] = "evaluate"
      /\ local'[p].row = local[p].row
  BY <1>t DEF Evaluate, worldVars, Local
<1>2. /\ workflow.status = "running"
      /\ local[p].row.prediction = workflow.prediction /\ local[p].row.odds = workflow.odds
  BY <1>1 DEF Serial, InStep, PregameSteps
<1>3. CASE ~Evaluable(local[p].row.prediction, local[p].row.odds)
  <2>1. CardStays /\ pc'[p] = "read_failure"
    BY <1>1, <1>3, <1>t DEF Evaluate, CardStays, Goto
  <2>2. DayInv'
    BY <1>1, <2>1, QuietDay DEF Serial
  <2> QED BY <1>1, <2>1, <2>2, EndsSerial
<1>4. CASE Evaluable(local[p].row.prediction, local[p].row.odds)
  <2>1. evaluated' = evaluated \cup {Card(workflow)} /\ pc'[p] = "stage_audit"
    BY <1>2, <1>4, <1>t DEF Evaluate, Card, Goto
  <2>2. DayInv'
    BY <1>1, <1>2, <2>1 DEF Serial, DayInv, StartedRuns, Card
  <2>3. InStep(p)'
    BY <1>1, <1>2, <2>1 DEF InStep, PregameSteps, PostgameSteps, NoCardSteps, RecheckSteps,
       Predicting, Pricing
  <2>4. Counted(p)'
    BY <2>1 DEF Counted, NoCardSteps, Settling
  <2> QED BY <2>2, <2>3, <2>4 DEF Keeps
<1> QED BY <1>3, <1>4

LEMMA PublishSerial ==
    ASSUME NEW p \in Slots, Serial(p), AuditPregame(p) \/ Publish(p) \/ Finish(p)
    PROVE  Keeps(p)
<1>t. local \in [Slots -> Local] /\ pc \in [Slots -> Steps] /\ local[p] \in Local
      /\ workflow \in WorkflowRow
  BY SlotTypes DEF Serial
<1>1. CASE Finish(p)
  <2>1. CardStays /\ UNCHANGED <<workflow, predictionRun, firstPitch>> /\ pc'[p] = "idle"
    BY <1>1, <1>t DEF Finish, End, Goto, CardStays, evidenceVars, worldVars
  <2>2. DayInv'
    BY <2>1, QuietDay DEF Serial
  <2> QED BY <2>1, <2>2, EndsSerial
<1>2. CASE AuditPregame(p)
  <2>1. /\ CardStays /\ UNCHANGED <<workflow, predictionRun, firstPitch>> /\ pc[p] = "pregame_audit"
        /\ local'[p].row = local[p].row
    BY <1>2, <1>t DEF AuditPregame, CardStays, evidenceVars, worldVars, Local
  <2>2. DayInv'
    BY <2>1, QuietDay DEF Serial
  <2>3. /\ workflow.status = "running"
        /\ local[p].row.prediction = workflow.prediction /\ local[p].row.odds = workflow.odds
    BY <2>1 DEF Serial, InStep, PregameSteps
  <2>4. CASE ~AuditPasses(workflow.prediction, workflow.odds)
    <3>1. pc'[p] = "read_failure"
      BY <1>2, <1>t, <2>3, <2>4 DEF AuditPregame, Goto
    <3> QED BY <2>1, <2>2, <3>1, EndsSerial
  <2>5. CASE AuditPasses(workflow.prediction, workflow.odds)
    <3>1. /\ pc'[p] = "publish" /\ Card(workflow) \in evaluated
          /\ local'[p].count = (CardCandidates # {})
          /\ CardCandidates = {} => settled \subseteq qualified
      BY <1>2, <1>t, <2>3, <2>5, AuditedCard
         DEF AuditPregame, AuditPasses, Goto, Card, CardCandidates, Local, Serial
    <3>2. InStep(p)'
      BY <2>1, <2>3, <3>1 DEF InStep, CardStays, PregameSteps, PostgameSteps, NoCardSteps,
         RecheckSteps, Predicting, Pricing
    <3>3. Counted(p)'
      BY <2>1, <3>1, CardStaysFacts DEF Counted, CardStays, NoCardSteps, Settling
    <3> QED BY <2>2, <3>2, <3>3 DEF Keeps
  <2> QED BY <2>4, <2>5
<1>3. CASE Publish(p)
  <2>1. /\ CardStays /\ UNCHANGED <<predictionRun, firstPitch, local>> /\ pc[p] = "publish"
        /\ pc'[p] = "finish"
    BY <1>3, <1>t, RowLinks DEF Publish, CardStays, evidenceVars, worldVars, Goto
  <2>2. workflow'.status = "completed" => ~local[p].count
    BY <1>3, <1>t, RowStatuses DEF Publish
  <2>3. DayInv'
    BY <2>1, <2>2, QuietDay DEF Serial, Counted, CardIsSettled
  <2> QED BY <2>1, <2>3, EndsSerial
<1> QED BY <1>1, <1>2, <1>3

-----------------------------------------------------------------------------
(* Postgame.                                                               *)

(* A failed day without a card has no evidence at all.                     *)
LEMMA NoCardNoEvidence ==
    ASSUME RunsInv, DayInv, IsNoCard(workflow)
    PROVE  workflow.status = "failed" /\ qualified = {} /\ settled = {}
<1>1. workflow.status = "failed"
  BY DEF IsNoCard
<1>2. CASE FailedBeforeEvidence(workflow)
  <2>1. StartedRuns = {}
    <3>1. IsFiniteSet(StartedRuns) /\ Cardinality(StartedRuns) = 0
      BY <1>2 DEF FailedBeforeEvidence, PredictionRunCount, StartedRuns, DayInv
    <3> QED BY <3>1, FS_EmptySet
  <2>2. evaluated = {}
    <3>1. ASSUME NEW e \in evaluated PROVE FALSE
      <4>1. predictionRun[e[1]] = "completed" /\ e[1] \in PredictionRuns
        BY <3>1 DEF RunsInv, EvidenceChain, TypeOK
      <4> QED BY <2>1, <4>1 DEF StartedRuns
    <3> QED BY <3>1
  <2> QED BY <1>1, <2>2 DEF RunsInv, EvidenceChain
<1>3. CASE FailedWithOneEmptyRun(workflow) \/ FailedBeforeCard(workflow)
  BY <1>1, <1>3 DEF FailedWithOneEmptyRun, FailedBeforeCard
<1> QED BY <1>2, <1>3 DEF IsNoCard

LEMMA JudgeSerial ==
    ASSUME NEW p \in Slots, Serial(p), JudgeEvidence(p)
    PROVE  Keeps(p)
<1>t. local \in [Slots -> Local] /\ pc \in [Slots -> Steps] /\ local[p] \in Local
      /\ workflow \in WorkflowRow
  BY SlotTypes DEF Serial
<1>1. /\ CardStays /\ UNCHANGED <<workflow, predictionRun, firstPitch>> /\ pc[p] = "evidence"
      /\ local[p].row = workflow
  BY <1>t DEF JudgeEvidence, CardStays, evidenceVars, worldVars, Serial, InStep, PostgameSteps
<1>2. DayInv'
  BY <1>1, QuietDay DEF Serial
<1>3. CASE Refuses(workflow)
  <2>1. pc'[p] = "idle"
    BY <1>1, <1>3, <1>t DEF JudgeEvidence, End, Goto
  <2> QED BY <1>1, <1>2, <2>1, EndsSerial
<1>4. CASE ~Refuses(workflow) /\ IsNoCard(workflow)
  <2>1. pc'[p] = "no_card_results" /\ local'[p].row = RunIds(workflow)
    BY <1>1, <1>4, <1>t DEF JudgeEvidence, Goto, Local
  <2>2. workflow.status = "failed" /\ qualified = {} /\ settled = {}
    BY <1>4, NoCardNoEvidence DEF Serial
  <2>3. InStep(p)'
    BY <1>1, <1>t, <2>1, RowLinks DEF InStep, PregameSteps, PostgameSteps, NoCardSteps,
       RecheckSteps, Predicting, Pricing
  <2>4. Counted(p)'
    BY <1>1, <2>1, <2>2 DEF Counted, CardStays, NoCardSteps, Settling
  <2> QED BY <1>2, <2>3, <2>4 DEF Keeps
<1>5. CASE ~Refuses(workflow) /\ ~IsNoCard(workflow)
  <2>1. pc'[p] = "begin_postgame" /\ local'[p].row = RunIds(workflow)
    BY <1>1, <1>5, <1>t DEF JudgeEvidence, Goto, Local
  <2>2. workflow.status # "completed"
    BY <1>1, <1>5 DEF Refuses, Serial, InStep
  <2>3. InStep(p)'
    BY <1>1, <1>t, <2>1, RowLinks DEF InStep, PregameSteps, PostgameSteps, NoCardSteps,
       RecheckSteps, Predicting, Pricing
  <2>4. Counted(p)'
    BY <1>1, <2>1, <2>2 DEF Counted, CardStays, NoCardSteps, Settling
  <2> QED BY <1>2, <2>3, <2>4 DEF Keeps
<1> QED BY <1>1, <1>3, <1>4, <1>5

(* The steps of postgame that change the row.                              *)
LEMMA PostgameRowSerial ==
    ASSUME NEW p \in Slots, Serial(p),
           BeginPostgame(p) \/ StageSettlement(p) \/ MarkSettlement(p)
    PROVE  Keeps(p)
<1>t. /\ workflow \in WorkflowRow /\ local \in [Slots -> Local] /\ pc \in [Slots -> Steps]
      /\ local[p] \in Local /\ local[p].row \in WorkflowRow
  BY SlotTypes DEF Serial
<1>1. /\ CardStays /\ UNCHANGED <<firstPitch, predictionRun>>
      /\ local'[p].row = local[p].row /\ local'[p].count = local[p].count
      /\ pc[p] \in {"begin_postgame", "stage_settlement", "mark_settlement"}
  BY <1>t, RowLinks DEF BeginPostgame, StageSettlement, MarkSettlement, CardStays, evidenceVars,
     worldVars, Local
<1>2. /\ workflow.status # "completed"
      /\ local[p].row.prediction = workflow.prediction /\ local[p].row.odds = workflow.odds
  BY <1>1 DEF Serial, InStep, Counted, PostgameSteps, Settling
<1>3. workflow'.status # "completed"
  BY <1>t, <1>2, RowStatuses DEF BeginPostgame, StageSettlement, MarkSettlement
<1>4. DayInv'
  BY <1>1, <1>3, QuietDay DEF Serial
<1>5. /\ pc'[p] \in {"results", "settle", "final_audit"}
      /\ pc'[p] = "final_audit" => pc[p] = "mark_settlement"
  BY <1>t DEF BeginPostgame, StageSettlement, MarkSettlement, Goto
<1>6. InStep(p)'
  BY <1>1, <1>2, <1>5 DEF InStep, CardStays, PregameSteps, Predicting, Pricing
<1>7. Counted(p)'
  BY <1>1, <1>3, <1>5, CardStaysFacts DEF Serial, Counted, NoCardSteps
<1> QED BY <1>4, <1>6, <1>7 DEF Keeps

LEMMA IngestSerial ==
    ASSUME NEW p \in Slots, Serial(p), IngestResults(p)
    PROVE  Keeps(p)
<1>t. local \in [Slots -> Local] /\ pc \in [Slots -> Steps] /\ local[p] \in Local
  BY SlotTypes DEF Serial
<1>1. /\ CardStays /\ UNCHANGED <<workflow, firstPitch, predictionRun>>
      /\ local'[p].row = local[p].row
  BY <1>t DEF IngestResults, CardStays, evidenceVars, worldVars, Local
<1>2. \/ pc[p] = "results" /\ pc'[p] = "stage_settlement"
      \/ pc[p] = "no_card_results" /\ pc'[p] = "no_card_early"
      \/ pc[p] = "recheck_results" /\ pc'[p] = "recheck_early"
  BY <1>t DEF IngestResults, AfterResults, Goto
<1>3. DayInv'
  BY <1>1, QuietDay DEF Serial
<1>4. InStep(p)'
  BY <1>1, <1>2 DEF Serial, InStep, CardStays, PregameSteps, PostgameSteps, NoCardSteps,
     RecheckSteps, Predicting, Pricing
<1>5. Counted(p)'
  BY <1>1, <1>2 DEF Serial, Counted, CardStays, NoCardSteps, Settling
<1> QED BY <1>3, <1>4, <1>5 DEF Keeps

LEMMA SettleSerial ==
    ASSUME NEW p \in Slots, Serial(p), Settle(p)
    PROVE  Keeps(p)
<1>t. local \in [Slots -> Local] /\ pc \in [Slots -> Steps] /\ local[p] \in Local
      /\ workflow \in WorkflowRow
  BY SlotTypes DEF Serial
<1>1. /\ UNCHANGED <<workflow, evaluated, qualified, firstPitch, predictionRun>>
      /\ local'[p].row = local[p].row /\ pc[p] = "settle" /\ pc'[p] = "early"
  BY <1>t DEF Settle, worldVars, Goto, Local
<1>2. /\ workflow.status # "completed"
      /\ local[p].row.prediction = workflow.prediction /\ local[p].row.odds = workflow.odds
  BY <1>1 DEF Serial, InStep, Counted, PostgameSteps, Settling
<1>3. /\ settled' = settled \cup ({workflow.prediction} \X {workflow.odds}
                                     \X (CardCandidates \cap finals))
      /\ local'[p].count = ~(CardCandidates \subseteq finals)
  BY <1>t, <1>2 DEF Settle, Settleable, CandidatesPending, CardCandidates, Local
<1>5. CardCandidates' = CardCandidates
  BY <1>1 DEF CardCandidates, Candidates
<1>6. ~local'[p].count => CardCandidates' \subseteq CardSettled'
  <2> SUFFICES ASSUME ~local'[p].count, NEW g \in CardCandidates PROVE g \in CardSettled'
    BY <1>5
  <2>1. g \in finals /\ g \in Games
    BY <1>3 DEF CardCandidates, Candidates
  <2>2. <<workflow.prediction, workflow.odds, g>> \in settled'
    BY <1>3, <2>1
  <2> QED BY <1>1, <2>1, <2>2 DEF CardSettled, SettledGames
<1>7. DayInv'
  BY <1>1, <1>2 DEF Serial, DayInv, Card, StartedRuns
<1>8. InStep(p)'
  BY <1>1, <1>2 DEF InStep, PregameSteps, PostgameSteps, Predicting, Pricing
<1>9. Counted(p)'
  BY <1>1, <1>2, <1>6 DEF Counted, NoCardSteps
<1> QED BY <1>7, <1>8, <1>9 DEF Keeps

LEMMA EarlyEntrySerial ==
    ASSUME NEW p \in Slots, Serial(p), SettleEarlyEntry(p)
    PROVE  Keeps(p)
<1>t. local \in [Slots -> Local] /\ pc \in [Slots -> Steps] /\ local[p] \in Local
      /\ local[p].count \in BOOLEAN
  BY SlotTypes DEF Serial
<1>1. CardStays /\ UNCHANGED <<workflow, firstPitch, predictionRun>>
  BY DEF SettleEarlyEntry, CardStays, evidenceVars, worldVars
<1>2. DayInv'
  BY <1>1, QuietDay DEF Serial
<1>3. CASE pc[p] = "no_card_early"
  <2>1. pc'[p] = "idle"
    BY <1>3, <1>t DEF SettleEarlyEntry, End, Goto
  <2> QED BY <1>1, <1>2, <2>1, EndsSerial
<1>4. CASE pc[p] \in {"early", "recheck_early"}
  <2>1. /\ local'[p].row = local[p].row
        /\ \/ /\ pc[p] = "early" /\ pc'[p] = "mark_settlement"
              /\ local'[p].count = (local[p].count \/ earlyPending' # {})
           \/ pc[p] = "recheck_early" /\ pc'[p] = "recheck_audit"
    BY <1>4, <1>t DEF SettleEarlyEntry, Goto, Local
  <2>2. InStep(p)'
    BY <1>1, <2>1 DEF Serial, InStep, CardStays, PregameSteps, PostgameSteps, NoCardSteps,
       RecheckSteps, Predicting, Pricing
  <2>3. Counted(p)'
    BY <1>1, <1>t, <2>1, CardStaysFacts DEF Serial, Counted, NoCardSteps, Settling
  <2> QED BY <1>2, <2>2, <2>3 DEF Keeps
<1> QED BY <1>3, <1>4 DEF SettleEarlyEntry

LEMMA FinalAuditSerial ==
    ASSUME NEW p \in Slots, Serial(p), FinalAudit(p) \/ Complete(p)
    PROVE  Keeps(p)
<1>t. local \in [Slots -> Local] /\ pc \in [Slots -> Steps] /\ local[p] \in Local
      /\ local[p].count \in BOOLEAN /\ workflow \in WorkflowRow
  BY SlotTypes DEF Serial
<1>1. CardStays /\ UNCHANGED <<firstPitch, predictionRun>>
  BY <1>t, RowLinks DEF FinalAudit, Complete, CardStays, evidenceVars, worldVars
<1>2. CASE Complete(p)
  <2>1. pc[p] = "complete" /\ pc'[p] = "finish" /\ UNCHANGED local
    BY <1>2, <1>t DEF Complete, Goto
  <2>2. CardIsSettled
    BY <2>1 DEF Serial, Counted, CardIsSettled
  <2>3. DayInv'
    BY <1>1, <2>2, QuietDay DEF Serial
  <2> QED BY <1>1, <2>1, <2>3, EndsSerial
<1>3. CASE FinalAudit(p)
  <2>1. UNCHANGED workflow /\ pc[p] \in {"final_audit", "recheck_audit"}
    BY <1>3 DEF FinalAudit
  <2>2. DayInv'
    BY <1>1, <2>1, QuietDay DEF Serial
  <2>3. CASE pc'[p] # "complete"
    <3>1. /\ pc'[p] \in {"idle", "finish", "read_failure", "mark_failure"}
          /\ pc'[p] # "idle" => local'[p].row = local[p].row
      BY <1>3, <1>t, <2>3 DEF FinalAudit, End, Goto
    <3> QED BY <1>1, <2>1, <2>2, <3>1, EndsSerial
  <2>4. CASE pc'[p] = "complete"
    <3>1. /\ pc[p] = "final_audit" /\ ~local[p].count /\ UNCHANGED local
          /\ AuditPasses(local[p].row.prediction, local[p].row.odds)
      BY <1>3, <1>t, <2>4 DEF FinalAudit, End, Goto
    <3>2. /\ local[p].row.prediction = workflow.prediction /\ local[p].row.odds = workflow.odds
          /\ workflow.status # "completed"
          /\ CardCandidates \subseteq CardSettled
      BY <3>1 DEF Serial, InStep, Counted, PostgameSteps, Settling
    <3>3. Card(workflow) \in evaluated /\ settled \subseteq qualified
      BY <3>1, <3>2, AuditedCard DEF AuditPasses, Card, Serial
    <3>4. InStep(p)'
      BY <1>1, <2>4, <3>1, <3>2 DEF InStep, CardStays, PregameSteps, PostgameSteps, Predicting,
         Pricing
    <3>5. Counted(p)'
      BY <1>1, <2>1, <2>4, <3>1, <3>2, <3>3, CardStaysFacts DEF Counted, CardStays, NoCardSteps
    <3> QED BY <2>2, <3>4, <3>5 DEF Keeps
  <2> QED BY <2>3, <2>4
<1> QED BY <1>2, <1>3

(* A step fails, the process dies, or the handler runs.                    *)
LEMMA FailureSerial ==
    ASSUME NEW p \in Slots, Serial(p),
           \/ StepRaises(p) \/ IngestRaises(p) \/ EarlyEntryRaises(p) \/ Crash(p)
           \/ ReadFailureStage(p) \/ MarkFailure(p)
    PROVE  Keeps(p)
<1>t. local \in [Slots -> Local] /\ pc \in [Slots -> Steps] /\ local[p] \in Local
      /\ workflow \in WorkflowRow
  BY SlotTypes DEF Serial
<1>1. CardStays /\ UNCHANGED <<firstPitch, predictionRun>>
  BY <1>t, RowLinks DEF StepRaises, IngestRaises, EarlyEntryRaises, Crash, ReadFailureStage,
     MarkFailure, CardStays, evidenceVars, worldVars
<1>2. workflow'.status \in {"failed", workflow.status}
  BY <1>t, RowStatuses DEF StepRaises, IngestRaises, EarlyEntryRaises, Crash, ReadFailureStage,
     MarkFailure
<1>3. DayInv'
  BY <1>1, <1>2, QuietDay DEF Serial
<1>4. pc[p] # "idle"
  BY DEF StepRaises, IngestRaises, EarlyEntryRaises, Crash, ReadFailureStage, MarkFailure,
     AfterResults
<1>5. /\ pc'[p] \in {"idle", "read_failure", "mark_failure"}
      /\ pc'[p] # "idle" => local'[p].row = local[p].row
  BY <1>t DEF StepRaises, IngestRaises, EarlyEntryRaises, Crash, ReadFailureStage, MarkFailure,
     Raise, End, Goto, Local
<1> QED BY <1>1, <1>3, <1>4, <1>5, EndsSerial

-----------------------------------------------------------------------------
(* Every step of the day.                                                  *)

LEMMA SlotSerial ==
    ASSUME NEW p \in Slots, Serial(p), SlotNext(p)
    PROVE  Keeps(p)
<1>1. CASE StartPregame(p) \/ StartPostgame(p)
  BY <1>1, StartPregameSerial, StartPostgameSerial
<1>2. CASE PregameStep(p)
  BY <1>2, PregameRowSerial, PredictSerial, LinkSerial, PriceSerial, EvaluateSerial,
     PublishSerial DEF PregameStep
<1>3. CASE PostgameStep(p)
  BY <1>3, JudgeSerial, PostgameRowSerial, IngestSerial, SettleSerial, EarlyEntrySerial,
     FinalAuditSerial DEF PostgameStep
<1>4. CASE FailureStep(p) \/ HandlerStep(p)
  BY <1>4, PredictSerial, PriceSerial, FailureSerial DEF FailureStep, HandlerStep
<1> QED BY <1>1, <1>2, <1>3, <1>4 DEF SlotNext

LEMMA SerialInit == Init => SerialInv
<1> SUFFICES ASSUME Init PROVE SerialInv
  OBVIOUS
<1>1. StartedRuns = {}
  BY DEF Init, StartedRuns
<1>2. DayInv
  BY <1>1, FS_EmptySet DEF Init, DayInv, NewWorkflow
<1>3. \A p \in Slots : pc[p] = "idle"
  BY DEF Init
<1>4. \A p \in Slots : InStep(p) /\ Counted(p)
  BY <1>3 DEF InStep, Counted, PregameSteps, PostgameSteps, NoCardSteps, RecheckSteps,
     Predicting, Pricing, Settling
<1> QED BY <1>2, <1>4 DEF SerialInv

LEMMA SerialStep ==
    ASSUME OneSlot, RunsInv, SerialInv, [Next]_vars
    PROVE  SerialInv'
<1>1. ASSUME NEW p \in Slots, SlotNext(p) PROVE SerialInv'
  <2>1. Serial(p)
    BY <1>1 DEF Serial, SerialInv
  <2>2. Keeps(p)
    BY <1>1, <2>1, SlotSerial
  <2>3. \A q \in Slots : q = p
    BY <1>1 DEF OneSlot
  <2> QED BY <2>2, <2>3 DEF Keeps, SerialInv
<1>2. CASE SlateStarts \/ (\E g \in Games : GameEnds(g)) \/ UNCHANGED vars
  <2>1. UNCHANGED <<workflow, predictionRun, evaluated, qualified, settled, pc, local>>
    BY <1>2 DEF SlateStarts, GameEnds, vars, evidenceVars, worldVars
  <2>2. CardStays
    BY <2>1 DEF CardStays
  <2>3. DayInv'
    BY <2>1, <2>2, QuietDay DEF SerialInv
  <2>4. ASSUME NEW q \in Slots PROVE InStep(q)' /\ Counted(q)'
    BY <2>1, <2>2, CardStaysFacts DEF SerialInv, InStep, Counted
  <2> QED BY <2>3, <2>4 DEF SerialInv
<1> QED BY <1>1, <1>2 DEF Next

(* One invocation at a time keeps what each step relies on: the row it     *)
(* read, the counts it took from one transaction to the next, and the      *)
(* evaluations that stand behind a completed row.                          *)
THEOREM SerialInvariant ==
    ASSUME OneSlot PROVE Spec => [](RunsInv /\ SerialInv)
<1>1. Init => RunsInv /\ SerialInv
  BY RunsInit, SerialInit
<1>2. RunsInv /\ SerialInv /\ [Next]_vars => (RunsInv /\ SerialInv)'
  BY RunsStep, SerialStep
<1> QED BY <1>1, <1>2, PTL DEF Spec

(* A day is only ever reported completed with an evaluated card all of     *)
(* whose candidates have their settlement (_mark_pregame_terminal_state,   *)
(* complete_moneyline_daily_workflow).                                     *)
THEOREM CompletedDaysAreSettled ==
    ASSUME OneSlot PROVE Spec => []CompletedIsSettled
<1>1. SerialInv => CompletedIsSettled
  BY DEF SerialInv, DayInv, CompletedIsSettled, CardIsSettled, CardCandidates, CardSettled
<1> QED BY <1>1, SerialInvariant, PTL

(* A rerun of the evaluation may withdraw a candidate that was settled,    *)
(* and the audit only counts; a day with such a settlement is never        *)
(* reported completed all the same, in whatever order pregames and         *)
(* postgames follow one another, fail or die (evaluate_moneyline_          *)
(* prediction_run, settle_moneyline_paper_candidate_run,                   *)
(* _validate_final_audit).                                                 *)
THEOREM WithdrawnDaysStayOpen ==
    ASSUME OneSlot PROVE Spec => []WithdrawnIsNeverClosed
<1>1. SerialInv => WithdrawnIsNeverClosed
  BY DEF SerialInv, DayInv, WithdrawnIsNeverClosed, CardIsSettled
<1> QED BY <1>1, SerialInvariant, PTL

(* Postgame reports a day without an official card only when there is      *)
(* neither a candidate nor a settlement, and leaves the failed row alone   *)
(* (_is_legitimate_no_card_workflow).                                      *)
THEOREM NoCardReportIsHonest ==
    ASSUME OneSlot PROVE Spec => NoCardIsHonest
<1>1. SerialInv /\ [Next]_vars =>
        \A p \in Slots :
            pc[p] = "no_card_early" /\ SettleEarlyEntry(p) =>
                /\ workflow.status = "failed" /\ workflow' = workflow
                /\ qualified' = {} /\ settled' = {}
  <2> SUFFICES ASSUME SerialInv, NEW p \in Slots, pc[p] = "no_card_early", SettleEarlyEntry(p)
               PROVE  /\ workflow.status = "failed" /\ workflow' = workflow
                      /\ qualified' = {} /\ settled' = {}
    OBVIOUS
  <2>1. workflow.status = "failed" /\ qualified = {} /\ settled = {}
    BY DEF SerialInv, Counted, NoCardSteps
  <2> QED BY <2>1 DEF SettleEarlyEntry, evidenceVars
<1> QED BY <1>1, SerialInvariant, PTL DEF Spec, NoCardIsHonest

-----------------------------------------------------------------------------
(* The day keeps the promise of OfficialCard.                              *)

(* Pregame is started before the first pitch.                              *)
PregameInTime == ~LatePregame

(* Then no evaluation follows a settlement.                                *)
InTime(p) ==
    /\ pc[p] \in PregameSteps => settled = {}
    /\ pc[p] \in PostgameSteps \cup NoCardSteps \cup RecheckSteps => firstPitch

InTimeInv ==
    /\ settled \subseteq qualified
    /\ ~firstPitch => settled = {}
    /\ \A p \in Slots : InTime(p)

(* The steps an invocation can be at after it has failed or ended.         *)
Ended == {"idle", "finish", "read_failure", "mark_failure"}

LEMMA EndedInTime ==
    ASSUME NEW p \in Slots, pc'[p] \in Ended PROVE InTime(p)'
BY DEF Ended, InTime, PregameSteps, PostgameSteps, NoCardSteps, RecheckSteps

LEMMA SlotInTime ==
    ASSUME PregameInTime, NEW p \in Slots, Serial(p), InTimeInv, SlotNext(p)
    PROVE  /\ settled' \subseteq qualified'
           /\ ~firstPitch' => settled' = {}
           /\ InTime(p)'
<1>t. pc \in [Slots -> Steps] /\ InTime(p)
  BY SlotTypes DEF Serial, InTimeInv
<1>1. CASE StartPregame(p)
  BY <1>1, <1>t DEF StartPregame, PregameInTime, InTimeInv, InTime, Goto, evidenceVars, worldVars,
     PregameSteps, PostgameSteps, NoCardSteps, RecheckSteps
<1>2. CASE StartPostgame(p)
  BY <1>2, <1>t DEF StartPostgame, InTimeInv, InTime, Goto, evidenceVars, worldVars,
     PregameSteps, PostgameSteps, NoCardSteps, RecheckSteps
<1>3. CASE PregameStep(p)
  <2>1. UNCHANGED <<settled, firstPitch>> /\ (UNCHANGED qualified \/ Evaluate(p))
    BY <1>3 DEF PregameStep, BeginPregame, SyncSchedule, CreatePredictionRun,
       CompletePredictionRun, RecordPrediction, ReserveEntryOdds, CompleteOddsRun, RecordOdds,
       Evaluate, StageAudit, AuditPregame, Publish, Finish, evidenceVars, worldVars
  <2>2. /\ pc[p] \in PregameSteps \/ Finish(p)
        /\ pc'[p] \in (PregameSteps \cup Ended) \ (PostgameSteps \cup NoCardSteps \cup RecheckSteps)
        /\ Finish(p) => pc'[p] \in Ended /\ UNCHANGED qualified
    BY <1>3, <1>t DEF PregameStep, BeginPregame, SyncSchedule, CreatePredictionRun,
       CompletePredictionRun, RecordPrediction, ReserveEntryOdds, CompleteOddsRun, RecordOdds,
       Evaluate, StageAudit, AuditPregame, Publish, Finish, End, Goto, FirstPregameStep,
       PregameSteps, PostgameSteps, NoCardSteps, RecheckSteps, Ended, evidenceVars
  <2>3. CASE pc[p] \in PregameSteps
    BY <1>t, <2>1, <2>2, <2>3 DEF InTimeInv, InTime
  <2>4. CASE Finish(p)
    BY <2>1, <2>2, <2>4, EndedInTime DEF InTimeInv
  <2> QED BY <2>2, <2>3, <2>4
<1>4. CASE PostgameStep(p)
  <2>1. /\ UNCHANGED <<qualified, firstPitch>>
        /\ pc[p] \in PostgameSteps \cup NoCardSteps \cup RecheckSteps
        /\ pc'[p] \notin PregameSteps
    BY <1>4, <1>t DEF PostgameStep, JudgeEvidence, BeginPostgame, IngestResults, AfterResults,
       StageSettlement, Settle, SettleEarlyEntry, MarkSettlement, FinalAudit, Complete, End, Goto,
       PregameSteps, PostgameSteps, NoCardSteps, RecheckSteps, evidenceVars, worldVars
  <2>2. firstPitch
    BY <1>t, <2>1 DEF InTime
  <2>3. settled' \subseteq qualified
    <3>1. CASE Settle(p)
      BY <3>1 DEF Settle, Settleable, Candidates, InTimeInv
    <3>2. CASE UNCHANGED settled
      BY <3>2 DEF InTimeInv
    <3> QED BY <1>4, <3>1, <3>2 DEF PostgameStep, JudgeEvidence, BeginPostgame, IngestResults,
       StageSettlement, SettleEarlyEntry, MarkSettlement, FinalAudit, Complete, evidenceVars
  <2> QED BY <2>1, <2>2, <2>3 DEF InTime
<1>5. CASE FailureStep(p) \/ HandlerStep(p)
  <2>1. UNCHANGED <<settled, qualified, firstPitch>> /\ pc'[p] \in Ended
    BY <1>5, <1>t DEF FailureStep, HandlerStep, FailPredictionRun, FailOddsRun, StepRaises,
       IngestRaises, EarlyEntryRaises, Crash, ReadFailureStage, MarkFailure, Raise, End, Goto,
       Ended, evidenceVars, worldVars
  <2> QED BY <2>1, EndedInTime DEF InTimeInv
<1> QED BY <1>1, <1>2, <1>3, <1>4, <1>5 DEF SlotNext

LEMMA InTimeStep ==
    ASSUME OneSlot, PregameInTime, RunsInv, SerialInv, InTimeInv, [Next]_vars
    PROVE  InTimeInv'
<1>1. ASSUME NEW p \in Slots, SlotNext(p) PROVE InTimeInv'
  <2>1. Serial(p) /\ \A q \in Slots : q = p
    BY <1>1 DEF Serial, SerialInv, OneSlot
  <2> QED BY <1>1, <2>1, SlotInTime DEF InTimeInv
<1>2. CASE SlateStarts \/ (\E g \in Games : GameEnds(g)) \/ UNCHANGED vars
  BY <1>2 DEF SlateStarts, GameEnds, vars, evidenceVars, worldVars, InTimeInv, InTime
<1> QED BY <1>1, <1>2 DEF Next

Closed == workflow.status = "completed"

(* A completed day has exactly its candidates settled.                     *)
LEMMA ClosedCard ==
    ASSUME RunsInv, DayInv, CardIsSettled
    PROVE  /\ workflow.prediction # None /\ workflow.odds # None
           /\ CardSettled = CardCandidates
<1>1. evaluated \subseteq PredictionRuns \X OddsRuns
  BY DEF RunsInv, TypeOK
<1>2. workflow.prediction \in PredictionRuns /\ workflow.odds \in OddsRuns
  BY <1>1 DEF CardIsSettled, Card
<1>3. CardSettled \subseteq CardCandidates
  BY DEF CardIsSettled, CardSettled, CardCandidates, SettledGames, Candidates
<1> QED BY <1>2, <1>3, WorkflowAssumption DEF CardIsSettled

(* A step that leaves the card and its evidence closes the day, opens it   *)
(* again or is no step of the card.                                        *)
LEMMA QuietCard ==
    ASSUME RunsInv, DayInv, DayInv', CardStays
    PROVE  [CardOfDay!Next]_(CardOfDay!cardVars)
<1>1. /\ workflow'.prediction = workflow.prediction /\ workflow'.odds = workflow.odds
      /\ CardCandidates' = CardCandidates /\ CardSettled' = CardSettled
  BY CardStaysFacts DEF CardStays
<1>2. CASE Closed' = Closed
  BY <1>1, <1>2 DEF CardOfDay!cardVars, Closed, CardCandidates, CardSettled
<1>3. CASE Closed /\ ~Closed'
  <2>1. CardOfDay!Reopen
    BY <1>1, <1>3 DEF CardOfDay!Reopen, Closed, CardCandidates, CardSettled
  <2> QED BY <2>1 DEF CardOfDay!Next
<1>4. CASE ~Closed /\ Closed'
  <2>1. CardIsSettled
    BY <1>4, CardStaysFacts DEF DayInv, Closed
  <2>2. CardOfDay!Close
    BY <1>1, <1>4, <2>1, ClosedCard DEF CardOfDay!Close, Closed, CardCandidates, CardSettled
  <2> QED BY <2>2 DEF CardOfDay!Next
<1> QED BY <1>2, <1>3, <1>4 DEF Closed

LEMMA LinkedCard ==
    ASSUME NEW p \in Slots, Serial(p), RecordPrediction(p) \/ RecordOdds(p)
    PROVE  CardOfDay!Predict \/ CardOfDay!Price
<1>t. /\ workflow \in WorkflowRow /\ local \in [Slots -> Local] /\ local[p] \in Local
      /\ local[p].run \in PredictionRuns \cup OddsRuns
  <2>1. workflow \in WorkflowRow /\ local \in [Slots -> Local] /\ local[p] \in Local
    BY SlotTypes DEF Serial
  <2> QED BY <2>1 DEF Serial, RunsInv, RunInHand, RecordPrediction, RecordOdds
<1>1. /\ UNCHANGED <<evaluated, qualified, settled>>
      /\ pc[p] \in {"record_prediction", "record_odds"}
  BY DEF RecordPrediction, RecordOdds, evidenceVars
<1>2. /\ workflow.prediction = None => workflow.odds = None
      /\ local[p].row.prediction = workflow.prediction
      /\ workflow.status = "running"
  BY <1>1 DEF PregameSteps, Serial, InStep, DayInv
<1>3. workflow.prediction = None \/ workflow.odds = None
  BY <1>1 DEF Serial, InStep, Predicting, Pricing
<1>4. /\ CardCandidates = {} /\ CardCandidates' = {}
      /\ CardSettled = {} /\ CardSettled' = {}
  BY <1>1, <1>3, NoEvidence DEF Serial, CardCandidates, CardSettled, Candidates, SettledGames
<1>5. workflow'.status = "running"
  BY <1>2, <1>t, RowStatuses DEF RecordPrediction, RecordOdds
<1>6. CASE RecordPrediction(p)
  <2>1. workflow.prediction = None /\ local[p].run \in PredictionRuns
    BY <1>6 DEF RecordPrediction, Serial, InStep, Predicting, RunsInv, RunInHand
  <2>2. workflow'.prediction = local[p].run /\ workflow'.odds = workflow.odds
    BY <1>6, <1>t, RowLinks DEF RecordPrediction
  <2> QED BY <1>2, <1>4, <1>5, <2>1, <2>2 DEF CardOfDay!Predict, CardCandidates, CardSettled
<1>7. CASE RecordOdds(p)
  <2>1. workflow.prediction # None /\ workflow.odds = None /\ local[p].run \in OddsRuns
    BY <1>2, <1>7 DEF RecordOdds, Serial, RunsInv, RowInHand, RunInHand, NeedsPrediction, InStep,
       Pricing
  <2>2. workflow'.prediction = workflow.prediction /\ workflow'.odds = local[p].run
    BY <1>7, <1>t, RowLinks DEF RecordOdds
  <2> QED BY <1>2, <1>4, <1>5, <2>1, <2>2 DEF CardOfDay!Price, CardCandidates, CardSettled
<1> QED BY <1>6, <1>7

LEMMA EvaluatedCard ==
    ASSUME NEW p \in Slots, Serial(p), InTimeInv, DayInv', Evaluate(p)
    PROVE  [CardOfDay!Next]_(CardOfDay!cardVars)
<1>1. /\ UNCHANGED <<workflow, settled>> /\ pc[p] = "evaluate"
      /\ local[p].row.prediction = workflow.prediction /\ local[p].row.odds = workflow.odds
      /\ settled = {} /\ workflow.status = "running"
  BY DEF Evaluate, Serial, InStep, PregameSteps, InTimeInv, InTime
<1>2. CASE ~Evaluable(local[p].row.prediction, local[p].row.odds)
  BY <1>1, <1>2, QuietCard DEF Evaluate, CardStays, Serial
<1>3. CASE Evaluable(local[p].row.prediction, local[p].row.odds)
  <2>1. workflow.prediction # None /\ workflow.odds # None
    BY <1>1 DEF Serial, RunsInv, RowInHand, NeedsCard, MissingLinkage
  <2>2. CardSettled = {} /\ CardSettled' = {} /\ CardCandidates' \in SUBSET Games
    BY <1>1 DEF CardSettled, SettledGames, CardCandidates, Candidates
  <2>3. CardOfDay!Qualify
    BY <1>1, <2>1, <2>2 DEF CardOfDay!Qualify, CardSettled, CardCandidates
  <2> QED BY <2>3 DEF CardOfDay!Next
<1> QED BY <1>2, <1>3

LEMMA SettledCard ==
    ASSUME NEW p \in Slots, Serial(p), InTimeInv', Settle(p)
    PROVE  CardOfDay!Settle
<1>1. /\ UNCHANGED <<workflow, qualified>> /\ pc[p] = "settle" /\ workflow.status # "completed"
      /\ settled \subseteq settled'
  BY DEF Settle, Serial, Counted, Settling
<1>2. CardCandidates' = CardCandidates /\ CardSettled \subseteq CardSettled'
  BY <1>1 DEF CardSettled, SettledGames, CardCandidates, Candidates
<1>3. CardSettled' \in SUBSET CardCandidates
  BY <1>1 DEF InTimeInv, CardSettled, SettledGames, CardCandidates, Candidates
<1> QED BY <1>1, <1>2, <1>3 DEF CardOfDay!Settle, CardSettled, CardCandidates

LEMMA CardOfDayStep ==
    ASSUME RunsInv, SerialInv, SerialInv', InTimeInv, InTimeInv', [Next]_vars
    PROVE  [CardOfDay!Next]_(CardOfDay!cardVars)
<1>1. ASSUME NEW p \in Slots, SlotNext(p) PROVE [CardOfDay!Next]_(CardOfDay!cardVars)
  <2>t. Serial(p) /\ DayInv' /\ workflow \in WorkflowRow
    BY SlotTypes DEF Serial, SerialInv
  <2>1. CASE RecordPrediction(p) \/ RecordOdds(p)
    BY <2>1, <2>t, LinkedCard DEF CardOfDay!Next
  <2>2. CASE Evaluate(p)
    BY <2>2, <2>t, EvaluatedCard
  <2>3. CASE Settle(p)
    BY <2>3, <2>t, SettledCard DEF CardOfDay!Next
  <2>4. CASE ~(RecordPrediction(p) \/ RecordOdds(p) \/ Evaluate(p) \/ Settle(p))
    <3>1. StartPregame(p) \/ StartPostgame(p) \/ PregameStep(p) => CardStays
      BY <2>t, <2>4, RowLinks DEF PregameStep, CardStays, StartPregame, StartPostgame,
         BeginPregame, SyncSchedule, CreatePredictionRun, CompletePredictionRun, ReserveEntryOdds,
         CompleteOddsRun, StageAudit, AuditPregame, Publish, Finish, evidenceVars
    <3>2. PostgameStep(p) => CardStays
      BY <2>t, <2>4, RowLinks DEF PostgameStep, CardStays, JudgeEvidence,
         BeginPostgame, IngestResults, StageSettlement, SettleEarlyEntry, MarkSettlement,
         FinalAudit, Complete, evidenceVars
    <3>3. FailureStep(p) \/ HandlerStep(p) => CardStays
      BY <2>t, <2>4, RowLinks DEF FailureStep, HandlerStep, CardStays,
         FailPredictionRun, FailOddsRun, StepRaises, IngestRaises, EarlyEntryRaises, Crash,
         ReadFailureStage, MarkFailure, evidenceVars
    <3> QED BY <1>1, <2>t, <3>1, <3>2, <3>3, QuietCard DEF SlotNext, Serial
  <2> QED BY <2>1, <2>2, <2>3, <2>4
<1>2. CASE SlateStarts \/ (\E g \in Games : GameEnds(g)) \/ UNCHANGED vars
  <2>1. CardStays
    BY <1>2 DEF SlateStarts, GameEnds, vars, evidenceVars, CardStays
  <2> QED BY <2>1, QuietCard DEF SerialInv
<1> QED BY <1>1, <1>2 DEF Next

(* Run by run, the workflow implements the abstract card of the day: one   *)
(* prediction run, one priced odds run, candidates decided again only      *)
(* while nothing is settled, and a day closed only with every candidate    *)
(* settled, through every retry, outage and crash.                         *)
THEOREM WorkflowKeepsCardPromise ==
    ASSUME OneSlot, PregameInTime PROVE Spec => CardPromise
<1>1. Init => CardOfDay!Init /\ InTimeInv
  BY DEF Init, NewWorkflow, CardOfDay!Init, Candidates, SettledGames, InTimeInv, InTime,
     PregameSteps, PostgameSteps, NoCardSteps, RecheckSteps
<1>2. RunsInv /\ SerialInv /\ InTimeInv /\ [Next]_vars => InTimeInv'
  BY InTimeStep
<1>3. RunsInv /\ (SerialInv /\ InTimeInv) /\ (SerialInv /\ InTimeInv)' /\ [Next]_vars =>
        [CardOfDay!Next]_(CardOfDay!cardVars)
  BY CardOfDayStep
<1> QED BY <1>1, <1>2, <1>3, SerialInvariant, PTL DEF Spec, CardPromise, CardOfDay!Spec

-----------------------------------------------------------------------------
(* Without a crash or a database outage.                                   *)

(* What a day may meet does not change.                                    *)
LEMMA FailingStays ==
    ASSUME [Next]_vars PROVE UNCHANGED failing
<1>1. CASE UNCHANGED vars \/ SlateStarts \/ \E g \in Games : GameEnds(g)
  BY <1>1 DEF vars, worldVars, SlateStarts, GameEnds
<1>2. ASSUME NEW p \in Slots, SlotNext(p) PROVE UNCHANGED failing
  <2>1. CASE StartPregame(p) \/ StartPostgame(p) \/ PregameStep(p)
    BY <2>1 DEF worldVars, StartPregame, StartPostgame, PregameStep, BeginPregame, SyncSchedule,
       CreatePredictionRun, CompletePredictionRun, RecordPrediction, ReserveEntryOdds,
       CompleteOddsRun, RecordOdds, Evaluate, StageAudit, AuditPregame, Publish, Finish
  <2>2. CASE PostgameStep(p)
    BY <2>2 DEF worldVars, PostgameStep, JudgeEvidence, BeginPostgame, IngestResults,
       StageSettlement, Settle, SettleEarlyEntry, MarkSettlement, FinalAudit, Complete
  <2>3. CASE FailureStep(p) \/ HandlerStep(p)
    BY <2>3 DEF worldVars, FailureStep, HandlerStep, StepRaises, IngestRaises, EarlyEntryRaises,
       FailPredictionRun, FailOddsRun, ReadFailureStage, MarkFailure, Crash
  <2> QED BY <1>2, <2>1, <2>2, <2>3 DEF SlotNext
<1> QED BY <1>1, <1>2 DEF Next

(* The runs of the day: linked to the row, or held by the step that will   *)
(* link them.                                                              *)
Live == {"running", "completed", "empty"}

HeldPrediction(r) ==
    \E p \in Slots : pc[p] \in {"predicting", "record_prediction"} /\ local[p].run = r

HeldOdds(o) == \E p \in Slots : pc[p] \in {"fetching", "record_odds"} /\ local[p].run = o

RunsHeld ==
    /\ \A r \in PredictionRuns : predictionRun[r] \in Live =>
          workflow.prediction = r \/ HeldPrediction(r)
    /\ \A o \in OddsRuns : oddsRun[o] \in Live => workflow.odds = o \/ HeldOdds(o)

(* The row is past pregame only with an evaluated card.                    *)
ReachedPostgame == {"results_ingestion", "settlement", "final_audit", "complete"}
RecheckStages == {"results_ingestion", "early_entry_settlement", "final_audit"}

RowPublished ==
    /\ \/ workflow.stage \in ReachedPostgame
       \/ workflow.status \in {"awaiting_results", "completed"}
       => Card(workflow) \in evaluated
    /\ workflow.stage = "initialized" \/ workflow.status = "pending" =>
          workflow.prediction = None

SlotPublished(p) ==
    /\ pc[p] = "begin_pregame" => local[p].stage \in PregameStages
    /\ \/ pc[p] \in {"idle", "evidence", "finish"}
       \/ pc[p] = "final_audit" /\ local[p].count
       => workflow.status # "running"
    /\ pc[p] \in PostgameSteps \ {"evidence"} => Card(workflow) \in evaluated
    /\ pc[p] \in RecheckSteps => /\ workflow.status = "completed"
                                 /\ local[p].stage \in RecheckStages
    /\ pc[p] = "mark_failure" => \/ local[p].stage = workflow.stage
                                 \/ /\ workflow.status = "completed"
                                    /\ local[p].stage \in RecheckStages

PublishedInv == RowPublished /\ \A p \in Slots : SlotPublished(p)

(* What can fail, and how, when only the providers fail.                   *)
LEMMA ProviderFaults ==
    ASSUME OnlyProvidersFail, NEW p \in Slots
    PROVE  /\ ~Crash(p)
           /\ StepRaises(p) => pc[p] \in {"schedule", "predict", "odds", "evaluate", "settle"}
           /\ FailPredictionRun(p) =>
                 predictionRun' = [predictionRun EXCEPT ![local[p].run] = "failed"]
           /\ FailOddsRun(p) => oddsRun' = [oddsRun EXCEPT ![local[p].run] = "failed"]
           /\ ReadFailureStage(p) => local' = [local EXCEPT ![p].stage = workflow.stage]
           /\ MarkFailure(p) => workflow' = FailWorkflow(workflow, local[p].stage)
<1>1. ~Fault({"crash"}) /\ ~Fault({"db"})
  BY DEF OnlyProvidersFail, Fault
<1> QED BY <1>1 DEF Crash, StepRaises, FailPredictionRun, FailOddsRun, ReadFailureStage, MarkFailure

-----------------------------------------------------------------------------
(* The runs of the day are accounted for.                                  *)

HoldingSteps == {"predicting", "record_prediction", "fetching", "record_odds"}

MakingRun(p) ==
    \/ CreatePredictionRun(p) \/ CompletePredictionRun(p) \/ FailPredictionRun(p)
    \/ RecordPrediction(p) \/ ReserveEntryOdds(p) \/ CompleteOddsRun(p) \/ FailOddsRun(p)
    \/ RecordOdds(p)

LEMMA QuietRuns ==
    ASSUME OneSlot, NEW p \in Slots, RunsHeld, pc[p] \notin HoldingSteps,
           UNCHANGED <<predictionRun, oddsRun>>,
           workflow'.prediction = workflow.prediction, workflow'.odds = workflow.odds
    PROVE  RunsHeld'
<1>1. \A q \in Slots : pc[q] \notin HoldingSteps
  BY DEF OneSlot
<1>2. /\ \A r \in PredictionRuns : ~HeldPrediction(r)
      /\ \A o \in OddsRuns : ~HeldOdds(o)
  BY <1>1 DEF HeldPrediction, HeldOdds, HoldingSteps
<1> QED BY <1>2 DEF RunsHeld

(* A slot that makes a run makes no step but the making of it.             *)
LEMMA OtherSteps ==
    ASSUME OnlyProvidersFail, NEW p \in Slots, Serial(p), SlotNext(p), ~MakingRun(p)
    PROVE  /\ pc[p] \notin HoldingSteps
           /\ UNCHANGED <<predictionRun, oddsRun>>
           /\ workflow'.prediction = workflow.prediction /\ workflow'.odds = workflow.odds
<1>t. workflow \in WorkflowRow
  BY SlotTypes DEF Serial
<1>1. CASE StartPregame(p) \/ StartPostgame(p) \/ PregameStep(p)
  BY <1>1, <1>t, RowLinks DEF MakingRun, PregameStep, StartPregame, StartPostgame, BeginPregame,
     SyncSchedule, Evaluate, StageAudit, AuditPregame, Publish, Finish, evidenceVars, HoldingSteps
<1>2. CASE PostgameStep(p)
  BY <1>2, <1>t, RowLinks DEF PostgameStep, JudgeEvidence, BeginPostgame, IngestResults,
     StageSettlement, Settle, SettleEarlyEntry, MarkSettlement, FinalAudit, Complete, evidenceVars,
     HoldingSteps, AfterResults
<1>3. CASE FailureStep(p) \/ HandlerStep(p)
  BY <1>3, <1>t, RowLinks, ProviderFaults DEF MakingRun, FailureStep, HandlerStep, StepRaises,
     IngestRaises, EarlyEntryRaises, ReadFailureStage, MarkFailure, evidenceVars,
     HoldingSteps, AfterResults
<1> QED BY <1>1, <1>2, <1>3 DEF SlotNext

LEMMA MakingPrediction ==
    ASSUME OneSlot, OnlyProvidersFail, NEW p \in Slots, Serial(p), RunsHeld,
           \/ CreatePredictionRun(p) \/ CompletePredictionRun(p) \/ FailPredictionRun(p)
           \/ RecordPrediction(p)
    PROVE  RunsHeld'
<1>t. /\ workflow \in WorkflowRow /\ local \in [Slots -> Local] /\ pc \in [Slots -> Steps]
      /\ local[p] \in Local
      /\ predictionRun \in [PredictionRuns ->
             {"absent", "running", "failed", "completed", "empty"}]
  BY SlotTypes DEF Serial, RunsInv, TypeOK
<1>s. \A q \in Slots : q = p
  BY DEF OneSlot
<1>1. /\ pc[p] \in Predicting /\ UNCHANGED oddsRun /\ workflow'.odds = workflow.odds
      /\ workflow.prediction = None
  BY <1>t, RowLinks DEF CreatePredictionRun, CompletePredictionRun, FailPredictionRun,
     RecordPrediction, evidenceVars, Predicting, Serial, InStep
<1>2. \A o \in OddsRuns : ~HeldOdds(o)
  BY <1>s, <1>1 DEF HeldOdds, Predicting
<1>3. \A o \in OddsRuns : oddsRun'[o] \in Live => workflow'.odds = o
  BY <1>1, <1>2 DEF RunsHeld
<1>4. ASSUME NEW r \in PredictionRuns, predictionRun[r] \in Live
      PROVE  pc[p] \in {"predicting", "record_prediction"} /\ local[p].run = r
  BY <1>1, <1>4, <1>s, WorkflowAssumption DEF RunsHeld, HeldPrediction
<1>5. ASSUME NEW r \in PredictionRuns, predictionRun'[r] \in Live
      PROVE  \/ workflow'.prediction = r
             \/ pc'[p] \in {"predicting", "record_prediction"} /\ local'[p].run = r
  <2>1. CASE CreatePredictionRun(p)
    BY <1>4, <1>5, <1>t, <2>1 DEF CreatePredictionRun, Goto, Local
  <2>2. CASE CompletePredictionRun(p)
    BY <1>4, <1>5, <1>t, <2>2 DEF CompletePredictionRun, Goto, Live, Serial, RunsInv, RunInHand
  <2>3. CASE FailPredictionRun(p)
    <3>1. /\ predictionRun' = [predictionRun EXCEPT ![local[p].run] = "failed"]
          /\ local[p].run \in PredictionRuns /\ pc[p] = "predicting"
      BY <2>3, ProviderFaults DEF FailPredictionRun, Serial, RunsInv, RunInHand
    <3> QED BY <1>4, <1>5, <1>t, <3>1 DEF Live
  <2>4. CASE RecordPrediction(p)
    <3>1. workflow'.prediction = local[p].run /\ UNCHANGED predictionRun
      BY <1>t, <2>4, RowLinks DEF RecordPrediction, evidenceVars
    <3> QED BY <1>4, <1>5, <3>1
  <2> QED BY <2>1, <2>2, <2>3, <2>4
<1> QED BY <1>3, <1>5 DEF RunsHeld, HeldPrediction

LEMMA MakingOdds ==
    ASSUME OneSlot, OnlyProvidersFail, NEW p \in Slots, Serial(p), RunsHeld,
           \/ ReserveEntryOdds(p) \/ CompleteOddsRun(p) \/ FailOddsRun(p) \/ RecordOdds(p)
    PROVE  RunsHeld'
<1>t. /\ workflow \in WorkflowRow /\ local \in [Slots -> Local] /\ pc \in [Slots -> Steps]
      /\ local[p] \in Local
      /\ oddsRun \in [OddsRuns -> {"absent", "running", "failed", "completed"}]
  BY SlotTypes DEF Serial, RunsInv, TypeOK
<1>s. \A q \in Slots : q = p
  BY DEF OneSlot
<1>1. /\ pc[p] \in Pricing /\ UNCHANGED predictionRun
      /\ workflow'.prediction = workflow.prediction /\ workflow.odds = None
  BY <1>t, RowLinks DEF ReserveEntryOdds, CompleteOddsRun, FailOddsRun, RecordOdds, evidenceVars,
     Pricing, Serial, InStep
<1>2. \A r \in PredictionRuns : ~HeldPrediction(r)
  BY <1>s, <1>1 DEF HeldPrediction, Pricing
<1>3. \A r \in PredictionRuns : predictionRun'[r] \in Live => workflow'.prediction = r
  BY <1>1, <1>2 DEF RunsHeld
<1>4. ASSUME NEW o \in OddsRuns, oddsRun[o] \in Live
      PROVE  pc[p] \in {"fetching", "record_odds"} /\ local[p].run = o
  BY <1>1, <1>4, <1>s, WorkflowAssumption DEF RunsHeld, HeldOdds
<1>5. ASSUME NEW o \in OddsRuns, oddsRun'[o] \in Live
      PROVE  \/ workflow'.odds = o
             \/ pc'[p] \in {"fetching", "record_odds"} /\ local'[p].run = o
  <2>1. CASE ReserveEntryOdds(p)
    BY <1>4, <1>5, <1>t, <2>1 DEF ReserveEntryOdds, Goto, Local
  <2>2. CASE CompleteOddsRun(p)
    BY <1>4, <1>5, <1>t, <2>2 DEF CompleteOddsRun, Goto, Live, Serial, RunsInv, RunInHand
  <2>3. CASE FailOddsRun(p)
    <3>1. /\ oddsRun' = [oddsRun EXCEPT ![local[p].run] = "failed"]
          /\ local[p].run \in OddsRuns /\ pc[p] = "fetching"
      BY <2>3, ProviderFaults DEF FailOddsRun, Serial, RunsInv, RunInHand
    <3> QED BY <1>4, <1>5, <1>t, <3>1 DEF Live
  <2>4. CASE RecordOdds(p)
    <3>1. workflow'.odds = local[p].run /\ UNCHANGED oddsRun
      BY <1>t, <2>4, RowLinks DEF RecordOdds, evidenceVars
    <3> QED BY <1>4, <1>5, <3>1
  <2> QED BY <2>1, <2>2, <2>3, <2>4
<1> QED BY <1>3, <1>5 DEF RunsHeld, HeldOdds

LEMMA RunsHeldStep ==
    ASSUME OneSlot, OnlyProvidersFail, RunsInv, SerialInv, RunsHeld, [Next]_vars
    PROVE  RunsHeld'
<1>1. ASSUME NEW p \in Slots, SlotNext(p) PROVE RunsHeld'
  <2>1. Serial(p)
    BY DEF Serial, SerialInv
  <2>2. CASE MakingRun(p)
    BY <2>1, <2>2, MakingPrediction, MakingOdds DEF MakingRun
  <2>3. CASE ~MakingRun(p)
    BY <1>1, <2>1, <2>3, OtherSteps, QuietRuns
  <2> QED BY <2>2, <2>3
<1>2. CASE SlateStarts \/ (\E g \in Games : GameEnds(g)) \/ UNCHANGED vars
  BY <1>2 DEF SlateStarts, GameEnds, vars, evidenceVars, RunsHeld, HeldPrediction, HeldOdds
<1> QED BY <1>1, <1>2 DEF Next

(* With no crash and no database outage, every run of the day is linked to *)
(* the row, failed, or held by the step that will link it: a retry never   *)
(* meets a run nobody owns (_run_schedule_and_prediction,                  *)
(* _run_odds_ingestion).                                                   *)
THEOREM RunsAreAccounted ==
    ASSUME OneSlot PROVE Spec => []RunsAccounted
<1>1. Init => (OnlyProvidersFail => RunsHeld)
  BY DEF Init, RunsHeld, Live
<1>2. RunsInv /\ SerialInv /\ (OnlyProvidersFail => RunsHeld) /\ [Next]_vars
        => (OnlyProvidersFail => RunsHeld)'
  BY RunsHeldStep, FailingStays DEF OnlyProvidersFail
<1>3. (OnlyProvidersFail => RunsHeld) => RunsAccounted
  BY DEF RunsHeld, RunsAccounted, Live, HeldPrediction, HeldOdds
<1> QED BY <1>1, <1>2, <1>3, SerialInvariant, PTL DEF Spec

-----------------------------------------------------------------------------
(* A card that awaits results is evaluated.                                *)

LEMMA RowStages ==
    ASSUME NEW w \in WorkflowRow
    PROVE  /\ \A s : StartAttempt(w, s).stage = s /\ AdvanceStage(w, s).stage = s
           /\ \A r : /\ RecordPredictionRun(w, r).stage = "odds_ingestion"
                     /\ RecordOddsRun(w, r).stage = "evaluation"
           /\ \A s \in Stages : /\ FailWorkflow(w, s).stage = s
                                /\ FailWorkflow(w, s).status = "failed"
           /\ \A s : s \notin Stages => FailWorkflow(w, s) = w
BY DEF StartAttempt, AdvanceStage, RecordPredictionRun, RecordOddsRun, FailWorkflow, WorkflowRow

Published(p) == RowPublished /\ SlotPublished(p)

(* The steps at which nothing of SlotPublished is asked.                   *)
FreeSteps == (PregameSteps \ {"begin_pregame"}) \cup NoCardSteps \cup {"read_failure"}

LEMMA FreeStep ==
    ASSUME NEW p \in Slots, pc'[p] \in FreeSteps PROVE SlotPublished(p)'
BY DEF FreeSteps, SlotPublished, PregameSteps, PostgameSteps, NoCardSteps, RecheckSteps

(* The row before a step of pregame or of postgame, when the card stays.   *)
LEMMA QuietRow ==
    ASSUME RowPublished, UNCHANGED workflow, evaluated \subseteq evaluated'
    PROVE  RowPublished'
BY DEF RowPublished, Card

LEMMA PregamePublished ==
    ASSUME NEW p \in Slots, Serial(p), Published(p),
           PregameStep(p) \/ FailPredictionRun(p) \/ FailOddsRun(p)
    PROVE  Published(p)'
<1>t. /\ workflow \in WorkflowRow /\ local \in [Slots -> Local] /\ pc \in [Slots -> Steps]
      /\ local[p] \in Local /\ local[p].row \in WorkflowRow
  BY SlotTypes DEF Serial
<1>1. CASE BeginPregame(p)
  <2>1. /\ workflow'.status = "running" /\ workflow'.stage \in PregameStages
        /\ UNCHANGED evaluated
        /\ pc'[p] \in {"schedule", "odds", "evaluate"}
    BY <1>1, <1>t, RowStatuses, RowStages DEF BeginPregame, Published, SlotPublished, evidenceVars,
       Goto, FirstPregameStep
  <2>2. RowPublished'
    BY <2>1 DEF RowPublished, PregameStages, ReachedPostgame
  <2> QED BY <2>1, <2>2, FreeStep DEF Published, FreeSteps, PregameSteps
<1>2. CASE SyncSchedule(p) \/ StageAudit(p) \/ RecordPrediction(p) \/ RecordOdds(p)
  <2>1. workflow.status = "running"
    BY <1>2 DEF SyncSchedule, StageAudit, RecordPrediction, RecordOdds, Serial, InStep,
       PregameSteps
  <2>2. /\ workflow'.status = "running"
        /\ workflow'.stage \in {"prediction", "pregame_audit", "odds_ingestion", "evaluation"}
        /\ pc'[p] \in {"predict", "pregame_audit", "odds", "evaluate"}
    BY <1>2, <1>t, <2>1, RowStatuses, RowStages DEF SyncSchedule, StageAudit, RecordPrediction,
       RecordOdds, Goto
  <2>3. RowPublished'
    BY <2>2 DEF RowPublished, ReachedPostgame
  <2> QED BY <2>2, <2>3, FreeStep DEF Published, FreeSteps, PregameSteps
<1>3. CASE \/ CreatePredictionRun(p) \/ CompletePredictionRun(p) \/ FailPredictionRun(p)
           \/ ReserveEntryOdds(p) \/ CompleteOddsRun(p) \/ FailOddsRun(p)
           \/ Evaluate(p) \/ AuditPregame(p)
  <2>1. /\ UNCHANGED workflow /\ evaluated \subseteq evaluated'
        /\ pc'[p] \in {"predicting", "record_prediction", "fetching", "record_odds",
                       "stage_audit", "publish", "read_failure"}
    BY <1>3, <1>t DEF CreatePredictionRun, CompletePredictionRun, FailPredictionRun,
       ReserveEntryOdds, CompleteOddsRun, FailOddsRun, Evaluate, AuditPregame, evidenceVars, Goto
  <2> QED BY <2>1, QuietRow, FreeStep DEF Published, FreeSteps, PregameSteps
<1>4. CASE Publish(p)
  <2>1. /\ Card(workflow) \in evaluated /\ pc'[p] = "finish" /\ UNCHANGED evaluated
        /\ workflow'.prediction = workflow.prediction /\ workflow'.odds = workflow.odds
    BY <1>4, <1>t, RowLinks DEF Publish, Serial, Counted, Goto, evidenceVars
  <2>2. /\ workflow'.status \in {"awaiting_results", "completed"}
        /\ workflow'.stage \in {"results_ingestion", "complete"}
    BY <1>4, <1>t DEF Publish, AwaitResults, CompleteWorkflow, WorkflowRow
  <2>3. RowPublished'
    BY <2>1, <2>2 DEF RowPublished, Card
  <2>4. SlotPublished(p)'
    BY <2>1, <2>2 DEF SlotPublished, PostgameSteps, RecheckSteps
  <2> QED BY <2>3, <2>4 DEF Published
<1>5. CASE Finish(p)
  <2>1. UNCHANGED <<workflow, evaluated>> /\ pc[p] = "finish" /\ pc'[p] = "idle"
    BY <1>5, <1>t DEF Finish, End, Goto, evidenceVars
  <2>2. SlotPublished(p)'
    BY <2>1 DEF Published, SlotPublished, PostgameSteps, RecheckSteps
  <2> QED BY <2>1, <2>2, QuietRow DEF Published
<1> QED BY <1>1, <1>2, <1>3, <1>4, <1>5 DEF PregameStep

LEMMA StartPublished ==
    ASSUME NEW p \in Slots, Serial(p), Published(p), StartPregame(p) \/ StartPostgame(p)
    PROVE  Published(p)'
<1>t. /\ workflow \in WorkflowRow /\ local \in [Slots -> Local] /\ pc \in [Slots -> Steps]
      /\ local[p] \in Local
  BY SlotTypes DEF Serial
<1>1. UNCHANGED <<workflow, evaluated>> /\ pc[p] = "idle" /\ workflow.status # "running"
  BY DEF StartPregame, StartPostgame, evidenceVars, Published, SlotPublished
<1>2. CASE StartPregame(p)
  <2>1. pc'[p] = "begin_pregame" /\ local'[p].stage \in PregameStages
    BY <1>2, <1>t DEF StartPregame, Goto, ResumeStage, PregameStages, Local
  <2>2. SlotPublished(p)'
    BY <2>1 DEF SlotPublished, PostgameSteps, RecheckSteps
  <2> QED BY <1>1, <2>2, QuietRow DEF Published
<1>3. CASE StartPostgame(p) /\ (workflow.status = "failed" \/ MissingLinkage(workflow))
  <2>1. pc'[p] = "evidence"
    BY <1>3, <1>t DEF StartPostgame, Goto
  <2>2. SlotPublished(p)'
    BY <1>1, <2>1 DEF SlotPublished, PostgameSteps, RecheckSteps
  <2> QED BY <1>1, <2>2, QuietRow DEF Published
<1>4. CASE StartPostgame(p) /\ workflow.status # "failed" /\ ~MissingLinkage(workflow)
  <2>1. /\ pc'[p] = IF workflow.status = "completed" THEN "recheck_results" ELSE "begin_postgame"
        /\ local'[p].stage = "results_ingestion"
    BY <1>4, <1>t DEF StartPostgame, Goto, Local
  <2>2. workflow.status \in {"awaiting_results", "completed"}
    BY <1>1, <1>4, <1>t DEF Published, RowPublished, MissingLinkage, WorkflowRow, Statuses
  <2>3. Card(workflow) \in evaluated
    BY <2>2 DEF Published, RowPublished
  <2>4. SlotPublished(p)'
    BY <1>1, <2>1, <2>3 DEF SlotPublished, PostgameSteps, RecheckSteps, RecheckStages
  <2> QED BY <1>1, <2>4, QuietRow DEF Published
<1> QED BY <1>2, <1>3, <1>4 DEF StartPostgame

LEMMA JudgePublished ==
    ASSUME NEW p \in Slots, Serial(p), Published(p), JudgeEvidence(p)
    PROVE  Published(p)'
<1>t. /\ workflow \in WorkflowRow /\ local \in [Slots -> Local] /\ pc \in [Slots -> Steps]
      /\ local[p] \in Local
  BY SlotTypes DEF Serial
<1>1. /\ UNCHANGED <<workflow, evaluated>> /\ pc[p] = "evidence" /\ local[p].row = workflow
      /\ workflow.status # "running" /\ (workflow.status = "failed" \/ MissingLinkage(workflow))
  BY DEF JudgeEvidence, evidenceVars, Published, SlotPublished, Serial, InStep
<1>2. CASE pc'[p] = "idle"
  <2>1. SlotPublished(p)'
    BY <1>1, <1>2 DEF SlotPublished, PostgameSteps, RecheckSteps
  <2> QED BY <1>1, <2>1, QuietRow DEF Published
<1>3. CASE pc'[p] = "no_card_results"
  BY <1>1, <1>3, QuietRow, FreeStep DEF Published, FreeSteps, NoCardSteps
<1>4. CASE pc'[p] = "begin_postgame"
  <2>1. ~Refuses(workflow) /\ ~IsNoCard(workflow)
    BY <1>1, <1>4, <1>t DEF JudgeEvidence, End, Goto
  <2>2. workflow.stage \notin PregameStages /\ workflow.prediction # None
    BY <1>1, <2>1 DEF Refuses, MissingLinkage
  <2>3. workflow.stage \in ReachedPostgame
    BY <1>t, <2>2 DEF Published, RowPublished, WorkflowRow, Stages, PregameStages, ReachedPostgame
  <2>4. Card(workflow) \in evaluated
    BY <2>3 DEF Published, RowPublished
  <2>5. SlotPublished(p)'
    BY <1>1, <1>4, <2>4 DEF SlotPublished, RecheckSteps
  <2> QED BY <1>1, <2>5, QuietRow DEF Published
<1>5. pc'[p] \in {"idle", "no_card_results", "begin_postgame"}
  BY <1>t DEF JudgeEvidence, End, Goto
<1> QED BY <1>2, <1>3, <1>4, <1>5

(* The steps of postgame that write the row.                               *)
LEMMA PostgameRowPublished ==
    ASSUME NEW p \in Slots, Serial(p), Published(p),
           BeginPostgame(p) \/ StageSettlement(p) \/ MarkSettlement(p) \/ Complete(p)
    PROVE  Published(p)'
<1>t. /\ workflow \in WorkflowRow /\ local \in [Slots -> Local] /\ pc \in [Slots -> Steps]
      /\ local[p] \in Local
  BY SlotTypes DEF Serial
<1>1. /\ Card(workflow) \in evaluated /\ UNCHANGED evaluated
      /\ workflow'.prediction = workflow.prediction /\ workflow'.odds = workflow.odds
      /\ local'[p].count = local[p].count
  BY <1>t, RowLinks DEF BeginPostgame, StageSettlement, MarkSettlement, Complete, Published,
     SlotPublished, PostgameSteps, evidenceVars, Local
<1>2. workflow.prediction # None
  <2>1. evaluated \subseteq PredictionRuns \X OddsRuns
    BY DEF Serial, RunsInv, TypeOK
  <2> QED BY <1>1, <2>1, WorkflowAssumption DEF Card
<1>3. workflow.status # "pending" /\ workflow'.stage # "initialized" /\ workflow'.status # "pending"
  <2>1. workflow.status # "pending"
    BY <1>2 DEF Published, RowPublished
  <2>2. workflow'.status # "pending"
    BY <1>t, <2>1, RowStatuses DEF BeginPostgame, StageSettlement, MarkSettlement, Complete
  <2>3. /\ StartAttempt(workflow, "results_ingestion").stage # "initialized"
        /\ AdvanceStage(workflow, "settlement").stage # "initialized"
    BY <1>t, RowStages
  <2>4. /\ PostgamePending(workflow).stage # "initialized"
        /\ SettlementCompleted(workflow).stage # "initialized"
        /\ CompleteWorkflow(workflow).stage # "initialized"
    BY <1>t DEF PostgamePending, SettlementCompleted, CompleteWorkflow, WorkflowRow
  <2>5. workflow'.stage # "initialized"
    BY <2>3, <2>4 DEF BeginPostgame, StageSettlement, MarkSettlement, Complete
  <2> QED BY <2>1, <2>2, <2>5
<1>4. RowPublished'
  BY <1>1, <1>3 DEF RowPublished, Card
<1>5. /\ pc'[p] \in {"results", "settle", "final_audit", "finish"}
      /\ pc'[p] = "finish" => workflow'.status = "completed"
      /\ pc'[p] = "final_audit" /\ local[p].count => workflow'.status = "awaiting_results"
  BY <1>t, RowStatuses DEF BeginPostgame, StageSettlement, MarkSettlement, Complete, Goto
<1>6. SlotPublished(p)'
  BY <1>1, <1>5 DEF SlotPublished, RecheckSteps, Card
<1> QED BY <1>4, <1>6 DEF Published

(* The steps of postgame that leave the row alone.                         *)
LEMMA PostgameQuietPublished ==
    ASSUME NEW p \in Slots, Serial(p), Published(p),
           IngestResults(p) \/ Settle(p) \/ SettleEarlyEntry(p) \/ FinalAudit(p)
    PROVE  Published(p)'
<1>t. /\ workflow \in WorkflowRow /\ local \in [Slots -> Local] /\ pc \in [Slots -> Steps]
      /\ local[p] \in Local
  BY SlotTypes DEF Serial
<1>1. UNCHANGED <<workflow, evaluated>>
  BY DEF IngestResults, Settle, SettleEarlyEntry, FinalAudit, evidenceVars
<1>2. RowPublished'
  BY <1>1, QuietRow DEF Published
<1>3. CASE pc[p] \in NoCardSteps
  <2>1. pc'[p] \in {"idle", "no_card_early"} /\ workflow.status = "failed"
    BY <1>3, <1>t DEF NoCardSteps, IngestResults, AfterResults, Settle, SettleEarlyEntry,
       FinalAudit, End, Goto, Serial, Counted
  <2>2. SlotPublished(p)'
    BY <1>1, <2>1 DEF SlotPublished, PostgameSteps, RecheckSteps
  <2> QED BY <1>2, <2>2 DEF Published
<1>4. CASE pc[p] \in RecheckSteps
  <2>1. workflow.status = "completed" /\ local[p].stage \in RecheckStages
    BY <1>4 DEF Published, SlotPublished
  <2>2. /\ pc'[p] \in {"recheck_early", "recheck_audit", "idle", "mark_failure"}
        /\ pc'[p] # "idle" => local'[p].stage \in RecheckStages
    BY <1>4, <1>t, <2>1 DEF RecheckSteps, RecheckStages, IngestResults, AfterResults, Settle,
       SettleEarlyEntry, FinalAudit, End, Goto, Local
  <2>3. SlotPublished(p)'
    BY <1>1, <2>1, <2>2 DEF SlotPublished, PostgameSteps, RecheckSteps
  <2> QED BY <1>2, <2>3 DEF Published
<1>5. CASE pc[p] \in PostgameSteps
  <2>1. /\ Card(workflow) \in evaluated
        /\ pc[p] = "final_audit" /\ local[p].count => workflow.status # "running"
    BY <1>5 DEF Published, SlotPublished, IngestResults, AfterResults, Settle, SettleEarlyEntry,
       FinalAudit
  <2>2. \/ pc'[p] \in {"stage_settlement", "early", "mark_settlement", "complete"}
        \/ pc'[p] = "read_failure"
        \/ pc'[p] = "finish" /\ pc[p] = "final_audit" /\ local[p].count
    BY <1>5, <1>t DEF PostgameSteps, IngestResults, AfterResults, Settle, SettleEarlyEntry,
       FinalAudit, Goto
  <2>3. SlotPublished(p)'
    BY <1>1, <2>1, <2>2 DEF SlotPublished, PostgameSteps, RecheckSteps
  <2> QED BY <1>2, <2>3 DEF Published
<1> QED BY <1>3, <1>4, <1>5 DEF IngestResults, AfterResults, Settle, SettleEarlyEntry, FinalAudit,
        NoCardSteps, RecheckSteps, PostgameSteps

LEMMA FailurePublished ==
    ASSUME OnlyProvidersFail, NEW p \in Slots, Serial(p), Published(p),
           \/ StepRaises(p) \/ IngestRaises(p) \/ EarlyEntryRaises(p) \/ Crash(p)
           \/ HandlerStep(p)
    PROVE  Published(p)'
<1>t. /\ workflow \in WorkflowRow /\ local \in [Slots -> Local] /\ pc \in [Slots -> Steps]
      /\ local[p] \in Local
  BY SlotTypes DEF Serial
<1>1. CASE StepRaises(p) \/ IngestRaises(p) \/ EarlyEntryRaises(p)
  <2>1. UNCHANGED <<workflow, evaluated>>
    BY <1>1 DEF StepRaises, IngestRaises, EarlyEntryRaises, evidenceVars
  <2>2. \/ pc[p] \in NoCardSteps /\ pc'[p] = "idle"
        \/ pc[p] \in RecheckSteps /\ pc'[p] = "mark_failure" /\ UNCHANGED local
        \/ pc'[p] = "read_failure"
    BY <1>1, <1>t, ProviderFaults DEF StepRaises, IngestRaises, EarlyEntryRaises, AfterResults,
       Raise, End, Goto, NoCardSteps, RecheckSteps
  <2>3. pc[p] \in NoCardSteps => workflow.status = "failed"
    BY DEF Serial, Counted
  <2>4. pc[p] \in RecheckSteps => workflow.status = "completed" /\ local[p].stage \in RecheckStages
    BY DEF Published, SlotPublished
  <2>5. CASE pc'[p] = "read_failure"
    BY <2>1, <2>5, QuietRow, FreeStep DEF Published, FreeSteps
  <2>6. CASE pc'[p] = "idle" /\ workflow.status = "failed"
    <3>1. SlotPublished(p)'
      BY <2>1, <2>6 DEF SlotPublished, PostgameSteps, RecheckSteps
    <3> QED BY <2>1, <3>1, QuietRow DEF Published
  <2>7. CASE /\ pc'[p] = "mark_failure" /\ UNCHANGED local
             /\ workflow.status = "completed" /\ local[p].stage \in RecheckStages
    <3>1. SlotPublished(p)'
      BY <2>1, <2>7 DEF SlotPublished, PostgameSteps, RecheckSteps
    <3> QED BY <2>1, <3>1, QuietRow DEF Published
  <2> QED BY <2>2, <2>3, <2>4, <2>5, <2>6, <2>7
<1>2. CASE ReadFailureStage(p)
  <2>1. /\ UNCHANGED <<workflow, evaluated>> /\ pc'[p] = "mark_failure"
        /\ local'[p].stage = workflow.stage
    <3>1. local' = [local EXCEPT ![p].stage = workflow.stage]
      BY <1>2, ProviderFaults
    <3>2. local'[p].stage = workflow.stage
      BY <1>t, <3>1 DEF Local
    <3> QED BY <1>2, <1>t, <3>2 DEF ReadFailureStage, evidenceVars, Goto
  <2>2. SlotPublished(p)'
    BY <2>1 DEF SlotPublished, PostgameSteps, RecheckSteps
  <2> QED BY <2>1, <2>2, QuietRow DEF Published
<1>3. CASE MarkFailure(p)
  <2>1. /\ UNCHANGED evaluated /\ pc'[p] = "idle"
        /\ workflow' = FailWorkflow(workflow, local[p].stage)
        /\ \/ local[p].stage = workflow.stage
           \/ workflow.status = "completed" /\ local[p].stage \in RecheckStages
    BY <1>3, <1>t, ProviderFaults DEF MarkFailure, evidenceVars, End, Goto, Published,
       SlotPublished
  <2>2. /\ workflow'.prediction = workflow.prediction /\ workflow'.odds = workflow.odds
    BY <1>t, <2>1, RowLinks
  <2>3. CASE local[p].stage \notin Stages
    <3>1. workflow' = workflow /\ workflow.status = "completed"
      BY <1>t, <2>1, <2>3, RowStages DEF WorkflowRow
    <3>2. SlotPublished(p)'
      BY <2>1, <3>1 DEF SlotPublished, PostgameSteps, RecheckSteps
    <3> QED BY <2>1, <3>1, <3>2, QuietRow DEF Published
  <2>4. CASE local[p].stage \in Stages
    <3>1. workflow'.stage = local[p].stage /\ workflow'.status = "failed"
      BY <1>t, <2>1, <2>4, RowStages
    <3>2. workflow'.stage \in ReachedPostgame => Card(workflow') \in evaluated'
      BY <2>1, <2>2, <3>1 DEF Published, RowPublished, Card
    <3>3. workflow'.stage = "initialized" => workflow'.prediction = None
      BY <2>1, <2>2, <3>1 DEF Published, RowPublished, RecheckStages
    <3>4. RowPublished'
      BY <3>1, <3>2, <3>3 DEF RowPublished, Card
    <3>5. SlotPublished(p)'
      BY <2>1, <3>1 DEF SlotPublished, PostgameSteps, RecheckSteps
    <3> QED BY <3>4, <3>5 DEF Published
  <2> QED BY <2>3, <2>4
<1> QED BY <1>1, <1>2, <1>3, ProviderFaults DEF HandlerStep

LEMMA PublishedStep ==
    ASSUME OneSlot, OnlyProvidersFail, RunsInv, SerialInv, PublishedInv, [Next]_vars
    PROVE  PublishedInv'
<1>1. ASSUME NEW p \in Slots, SlotNext(p) PROVE PublishedInv'
  <2>1. Serial(p) /\ Published(p) /\ (\A q \in Slots : q = p)
    BY DEF Serial, SerialInv, PublishedInv, Published, OneSlot
  <2>2. Published(p)'
    BY <1>1, <2>1, StartPublished, PregamePublished, JudgePublished, PostgameRowPublished,
       PostgameQuietPublished, FailurePublished DEF SlotNext, PostgameStep, FailureStep
  <2> QED BY <2>1, <2>2 DEF Published, PublishedInv
<1>2. CASE SlateStarts \/ (\E g \in Games : GameEnds(g)) \/ UNCHANGED vars
  <2>1. UNCHANGED <<workflow, evaluated, pc, local>>
    BY <1>2 DEF SlateStarts, GameEnds, vars, evidenceVars
  <2> QED BY <2>1 DEF PublishedInv, RowPublished, SlotPublished, Card
<1> QED BY <1>1, <1>2 DEF Next

(* With no crash and no database outage, a day that awaits results names a *)
(* pair of runs whose evaluations are stored: postgame settles the card    *)
(* that pregame published (_mark_pregame_terminal_state,                   *)
(* _mark_postgame_settlement_state).                                       *)
THEOREM AwaitedCardIsEvaluated ==
    ASSUME OneSlot PROVE Spec => []PublishedCardEvaluated
<1>1. Init => (OnlyProvidersFail => PublishedInv)
  <2> SUFFICES ASSUME Init PROVE PublishedInv
    OBVIOUS
  <2>1. workflow = NewWorkflow /\ \A p \in Slots : pc[p] = "idle"
    BY DEF Init
  <2> QED BY <2>1 DEF PublishedInv, RowPublished, SlotPublished, NewWorkflow, ReachedPostgame,
          PostgameSteps, RecheckSteps
<1>2. RunsInv /\ SerialInv /\ (OnlyProvidersFail => PublishedInv) /\ [Next]_vars
        => (OnlyProvidersFail => PublishedInv)'
  BY PublishedStep, FailingStays DEF OnlyProvidersFail
<1>3. (OnlyProvidersFail => PublishedInv) => PublishedCardEvaluated
  BY DEF PublishedInv, RowPublished, PublishedCardEvaluated
<1> QED BY <1>1, <1>2, <1>3, SerialInvariant, PTL DEF Spec
=============================================================================
