--------------------------- MODULE NflSeasonProofs ---------------------------
(***************************************************************************)
(* Proofs about the season: captures and their evidence, the record of     *)
(* predictions and prices, and the research on the seasons before, for any *)
(* schedules, answers and processes.                                       *)
(***************************************************************************)
EXTENDS NflSeason, OrderFacts

-----------------------------------------------------------------------------
(* Games. *)

FileRows == Stored \cup UNION Schedules

(* Every game in the database is a row of some file.                       *)
GamesInv ==
    /\ clock \in Int
    /\ games \in [DOMAIN games -> FileRows]
    /\ \A g \in DOMAIN games : games[g].kickoff \in Int
    /\ plan \in [Importers -> [rows : SUBSET FileRows, stats : SUBSET UNION Statistics]]

LEMMA GamesInit1 == ASSUME NEW season, GamesInit(season) PROVE GamesInv
<1>1. StoredSince(season) \in [DOMAIN StoredSince(season) -> FileRows]
  BY DEF StoredSince, FileRows
<1>2. games \in [DOMAIN games -> FileRows]
  BY <1>1 DEF GamesInit
<1>3. \A g \in DOMAIN games : games[g].kickoff \in Int
  BY <1>2, GamesAssumption DEF FileRows
<1>4. plan \in [Importers -> [rows : SUBSET FileRows, stats : SUBSET UNION Statistics]]
  BY DEF GamesInit, NoPlan
<1> QED BY <1>2, <1>3, <1>4, GamesAssumption DEF GamesInit, GamesInv

(* What an upsert leaves: rows of files, and every game that was there.    *)
LEMMA UpsertRows ==
    ASSUME NEW db, NEW rows \in SUBSET FileRows, db \in [DOMAIN db -> FileRows]
    PROVE  /\ Upsert(db, rows) \in [DOMAIN Upsert(db, rows) -> FileRows]
           /\ DOMAIN db \subseteq DOMAIN Upsert(db, rows)
  BY DEF Upsert

LEMMA ImportKeepsGames ==
    ASSUME GamesInv, NEW i \in Importers, ImportStep(i)
    PROVE  GamesInv' /\ DOMAIN games \subseteq DOMAIN games' /\ clock' = clock
<1> USE DEF GamesInv
<1>1. CASE PlanFuture(i)
  <2>1. PICK edition \in Published :
           \/ plan' = [plan EXCEPT ![i].rows = FutureWrites(games, FutureRows(edition))]
           \/ plan' = plan
    BY <1>1 DEF PlanFuture
  <2>2. FutureWrites(games, FutureRows(edition)) \subseteq FileRows
    BY DEF FutureWrites, FutureRows, Published, FileRows
  <2> QED BY <1>1, <2>1, <2>2 DEF PlanFuture
<1>2. CASE PlanBackfill(i)
  <2>1. PICK edition \in Published, st \in Statistics :
           \/ plan' = [plan EXCEPT ![i] = [rows |-> edition, stats |-> st]]
           \/ plan' = plan
    BY <1>2 DEF PlanBackfill
  <2>2. edition \subseteq FileRows /\ st \subseteq UNION Statistics
    BY DEF Published, FileRows
  <2> QED BY <1>2, <2>1, <2>2 DEF PlanBackfill
<1>3. CASE WriteGames(i)
  <2>1. /\ games' \in [DOMAIN games' -> FileRows]
        /\ DOMAIN games \subseteq DOMAIN games'
    BY <1>3, UpsertRows DEF WriteGames
  <2> QED BY <1>3, <2>1, GamesAssumption DEF WriteGames, FileRows
<1>4. CASE \/ StartGames(i) \/ StartStatistics(i) \/ WriteStatistics(i)
           \/ IngestionFails(i) \/ Audit(i)
  BY <1>4 DEF StartGames, StartStatistics, WriteStatistics, IngestionFails, Audit
<1> QED BY <1>1, <1>2, <1>3, <1>4 DEF ImportStep

(* Every step of the season keeps the games.                               *)
LEMMA NextKeepsGames ==
    ASSUME GamesInv, [Next]_seasonVars
    PROVE  GamesInv' /\ DOMAIN games \subseteq DOMAIN games' /\ clock <= clock'
<1>1. CASE \E i \in Importers \cap crew.who : Import(i)
  BY <1>1, ImportKeepsGames DEF Import, GamesInv
<1>2. CASE \E p \in Predictors \cap crew.who : Predict(p)
  BY <1>2 DEF Predict, GamesInv, importVars
<1>3. CASE \E c \in Captures \cap crew.who : Capture(c)
  BY <1>3 DEF Capture, GamesInv, importVars
<1>4. CASE \E e \in Evaluators \cap crew.who : Price(e)
  BY <1>4 DEF Price, GamesInv, importVars
<1>5. CASE \E r \in Researchers \cap crew.who : Research(r)
  BY <1>5 DEF Research, GamesInv, importVars
<1>6. CASE Tick
  BY <1>6 DEF Tick, GamesInv, importVars
<1>7. CASE UNCHANGED seasonVars
  BY <1>7 DEF seasonVars, GamesInv, importVars
<1> QED BY <1>1, <1>2, <1>3, <1>4, <1>5, <1>6, <1>7 DEF Next

-----------------------------------------------------------------------------
(* Captures. *)

Dates == {<<>>} \cup {DateOf[c] : c \in Captures}
CaptureRun ==
    [date : Dates, status : {"none", "running", "completed", "failed"},
     requested : Int, received : Int, completed : Int]

CaptureTypes ==
    /\ captureRuns \in [Captures -> CaptureRun]
    /\ capturing \in [Captures -> {"idle", "call", "record", "store", "qualify", "failing",
                                   "refused", "failed", "done", "unqualified", "dead"}]
    /\ calls \in [Captures -> Nat]

(* What each capture has done by the step it is at.                        *)
CaptureProgress ==
    \A c \in Captures :
        /\ calls[c] <= 1
        /\ capturing[c] \in {"idle", "call", "refused"} => calls[c] = 0
        /\ capturing[c] \in {"idle", "refused"} => captureRuns[c].status = "none"
        /\ capturing[c] \in {"call", "record", "store", "failing"} => captureRuns[c].status = "running"
        /\ capturing[c] = "qualify" => captureRuns[c].status = "completed"

Holds(c) == captureRuns[c].status \in {"running", "completed"}

DatesHeldOnce ==
    \A c, d \in Captures :
        Holds(c) /\ Holds(d) /\ captureRuns[c].date = captureRuns[d].date => c = d

CaptureInv == CaptureTypes /\ CaptureProgress /\ DatesHeldOnce

LEMMA CaptureInitInv == CaptureInit => CaptureInv
  BY DEF CaptureInit, CaptureInv, CaptureTypes, CaptureProgress, DatesHeldOnce, Holds, CaptureRun,
         NoCapture, Dates

(* The row of a capture may change, but neither its date nor, from free to *)
(* held, its hold on it.                                                   *)
SameRow(c) ==
    /\ \A d \in Captures : d # c => captureRuns'[d] = captureRuns[d]
    /\ captureRuns'[c].date = captureRuns[c].date
    /\ Holds(c)' => Holds(c)

LEMMA SameRowHolds == ASSUME DatesHeldOnce, NEW c \in Captures, SameRow(c) PROVE DatesHeldOnce'
  BY DEF DatesHeldOnce, SameRow, Holds

(* What _mark_run_failed does to the row, when it succeeds.                *)
LEMMA FailedRow ==
    ASSUME CaptureTypes, clock \in Int, NEW c \in Captures, MarkCaptureFailed(c),
           captureRuns' # captureRuns
    PROVE  /\ captureRuns' \in [Captures -> CaptureRun]
           /\ captureRuns'[c].status = "failed" /\ captureRuns'[c].completed = clock
           /\ captureRuns'[c].date = captureRuns[c].date
           /\ captureRuns'[c].requested = captureRuns[c].requested
           /\ \A d \in Captures : d # c => captureRuns'[d] = captureRuns[d]
<1> DEFINE row == [captureRuns[c] EXCEPT !.status = "failed", !.completed = clock]
<1>1. captureRuns' = [captureRuns EXCEPT ![c] = row]
  BY DEF MarkCaptureFailed
<1>2. captureRuns \in [Captures -> CaptureRun] /\ captureRuns[c] \in CaptureRun
  BY DEF CaptureTypes
<1>3. /\ row \in CaptureRun /\ row.status = "failed" /\ row.completed = clock
      /\ row.date = captureRuns[c].date /\ row.requested = captureRuns[c].requested
  BY <1>2 DEF CaptureRun
<1> HIDE DEF row
<1> QED BY <1>1, <1>2, <1>3

(* A step of a capture changes the row and the calls of that capture.      *)
LEMMA CaptureKeepsInv ==
    ASSUME GamesInv, CaptureInv, NEW c \in Captures, CaptureStep(c)
    PROVE  CaptureInv'
<1> USE DEF CaptureInv, CaptureTypes, CaptureProgress, DatesHeldOnce, Holds, SameRow, CaptureRun,
        CaptureGoto
<1>0. clock \in Int
  BY DEF GamesInv
<1>1. CASE ReserveCapture(c)
  <2>1. CASE ~(ScheduleAllows(c) /\ ~Reserved(DateOf[c]))
    BY <1>1, <2>1 DEF ReserveCapture
  <2>2. CASE ScheduleAllows(c) /\ ~Reserved(DateOf[c])
    <3>1. captureRuns' = [captureRuns EXCEPT ![c] =
             [NoCapture EXCEPT !.date = DateOf[c], !.status = "running", !.requested = clock]]
      BY <1>1, <2>2 DEF ReserveCapture
    <3>2. captureRuns'[c] = [date |-> DateOf[c], status |-> "running", requested |-> clock,
                             received |-> 0, completed |-> 0]
      BY <3>1 DEF NoCapture
    <3>3. \A d \in Captures : d # c => captureRuns'[d] = captureRuns[d]
      BY <3>1
    <3>4. captureRuns' \in [Captures -> CaptureRun]
      <4>1. DateOf[c] \in Dates
        BY DEF Dates
      <4>2. captureRuns'[c] \in CaptureRun
        BY <1>0, <3>2, <4>1
      <4> QED BY <3>1, <4>2
    <3>5. \A d \in Captures : ~(Holds(d) /\ captureRuns[d].date = DateOf[c])
      BY <2>2 DEF Reserved
    <3>6. capturing' = [capturing EXCEPT ![c] = "call"] /\ calls' = calls
      BY <1>1, <2>2 DEF ReserveCapture
    <3>7. CaptureProgress'
      BY <1>1, <3>2, <3>3, <3>6 DEF ReserveCapture
    <3>8. DatesHeldOnce'
      BY <3>2, <3>3, <3>5
    <3> QED BY <3>4, <3>6, <3>7, <3>8
  <2> QED BY <2>1, <2>2
<1>2. CASE CallProvider(c)
  BY <1>2 DEF CallProvider
<1>3. CASE RecordReceipt(c)
  <2>1. captureRuns' \in [Captures -> CaptureRun]
    BY <1>0, <1>3 DEF RecordReceipt
  <2>2. SameRow(c)
    BY <1>3 DEF RecordReceipt
  <2>3. CaptureTypes' /\ CaptureProgress'
    BY <1>3, <2>1 DEF RecordReceipt
  <2> QED BY <2>2, <2>3, SameRowHolds
<1>4. CASE StoreQuotes(c)
  <2>0. captureRuns[c].status = "running"
    BY <1>4 DEF StoreQuotes
  <2>1. captureRuns' = [captureRuns EXCEPT ![c] =
            [captureRuns[c] EXCEPT !.status = "completed", !.completed = clock]]
    BY <1>4 DEF StoreQuotes
  <2>2. captureRuns' \in [Captures -> CaptureRun] /\ captureRuns'[c].status = "completed"
    BY <1>0, <2>1
  <2>3. SameRow(c)
    BY <2>0, <2>1
  <2>4. CaptureTypes' /\ CaptureProgress'
    BY <1>4, <2>1, <2>2 DEF StoreQuotes
  <2> QED BY <2>3, <2>4, SameRowHolds
<1>5. CASE StoreFails(c)
  BY <1>5 DEF StoreFails
<1>6. CASE MarkCaptureFailed(c)
  <2>1. captureRuns' \in [Captures -> CaptureRun]
    BY <1>0, <1>6, FailedRow
  <2>2. captureRuns'[c].date = captureRuns[c].date /\ captureRuns'[c].status # "completed"
        /\ \A d \in Captures : d # c => captureRuns'[d] = captureRuns[d]
    BY <1>0, <1>6, FailedRow DEF MarkCaptureFailed
  <2>3. SameRow(c)
    BY <1>6, <2>2 DEF MarkCaptureFailed
  <2>4. CaptureTypes' /\ CaptureProgress'
    BY <1>6, <2>1, <2>2 DEF MarkCaptureFailed
  <2> QED BY <2>3, <2>4, SameRowHolds
<1>7. CASE Qualify(c)
  BY <1>7 DEF Qualify
<1>8. CASE QualificationFails(c) \/ CaptureCrash(c)
  BY <1>8 DEF QualificationFails, CaptureCrash
<1> QED BY <1>1, <1>2, <1>3, <1>4, <1>5, <1>6, <1>7, <1>8 DEF CaptureStep

-----------------------------------------------------------------------------
(* Predictions. *)

(* A prediction comes before its kickoff, and its sources before its game. *)
RecordTyped(n) ==
    /\ n.created \in Int /\ n.kickoff \in Int /\ n.created < n.kickoff
    /\ n.game \notin n.trace

(* A snapshot that is waited on, and the slate of an inference, are of     *)
(* games that are there.                                                   *)
PredictionInv ==
    /\ DOMAIN predicting = Predictors /\ DOMAIN expected = Predictors /\ DOMAIN seen = Predictors
    /\ \A p \in Predictors :
          /\ predicting[p] = "locking" => DOMAIN seen[p].games \subseteq DOMAIN games
          /\ predicting[p] = "inferring" => DOMAIN expected[p] \subseteq DOMAIN games
    /\ \A n \in predictions : RecordTyped(n)
    /\ \A n, m \in Official : n.game = m.game => n = m

(* What an execution may add to the record.                                *)
NewRecords(made) ==
    \A n \in made :
        /\ n.created = clock /\ RecordTyped(n)
        /\ n.official => n.game \notin OfficialGames
        /\ \A m \in made : n.game = m.game => n = m

(* What the cutoff of the history query leaves for the two routes.         *)
LEMMA SourcesBegin ==
    ASSUME NEW db, NEW st, NEW row, NEW g \in Inference(db, st, row).trace
    PROVE  g \in DOMAIN db /\ db[g].kickoff < row.kickoff
<1>1. g \in CurrentSources(db, st, row) \cup PriorSources(db, st, row)
  BY DEF Inference
<1>2. \E t : g \in CurrentIds(db, st, row, t) \/ g \in PriorIds(db, st, row, t)
  BY <1>1 DEF CurrentSources, PriorSources
<1>3. \E t, season : g \in HistoryIds(db, st, t, row.kickoff, season)
  BY <1>2 DEF CurrentIds, PriorIds
<1> QED BY <1>3 DEF HistoryIds

LEMMA PredictionInitInv == PredictionInit => PredictionInv
  BY DEF PredictionInit, PredictionInv, Official

LEMMA PredictionFields ==
    ASSUME NEW p \in Predictors, NEW g
    PROVE  /\ Prediction(p, g).game = g
           /\ Prediction(p, g).kickoff = seen[p].games[g].kickoff
           /\ Prediction(p, g).home = seen[p].games[g].home
           /\ Prediction(p, g).away = seen[p].games[g].away
           /\ Prediction(p, g).created = clock
           /\ Prediction(p, g).trace
                = Inference(seen[p].games, seen[p].stats, seen[p].games[g]).trace
           /\ Prediction(p, g).official <=> RequestOf[p].type = "official"
  BY DEF Prediction

(* The unique index is what keeps one official prediction of a game.       *)
LEMMA StoredRecords ==
    ASSUME GamesInv, PredictionInv, NEW p \in Predictors, StorePredictions(p)
    PROVE  \E made : predictions' = predictions \cup made /\ NewRecords(made)
<1> DEFINE targets == DOMAIN expected[p]
           made == {Prediction(p, g) : g \in targets}
<1>1. CASE predictions' = predictions
  <2>1. predictions' = predictions \cup {} /\ NewRecords({})
    BY <1>1 DEF NewRecords
  <2> QED BY <2>1
<1>2. CASE predictions' # predictions
  <2>1. /\ predictions' = predictions \cup made
        /\ \A g \in targets : games[g] = seen[p].games[g]
        /\ ~DuplicatesOfficial(p, targets)
        /\ \A g \in targets : ~(clock >= games[g].kickoff)
    BY <1>2 DEF StorePredictions
  <2>2. targets \subseteq DOMAIN games
    BY DEF StorePredictions, PredictionInv
  <2>3. \A g \in targets : seen[p].games[g].kickoff \in Int /\ clock < seen[p].games[g].kickoff
    BY <2>1, <2>2 DEF GamesInv
  <2>4. ASSUME NEW g \in targets
        PROVE  /\ Prediction(p, g).created = clock /\ RecordTyped(Prediction(p, g))
               /\ Prediction(p, g).official => Prediction(p, g).game \notin OfficialGames
    <3>1. g \notin Inference(seen[p].games, seen[p].stats, seen[p].games[g]).trace
      BY <2>3, SourcesBegin
    <3> QED BY <2>1, <2>3, <3>1, PredictionFields
            DEF RecordTyped, GamesInv, DuplicatesOfficial
  <2>5. ASSUME NEW g \in targets, NEW h \in targets, Prediction(p, g).game = Prediction(p, h).game
        PROVE  Prediction(p, g) = Prediction(p, h)
    BY <2>5, PredictionFields
  <2>6. NewRecords(made)
    BY <2>4, <2>5 DEF NewRecords
  <2> QED BY <2>1, <2>6
<1> QED BY <1>1, <1>2

LEMMA PredictorAdds ==
    ASSUME GamesInv, PredictionInv, NEW p \in Predictors, PredictorStep(p)
    PROVE  \E made : predictions' = predictions \cup made /\ NewRecords(made)
<1>1. CASE StorePredictions(p)
  BY <1>1, StoredRecords
<1>2. CASE ~StorePredictions(p)
  <2>1. predictions' = predictions \cup {} /\ NewRecords({})
    BY <1>2 DEF PredictorStep, LookUpRun, CreatePredictionRun, OpenSnapshot, LockRun,
                InferenceFails, RetainFailedRun, RetryPrediction, PredictorCrash, NewRecords
  <2> QED BY <2>1
<1> QED BY <1>1, <1>2

LEMMA NewRecordsUnique ==
    ASSUME PredictionInv, NEW made, predictions' = predictions \cup made, NewRecords(made)
    PROVE  /\ \A n \in predictions' : RecordTyped(n)
           /\ \A n, m \in Official' : n.game = m.game => n = m
<1>1. Official' = Official \cup {n \in made : n.official}
  BY DEF Official
<1>2. \A n \in Official : n.game \in OfficialGames
  BY DEF Official, OfficialGames
<1> QED BY <1>1, <1>2 DEF PredictionInv, NewRecords

(* A step of an execution leaves the others where they are.                *)
LEMMA PredictorFrame ==
    ASSUME PredictionInv, NEW p \in Predictors, PredictorStep(p)
    PROVE  /\ DOMAIN predicting' = Predictors /\ DOMAIN expected' = Predictors
           /\ DOMAIN seen' = Predictors
           /\ \A q \in Predictors : q # p => /\ predicting'[q] = predicting[q]
                                             /\ expected'[q] = expected[q] /\ seen'[q] = seen[q]
  BY DEF PredictionInv, PredictorStep, LookUpRun, CreatePredictionRun, OpenSnapshot, LockRun,
         StorePredictions, InferenceFails, RetainFailedRun, RetryPrediction, PredictorCrash,
         PredictGoto, Forget

LEMMA PredictorKeepsInv ==
    ASSUME GamesInv, PredictionInv, NEW p \in Predictors, PredictorStep(p), UNCHANGED games
    PROVE  PredictionInv'
<1>1. /\ \A n \in predictions' : RecordTyped(n)
      /\ \A n, m \in Official' : n.game = m.game => n = m
  BY PredictorAdds, NewRecordsUnique
<1>2. /\ DOMAIN predicting' = Predictors /\ DOMAIN expected' = Predictors
      /\ DOMAIN seen' = Predictors
      /\ \A q \in Predictors : q # p => /\ predicting'[q] = predicting[q]
                                        /\ expected'[q] = expected[q] /\ seen'[q] = seen[q]
  BY PredictorFrame
<1>3. predicting'[p] = "locking" => DOMAIN seen'[p].games \subseteq DOMAIN games
  BY DEF PredictionInv, PredictorStep, LookUpRun, CreatePredictionRun, OpenSnapshot, LockRun,
         StorePredictions, InferenceFails, RetainFailedRun, RetryPrediction, PredictorCrash,
         PredictGoto, Forget, TakeUp
<1>4. predicting'[p] = "inferring" => DOMAIN expected'[p] \subseteq DOMAIN games
  <2>1. CASE LockRun(p)
    <3>1. HAVE predicting'[p] = "inferring"
    <3>2. MayInfer(p) /\ predicting[p] = "locking" /\ expected'[p] = expected[p]
      BY <2>1, <3>1 DEF LockRun, PredictGoto, PredictionInv
    <3>3. DOMAIN expected[p] = Targets(seen[p].games, RequestOf[p])
      BY <3>2 DEF MayInfer, SlateOf
    <3>4. DOMAIN expected[p] \subseteq DOMAIN seen[p].games
      BY <3>3 DEF Targets
    <3> QED BY <3>2, <3>4 DEF PredictionInv
  <2>2. CASE ~LockRun(p)
    BY <2>2 DEF PredictionInv, PredictorStep, LookUpRun, CreatePredictionRun, OpenSnapshot,
         StorePredictions, InferenceFails, RetainFailedRun, RetryPrediction, PredictorCrash,
         PredictGoto, TakeUp
  <2> QED BY <2>1, <2>2
<1> QED BY <1>1, <1>2, <1>3, <1>4 DEF PredictionInv

-----------------------------------------------------------------------------
(* Evaluations. *)

PricedTyped(v) ==
    /\ v.prediction \in Official
    /\ v.at \in Int /\ v.graph.observed \in Int
    /\ v.prediction.created < v.at /\ v.at < v.prediction.kickoff
    /\ v.graph.observed < v.prediction.kickoff

(* What an execution was given, and what its snapshot can show.            *)
EvaluationInv ==
    /\ DOMAIN evaluating = Evaluators /\ DOMAIN pair = Evaluators /\ DOMAIN view = Evaluators
    /\ \A e \in Evaluators :
          /\ evaluating[e] \in {"open", "locking"} => pair[e] \in predictions \X Captures
          /\ evaluating[e] = "locking" => /\ view[e].evaluations \subseteq evaluations
                                          /\ view[e].captures \in [Captures -> CaptureRun]
    /\ \A v \in evaluations : PricedTyped(v)

(* What an execution may add to the record.                                *)
NewPrices(priced) ==
    \A v \in priced :
        /\ v.at = clock /\ PricedTyped(v)
        /\ \A w \in evaluations \cup priced : v.prediction = w.prediction => v = w

LEMMA EvaluationInitInv == EvaluationInit => EvaluationInv
  BY DEF EvaluationInit, EvaluationInv

(* An evaluation is completed on a snapshot whose game is still there and  *)
(* shows every evaluation of its prediction.                               *)
LEMMA CompletedPrices ==
    ASSUME GamesInv, PredictionInv, EvaluationInv, NEW e \in Evaluators, evaluating[e] = "locking",
           Complete(e, pair[e][1], pair[e][2])
    PROVE  \E priced : evaluations' = evaluations \cup priced /\ NewPrices(priced)
<1> DEFINE n == pair[e][1]
           c == pair[e][2]
           db == view[e]
           v == [prediction |-> n, graph |-> Graph(db, n, c), at |-> clock]
<1>1. CASE \E w \in evaluations : w.prediction = n
  <2>1. evaluations' = evaluations \cup {} /\ NewPrices({})
    BY <1>1 DEF Complete, NewPrices
  <2> QED BY <2>1
<1>2. CASE ~\E w \in evaluations : w.prediction = n
  <2>1. evaluations' = evaluations \cup {v}
    BY <1>2 DEF Complete
  <2>2. n \in predictions /\ c \in Captures /\ db.evaluations \subseteq evaluations
    BY DEF EvaluationInv
  <2>3. Prepared(db, n, c, clock) /\ ~Changed(e, n, c)
    BY DEF Complete
  <2>4. n \in Official
    BY <2>2, <2>3 DEF Prepared, Official
  <2>5. GameUnchanged(db, n) /\ EntryOrder(db, n, c) /\ EvaluatedInTime(db, n, c, clock)
    BY <1>2, <2>2, <2>3 DEF Prepared
  <2>6. db.captures[c].received \in Int /\ clock \in Int /\ RecordTyped(n)
    BY <2>2 DEF EvaluationInv, CaptureRun, GamesInv, PredictionInv
  <2>7. db.games[n.game].kickoff = n.kickoff
    BY <2>5 DEF GameUnchanged
  <2>8. /\ n.created < db.captures[c].received /\ db.captures[c].received < n.kickoff
        /\ db.captures[c].received <= clock /\ clock < n.kickoff
    BY <2>5, <2>7 DEF EntryOrder, EvaluatedInTime
  <2>9. v.graph.observed = db.captures[c].received
    BY DEF Graph
  <2>10. PricedTyped(v)
    BY <2>4, <2>6, <2>8, <2>9 DEF PricedTyped, RecordTyped
  <2>11. NewPrices({v})
    BY <1>2, <2>10 DEF NewPrices
  <2> QED BY <2>1, <2>11
<1> QED BY <1>1, <1>2

LEMMA EvaluatorAdds ==
    ASSUME GamesInv, PredictionInv, EvaluationInv, NEW e \in Evaluators, EvaluatorStep(e)
    PROVE  \E priced : evaluations' = evaluations \cup priced /\ NewPrices(priced)
<1>1. CASE evaluating[e] = "locking" /\ Complete(e, pair[e][1], pair[e][2])
  BY <1>1, CompletedPrices
<1>2. CASE ~(evaluating[e] = "locking" /\ Complete(e, pair[e][1], pair[e][2]))
  <2>1. evaluations' = evaluations \cup {} /\ NewPrices({})
    BY <1>2 DEF EvaluatorStep, Preview, OpenView, Evaluate, StartOver, RetainFailure,
                EvaluatorCrash, NewPrices
  <2> QED BY <2>1
<1> QED BY <1>1, <1>2

LEMMA EvaluatorKeepsInv ==
    ASSUME GamesInv, CaptureInv, PredictionInv, EvaluationInv, NEW e \in Evaluators,
           EvaluatorStep(e), UNCHANGED predictions
    PROVE  EvaluationInv'
<1>1. \A v \in evaluations' : PricedTyped(v)'
  <2>1. PICK priced : evaluations' = evaluations \cup priced /\ NewPrices(priced)
    BY EvaluatorAdds
  <2>2. \A v \in evaluations' : PricedTyped(v)
    BY <2>1 DEF NewPrices, EvaluationInv
  <2> QED BY <2>2 DEF PricedTyped, Official
<1>2. evaluations \subseteq evaluations'
  BY EvaluatorAdds
<1>3. /\ DOMAIN evaluating' = Evaluators /\ DOMAIN pair' = Evaluators /\ DOMAIN view' = Evaluators
      /\ \A d \in Evaluators : d # e => /\ evaluating'[d] = evaluating[d]
                                        /\ pair'[d] = pair[d] /\ view'[d] = view[d]
  BY DEF EvaluationInv, EvaluatorStep, Preview, OpenView, Evaluate, StartOver, RetainFailure,
         Complete, EvaluatorCrash, EvaluateGoto, Leave
<1>4. evaluating'[e] \in {"open", "locking"} => pair'[e] \in predictions \X Captures
  BY DEF EvaluationInv, EvaluatorStep, Preview, OpenView, Evaluate, StartOver, RetainFailure,
         Complete, EvaluatorCrash, EvaluateGoto, Leave
<1>5. evaluating'[e] = "locking" => /\ view'[e].evaluations = evaluations
                                    /\ view'[e].captures = captureRuns
                                    /\ evaluations' = evaluations
  BY DEF EvaluationInv, EvaluatorStep, Preview, OpenView, Evaluate, StartOver, RetainFailure,
         Complete, EvaluatorCrash, EvaluateGoto, Leave, Database
<1> QED BY <1>1, <1>2, <1>3, <1>4, <1>5 DEF EvaluationInv, CaptureInv, CaptureTypes

-----------------------------------------------------------------------------
(* The season. *)

SeasonInv == GamesInv /\ CaptureInv /\ PredictionInv /\ EvaluationInv

LEMMA SeasonInitInv == Init => SeasonInv
<1> SUFFICES ASSUME Init PROVE SeasonInv
  OBVIOUS
<1>1. GamesInv
  BY GamesInit1 DEF Init
<1> QED BY <1>1, CaptureInitInv, PredictionInitInv, EvaluationInitInv DEF Init, SeasonInv

(* What a step of the season adds to the record: the predictions of one    *)
(* execution, the evaluation of one, or nothing.                           *)
LEMMA StepAdds ==
    ASSUME SeasonInv, [Next]_seasonVars
    PROVE  \/ /\ UNCHANGED <<clock, evaluations>>
              /\ \E made : predictions' = predictions \cup made /\ NewRecords(made)
           \/ /\ UNCHANGED <<clock, predictions>>
              /\ \E priced : evaluations' = evaluations \cup priced /\ NewPrices(priced)
           \/ UNCHANGED <<predictions, evaluations>>
<1>1. CASE \E p \in Predictors \cap crew.who : Predict(p)
  BY <1>1, PredictorAdds DEF Predict, marketVars, evaluationVars, SeasonInv
<1>2. CASE \E e \in Evaluators \cap crew.who : Price(e)
  BY <1>2, EvaluatorAdds DEF Price, predictionVars, SeasonInv
<1>3. CASE \/ \E i \in Importers \cap crew.who : Import(i)
           \/ \E c \in Captures \cap crew.who : Capture(c)
           \/ \E r \in Researchers \cap crew.who : Research(r)
           \/ Tick \/ UNCHANGED seasonVars
  BY <1>3 DEF Import, Capture, Research, Tick, seasonVars, predictionVars, marketVars, evaluationVars
<1> QED BY <1>1, <1>2, <1>3 DEF Next

LEMMA NextKeepsCaptures == ASSUME SeasonInv, [Next]_seasonVars PROVE CaptureInv'
<1>1. CASE \E c \in Captures \cap crew.who : Capture(c)
  BY <1>1, CaptureKeepsInv DEF Capture, SeasonInv
<1>2. CASE UNCHANGED captureVars
  BY <1>2 DEF captureVars, SeasonInv, CaptureInv, CaptureTypes, CaptureProgress, DatesHeldOnce, Holds
<1> QED BY <1>1, <1>2 DEF Next, Import, Predict, Price, Research, Tick, seasonVars, marketVars

LEMMA NextKeepsPredictions == ASSUME SeasonInv, [Next]_seasonVars PROVE PredictionInv'
<1>1. CASE \E p \in Predictors \cap crew.who : Predict(p)
  BY <1>1, PredictorKeepsInv DEF Predict, SeasonInv, importVars
<1>2. CASE UNCHANGED predictionVars
  <2>1. DOMAIN games \subseteq DOMAIN games'
    BY NextKeepsGames DEF SeasonInv
  <2> QED BY <1>2, <2>1 DEF predictionVars, SeasonInv, PredictionInv, Official
<1> QED BY <1>1, <1>2 DEF Next, Import, Capture, Price, Research, Tick, seasonVars

LEMMA NextKeepsEvaluations == ASSUME SeasonInv, [Next]_seasonVars PROVE EvaluationInv'
<1>1. CASE \E e \in Evaluators \cap crew.who : Price(e)
  BY <1>1, EvaluatorKeepsInv DEF Price, SeasonInv, predictionVars
<1>2. CASE UNCHANGED evaluationVars
  <2>1. predictions \subseteq predictions'
    BY <1>2, StepAdds DEF evaluationVars
  <2>2. \A v \in evaluations : PricedTyped(v) => PricedTyped(v)'
    BY <2>1 DEF PricedTyped, Official
  <2> QED BY <1>2, <2>1, <2>2 DEF evaluationVars, SeasonInv, EvaluationInv
<1> QED BY <1>1, <1>2 DEF Next, Import, Predict, Capture, Research, Tick, seasonVars, marketVars

LEMMA NextKeepsSeason == SeasonInv /\ [Next]_seasonVars => SeasonInv'
<1> SUFFICES ASSUME SeasonInv, [Next]_seasonVars PROVE SeasonInv'
  OBVIOUS
<1>1. GamesInv'
  BY NextKeepsGames DEF SeasonInv
<1> QED BY <1>1, NextKeepsCaptures, NextKeepsPredictions, NextKeepsEvaluations DEF SeasonInv

(* The inductive invariant of the season: games are rows of files, a date  *)
(* is held by one capture, a game is officially predicted once and before  *)
(* its kickoff, and an evaluation lies between its prediction and that     *)
(* kickoff.                                                                *)
THEOREM SeasonInvariant == Spec => []SeasonInv
  BY SeasonInitInv, NextKeepsSeason, PTL DEF Spec

(* A record the forward evaluation accepts (moneyline_forward_evaluation)  *)
(* is pregame for the kickoffs the games have now, wherever the schedule   *)
(* has moved them since, and scores no game twice.                         *)
THEOREM AcceptedRecordIsPregame == Spec => []ForwardRecordIsPregame
<1>1. SeasonInv => ForwardRecordIsPregame
  <2> SUFFICES ASSUME SeasonInv, ForwardEvaluates PROVE ForwardRecordIsPregame
    BY DEF ForwardRecordIsPregame
  <2>1. \A n \in Official : n.created < n.kickoff /\ n.kickoff = games[n.game].kickoff
    BY DEF ForwardEvaluates, EvidenceValid
  <2>2. \A v \in evaluations : /\ v.prediction \in Official
                               /\ v.graph.observed < v.prediction.kickoff
                               /\ v.at < v.prediction.kickoff
    BY DEF SeasonInv, EvaluationInv, PricedTyped
  <2>3. \A n, m \in Resolved : n.game = m.game => n = m
    BY DEF SeasonInv, PredictionInv, Resolved
  <2> QED BY <2>1, <2>2, <2>3 DEF ForwardRecordIsPregame
<1> QED BY <1>1, SeasonInvariant, PTL

(* The inference service (nfl/moneyline_inference.py) reads no result of   *)
(* the game it predicts and, as long as the record is one the forward      *)
(* evaluation accepts, of none that does not begin before it, whatever     *)
(* results and kickoffs have come in since.                                *)
THEOREM PredictionsLookBack == Spec => []NoLookahead
<1>1. SeasonInv => NoLookahead
  <2> SUFFICES ASSUME SeasonInv, NEW n \in predictions
               PROVE  /\ n.game \notin n.trace
                      /\ EvidenceValid(n) =>
                            \A g \in Inference(games, stats, games[n.game]).trace :
                               g # n.game /\ games[g].kickoff < n.kickoff
    BY DEF NoLookahead
  <2>1. n.kickoff \in Int /\ n.game \notin n.trace
    BY DEF SeasonInv, PredictionInv, RecordTyped
  <2>2. ASSUME EvidenceValid(n), NEW g \in Inference(games, stats, games[n.game]).trace
        PROVE  g # n.game /\ games[g].kickoff < n.kickoff
    <3>1. n.kickoff = games[n.game].kickoff
      BY <2>2 DEF EvidenceValid
    <3>2. games[g].kickoff < games[n.game].kickoff
      BY SourcesBegin
    <3> QED BY <2>1, <3>1, <3>2
  <2> QED BY <2>1, <2>2
<1> QED BY <1>1, SeasonInvariant, PTL

-----------------------------------------------------------------------------
(* The refinement of NflEvidenceContract. *)

Entry(n) == [game |-> n.game, kickoff |-> n.kickoff, created |-> n.created]
EntryPriced(v) == [prediction |-> Entry(v.prediction), at |-> v.at]
Predicted == {Entry(n) : n \in Official}
Priced == {EntryPriced(v) : v \in evaluations}

(* The substitution of NflSeason, in the names of this module.             *)
LEMMA ContractStep ==
    ASSUME clock' >= clock,
           Predicted \subseteq Predicted', Priced \subseteq Priced',
           \A n \in Predicted' \ Predicted : n.created = clock /\ clock < n.kickoff,
           \A n \in Predicted' \ Predicted, m \in Predicted \cup (Predicted' \ Predicted) :
               n.game = m.game => n = m,
           \A v \in Priced' \ Priced : /\ v.prediction \in Predicted
                                       /\ v.prediction.created < v.at /\ v.at = clock
                                       /\ v.at < v.prediction.kickoff,
           \A v \in Priced' \ Priced, w \in Priced \cup (Priced' \ Priced) :
               v.prediction = w.prediction => v = w
    PROVE  Contract!ContractNext
  BY DEF Contract!ContractNext, Contract!Predict, Contract!Price, Predicted, Priced, Entry, EntryPriced

LEMMA RecordedOnce ==
    ASSUME SeasonInv, NEW made, predictions' = predictions \cup made, NewRecords(made)
    PROVE  /\ Predicted \subseteq Predicted'
           /\ \A x \in Predicted' \ Predicted : x.created = clock /\ clock < x.kickoff
           /\ \A x \in Predicted' \ Predicted, y \in Predicted \cup (Predicted' \ Predicted) :
                 x.game = y.game => x = y
<1>1. Official' = Official \cup {n \in made : n.official}
  BY DEF Official
<1>2. \A x \in Predicted' \ Predicted : \E n \in made : n.official /\ x = Entry(n)
  BY <1>1 DEF Predicted
<1>3. \A n, m \in Official' : n.game = m.game => n = m
  BY NewRecordsUnique DEF SeasonInv
<1>4. \A n \in Official : Entry(n).game = n.game
  BY DEF Entry
<1>5. \A x, y \in Predicted' : x.game = y.game => x = y
  BY <1>3 DEF Predicted, Entry
<1>6. Predicted \subseteq Predicted'
  BY <1>1 DEF Predicted
<1>7. \A x \in Predicted' \ Predicted : x.created = clock /\ clock < x.kickoff
  <2> SUFFICES ASSUME NEW x \in Predicted' \ Predicted PROVE x.created = clock /\ clock < x.kickoff
    OBVIOUS
  <2>1. PICK n \in made : x = Entry(n)
    BY <1>2
  <2>2. n.created = clock /\ n.created < n.kickoff
    BY DEF NewRecords, RecordTyped
  <2> QED BY <2>1, <2>2 DEF Entry
<1> QED BY <1>5, <1>6, <1>7

LEMMA PricedOnce ==
    ASSUME SeasonInv, NEW priced, evaluations' = evaluations \cup priced, NewPrices(priced)
    PROVE  /\ Priced \subseteq Priced'
           /\ \A x \in Priced' \ Priced : /\ x.prediction \in Predicted
                                          /\ x.prediction.created < x.at /\ x.at = clock
                                          /\ x.at < x.prediction.kickoff
           /\ \A x \in Priced' \ Priced, y \in Priced \cup (Priced' \ Priced) :
                 x.prediction = y.prediction => x = y
<1>1. Priced \subseteq Priced'
  BY DEF Priced
<1>2. \A x \in Priced' \ Priced : \E v \in priced : x = EntryPriced(v)
  BY DEF Priced
<1>3. \A x \in Priced' \ Priced : /\ x.prediction \in Predicted
                                  /\ x.prediction.created < x.at /\ x.at = clock
                                  /\ x.at < x.prediction.kickoff
  <2> SUFFICES ASSUME NEW x \in Priced' \ Priced
               PROVE  /\ x.prediction \in Predicted
                      /\ x.prediction.created < x.at /\ x.at = clock
                      /\ x.at < x.prediction.kickoff
    OBVIOUS
  <2>1. PICK v \in priced : x = EntryPriced(v)
    BY <1>2
  <2>2. v.at = clock /\ PricedTyped(v)
    BY DEF NewPrices
  <2>3. x.at = v.at /\ x.prediction = Entry(v.prediction)
    BY <2>1 DEF EntryPriced
  <2> QED BY <2>2, <2>3 DEF PricedTyped, Predicted, Entry
<1>4. \A v \in evaluations \cup priced : v.prediction \in Official
  BY DEF SeasonInv, EvaluationInv, NewPrices, PricedTyped
<1>5. ASSUME NEW v \in priced, NEW w \in evaluations \cup priced,
             Entry(v.prediction) = Entry(w.prediction)
      PROVE  v = w
  <2>1. v.prediction.game = w.prediction.game
    BY <1>5 DEF Entry
  <2>2. v.prediction = w.prediction
    BY <1>4, <2>1 DEF SeasonInv, PredictionInv
  <2> QED BY <2>2 DEF NewPrices
<1>6. \A x \in Priced' \ Priced, y \in Priced \cup (Priced' \ Priced) :
         x.prediction = y.prediction => x = y
  <2> SUFFICES ASSUME NEW x \in Priced' \ Priced, NEW y \in Priced \cup (Priced' \ Priced),
                      x.prediction = y.prediction
               PROVE  x = y
    OBVIOUS
  <2>1. PICK v \in priced : x = EntryPriced(v)
    BY <1>2
  <2>2. PICK w \in evaluations \cup priced : y = EntryPriced(w)
    BY <1>2 DEF Priced
  <2>3. Entry(v.prediction) = Entry(w.prediction)
    BY <2>1, <2>2 DEF EntryPriced
  <2> QED BY <1>5, <2>1, <2>2, <2>3
<1> QED BY <1>1, <1>3, <1>6

LEMMA StepRefines == SeasonInv /\ [Next]_seasonVars => Contract!ContractNext
<1> SUFFICES ASSUME SeasonInv, [Next]_seasonVars PROVE Contract!ContractNext
  OBVIOUS
<1>1. clock' >= clock
  BY NextKeepsGames DEF SeasonInv, GamesInv
<1>2. CASE /\ UNCHANGED <<clock, evaluations>>
           /\ \E made : predictions' = predictions \cup made /\ NewRecords(made)
  <2>1. Priced' = Priced
    BY <1>2 DEF Priced
  <2> QED BY <1>1, <1>2, <2>1, RecordedOnce, ContractStep
<1>3. CASE /\ UNCHANGED <<clock, predictions>>
           /\ \E priced : evaluations' = evaluations \cup priced /\ NewPrices(priced)
  <2>1. Predicted' = Predicted
    BY <1>3 DEF Predicted, Official
  <2> QED BY <1>1, <1>3, <2>1, PricedOnce, ContractStep
<1>4. CASE UNCHANGED <<predictions, evaluations>>
  <2>1. Predicted' = Predicted /\ Priced' = Priced
    BY <1>4 DEF Predicted, Priced, Official
  <2> QED BY <1>1, <2>1, ContractStep
<1> QED BY <1>2, <1>3, <1>4, StepAdds

(* The prediction service, the unique index of its migration and the       *)
(* evaluation service together keep the promise of NflEvidenceContract:    *)
(* whatever is retried, overtaken or crashes, a game is predicted at most  *)
(* once and before its kickoff, a prediction is priced at most once and    *)
(* between the two, and nothing on record is withdrawn.                    *)
THEOREM SeasonKeepsPromise == Spec => SeasonPromise
<1>1. Init => Contract!ContractInit
  BY DEF Init, PredictionInit, EvaluationInit, Contract!ContractInit, Official
<1>2. SeasonInv /\ [Next]_seasonVars => [Contract!ContractNext]_(Contract!contractVars)
  BY StepRefines
<1> QED BY <1>1, <1>2, SeasonInvariant, PTL DEF Spec, SeasonPromise, Contract!ContractSpec

-----------------------------------------------------------------------------
(* Evidence. *)

(* A game keeps its teams: persist_nfl_game refuses others.                *)
SameTeams == \A g \in DOMAIN games : /\ g \in DOMAIN games'
                                     /\ games'[g].home = games[g].home
                                     /\ games'[g].away = games[g].away

LEMMA ImportKeepsTeams == ASSUME NEW i \in Importers, ImportStep(i) PROVE SameTeams
<1>1. CASE WriteGames(i)
  <2> SUFFICES ASSUME NEW g \in DOMAIN games
               PROVE  /\ g \in DOMAIN games'
                      /\ games'[g].home = games[g].home /\ games'[g].away = games[g].away
    BY DEF SameTeams
  <2>1. games' = Upsert(games, plan[i].rows) /\ Persistable(games, plan[i].rows)
    BY <1>1 DEF WriteGames
  <2>2. CASE \E r \in plan[i].rows : r.ext = g
    <3> DEFINE row == CHOOSE r \in plan[i].rows : r.ext = g
    <3>1. row \in plan[i].rows /\ row.ext = g
      BY <2>2
    <3>2. games'[g] = row
      BY <2>1, <2>2 DEF Upsert
    <3>3. games[g].home = row.home /\ games[g].away = row.away
      BY <2>1, <3>1 DEF Persistable
    <3> QED BY <2>1, <3>2, <3>3 DEF Upsert
  <2>3. CASE ~\E r \in plan[i].rows : r.ext = g
    BY <2>1, <2>3 DEF Upsert
  <2> QED BY <2>2, <2>3
<1>2. CASE ~WriteGames(i)
  BY <1>2 DEF ImportStep, PlanFuture, PlanBackfill, StartGames, StartStatistics, WriteStatistics,
              IngestionFails, Audit, SameTeams
<1> QED BY <1>1, <1>2

LEMMA NextKeepsTeams == ASSUME [Next]_seasonVars PROVE SameTeams
<1>1. CASE \E i \in Importers \cap crew.who : Import(i)
  BY <1>1, ImportKeepsTeams DEF Import
<1>2. CASE UNCHANGED games
  BY <1>2 DEF SameTeams
<1> QED BY <1>1, <1>2 DEF Next, Predict, Capture, Price, Research, Tick, seasonVars, importVars

(* An event is mapped to a game, and a quote sits under both.              *)
MappingsPlaced == \A id \in DOMAIN mappings : mappings[id].game \in DOMAIN games
QuotesPlaced ==
    \A q \in quotes :
        q.event \in DOMAIN mappings /\ q.game \in DOMAIN games /\ q.capture \in Captures

(* A completed capture was asked for before it was answered, and has left  *)
(* the steps that write its row.                                           *)
CaptureTimes ==
    \A c \in Captures :
        /\ capturing[c] \in {"call", "record"} => captureRuns[c].requested <= clock
        /\ capturing[c] = "store" => captureRuns[c].requested <= captureRuns[c].received
        /\ captureRuns[c].status = "completed" =>
              /\ captureRuns[c].requested <= captureRuns[c].received
              /\ capturing[c] \in {"qualify", "done", "unqualified", "dead"}

EvidencePlaced ==
    \A x \in evidence :
        /\ x.quote \in quotes
        /\ captureRuns[x.quote.capture].status = "completed"
        /\ x.quote.observed = captureRuns[x.quote.capture].received
        /\ x.quote.observed < x.kickoff
        /\ mappings[x.quote.event].game = x.quote.game
        /\ games[x.quote.game].home = mappings[x.quote.event].home
        /\ games[x.quote.game].away = mappings[x.quote.event].away

EvidenceInv == MappingsPlaced /\ QuotesPlaced /\ CaptureTimes /\ EvidencePlaced

LEMMA EvidenceInitInv == CaptureInit => EvidenceInv
  BY DEF CaptureInit, NoCapture, EvidenceInv, MappingsPlaced, QuotesPlaced, CaptureTimes,
         EvidencePlaced

(* Completed captures keep their rows, and mappings are only added.        *)
LEMMA CaptureOnlyAdds ==
    ASSUME CaptureInv, EvidenceInv, NEW c \in Captures, CaptureStep(c)
    PROVE  /\ \A d \in Captures : captureRuns[d].status = "completed" =>
                 captureRuns'[d] = captureRuns[d]
           /\ \A id \in DOMAIN mappings : id \in DOMAIN mappings' /\ mappings'[id] = mappings[id]
           /\ quotes \subseteq quotes'
<1>1. \A d \in Captures : captureRuns[d].status = "completed" => captureRuns'[d] = captureRuns[d]
  BY DEF CaptureInv, CaptureTypes, EvidenceInv, CaptureTimes, CaptureStep, ReserveCapture,
         CallProvider, RecordReceipt, StoreQuotes, StoreFails, MarkCaptureFailed, Qualify,
         QualificationFails, CaptureCrash
<1>2. CASE StoreQuotes(c)
  BY <1>1, <1>2 DEF StoreQuotes, Map
<1>3. CASE ~StoreQuotes(c)
  BY <1>1, <1>3 DEF CaptureStep, ReserveCapture, CallProvider, RecordReceipt, StoreFails,
         MarkCaptureFailed, Qualify, QualificationFails, CaptureCrash
<1> QED BY <1>2, <1>3

(* The game of an event is one that is there.                              *)
LEMMA ResolvedIsThere ==
    ASSUME MappingsPlaced, NEW ev
    PROVE  /\ ResolveNflEvent(games, mappings, ev) \subseteq DOMAIN games
           /\ ev.id \notin DOMAIN mappings =>
                 ResolveNflEvent(games, mappings, ev) \subseteq ChosenGame(games, ev)
           /\ ChosenGame(games, ev) \subseteq DOMAIN games
<1>1. ChosenGame(games, ev) \subseteq DOMAIN games
  BY DEF ChosenGame
<1>2. ev.id \in DOMAIN mappings => MappedGame(games, mappings, ev) \subseteq DOMAIN games
  BY DEF MappedGame, MappingsPlaced
<1> QED BY <1>1, <1>2 DEF ResolveNflEvent

LEMMA SelectionFields ==
    ASSUME NEW c \in Captures, NEW ev, NEW g, NEW q \in Selections(c, ev, g)
    PROVE  q.event = ev.id /\ q.game = g /\ q.capture = c
<1> DEFINE sides(b) == {<<ev.home, b.home>>, <<ev.away, b.away>>}
           quote(b, s) == [capture |-> c, event |-> ev.id, game |-> g, book |-> b.book,
                           team |-> s[1], price |-> s[2], updated |-> b.updated,
                           observed |-> captureRuns[c].received]
<1>1. Selections(c, ev, g) = UNION {{quote(b, s) : s \in sides(b)} : b \in ev.books}
  BY DEF Selections
<1> HIDE DEF sides, quote
<1>2. PICK b \in ev.books : q \in {quote(b, s) : s \in sides(b)}
  BY <1>1
<1>3. PICK s \in sides(b) : q = quote(b, s)
  BY <1>2
<1> QED BY <1>3 DEF quote

LEMMA StorePlaces ==
    ASSUME EvidenceInv, NEW c \in Captures, StoreQuotes(c), UNCHANGED games
    PROVE  MappingsPlaced' /\ QuotesPlaced'
<1>1. /\ mappings' = Map(games, mappings, answer[c])
      /\ \A ev \in answer[c] : ResolveNflEvent(games, mappings, ev) # {}
  BY DEF StoreQuotes
<1>2. MappingsPlaced /\ QuotesPlaced
  BY DEF EvidenceInv
<1>3. ASSUME NEW id \in DOMAIN mappings' PROVE mappings'[id].game \in DOMAIN games
  <2>1. CASE id \in DOMAIN mappings
    BY <1>1, <1>2, <2>1 DEF Map, MappingsPlaced
  <2>2. CASE id \notin DOMAIN mappings
    <3> DEFINE ev == CHOOSE x \in answer[c] : x.id = id
               g == CHOOSE x \in ChosenGame(games, ev) : TRUE
    <3>1. id \in {x.id : x \in answer[c]}
      BY <1>1, <2>2 DEF Map
    <3>2. ev \in answer[c] /\ ev.id = id
      BY <3>1
    <3>3. ChosenGame(games, ev) # {}
      BY <1>1, <1>2, <2>2, <3>2, ResolvedIsThere
    <3>4. g \in ChosenGame(games, ev)
      BY <3>3
    <3>5. mappings'[id].game = g
      BY <1>1, <2>2, <3>1 DEF Map
    <3> QED BY <1>2, <3>4, <3>5, ResolvedIsThere
  <2> QED BY <2>1, <2>2
<1>4. DOMAIN mappings' = DOMAIN mappings \cup {x.id : x \in answer[c]}
  BY <1>1 DEF Map
<1>5. ASSUME NEW q \in quotes' PROVE q.event \in DOMAIN mappings' /\ q.game \in DOMAIN games
                                     /\ q.capture \in Captures
  <2>1. CASE q \in quotes
    BY <1>2, <1>4, <2>1 DEF QuotesPlaced
  <2>2. CASE q \notin quotes
    <3> DEFINE game(ev) == CHOOSE g \in ResolveNflEvent(games, mappings, ev) : TRUE
    <3>1. PICK ev \in answer[c] : q \in Selections(c, ev, game(ev))
      BY <2>2 DEF StoreQuotes
    <3>2. q.event = ev.id /\ q.game = game(ev) /\ q.capture = c
      BY <3>1, SelectionFields
    <3>3. game(ev) \in ResolveNflEvent(games, mappings, ev)
      BY <1>1
    <3> QED BY <1>2, <1>4, <3>2, <3>3, ResolvedIsThere
  <2> QED BY <2>1, <2>2
<1> QED BY <1>3, <1>5 DEF MappingsPlaced, QuotesPlaced

LEMMA CaptureKeepsEvidence ==
    ASSUME GamesInv, CaptureInv, EvidenceInv, NEW c \in Captures, CaptureStep(c),
           UNCHANGED <<clock, games>>
    PROVE  EvidenceInv'
<1>1. MappingsPlaced' /\ QuotesPlaced'
  <2>1. CASE StoreQuotes(c)
    BY <2>1, StorePlaces
  <2>2. CASE ~StoreQuotes(c)
    BY <2>2 DEF EvidenceInv, MappingsPlaced, QuotesPlaced, CaptureStep, ReserveCapture,
         CallProvider, RecordReceipt, StoreFails, MarkCaptureFailed, Qualify,
         QualificationFails, CaptureCrash
  <2> QED BY <2>1, <2>2
<1>2. CaptureTimes'
  <2> SUFFICES ASSUME NEW d \in Captures
               PROVE  /\ capturing'[d] \in {"call", "record"} => captureRuns'[d].requested <= clock
                      /\ capturing'[d] = "store" =>
                            captureRuns'[d].requested <= captureRuns'[d].received
                      /\ captureRuns'[d].status = "completed" =>
                            /\ captureRuns'[d].requested <= captureRuns'[d].received
                            /\ capturing'[d] \in {"qualify", "done", "unqualified", "dead"}
    BY DEF CaptureTimes
  <2> USE DEF EvidenceInv, CaptureTimes, CaptureInv, CaptureTypes, CaptureProgress, CaptureGoto
  <2>0. clock \in Int
    BY DEF GamesInv
  <2>1. CASE d # c
    BY <2>1 DEF CaptureStep, ReserveCapture, CallProvider, RecordReceipt, StoreQuotes, StoreFails,
         MarkCaptureFailed, Qualify, QualificationFails, CaptureCrash
  <2>2. CASE d = c /\ ReserveCapture(c)
    <3>1. CASE ~(ScheduleAllows(c) /\ ~Reserved(DateOf[c]))
      <4>1. captureRuns' = captureRuns /\ capturing[c] = "idle" /\ capturing'[c] = "refused"
        BY <2>2, <3>1 DEF ReserveCapture
      <4> QED BY <2>2, <4>1
    <3>2. CASE ScheduleAllows(c) /\ ~Reserved(DateOf[c])
      <4>1. captureRuns'[c] = [NoCapture EXCEPT !.date = DateOf[c], !.status = "running",
                                                !.requested = clock]
        BY <2>2, <3>2 DEF ReserveCapture
      <4>2. captureRuns'[c].requested = clock /\ captureRuns'[c].status = "running"
        BY <4>1 DEF NoCapture
      <4>3. capturing'[c] = "call"
        BY <2>2, <3>2 DEF ReserveCapture
      <4> QED BY <2>0, <2>2, <4>2, <4>3
    <3> QED BY <3>1, <3>2
  <2>3. CASE d = c /\ CallProvider(c)
    <3>1. captureRuns' = captureRuns /\ capturing[c] = "call" /\ capturing'[c] \in {"failing", "record"}
      BY <2>3 DEF CallProvider
    <3> QED BY <2>3, <3>1
  <2>4. CASE d = c /\ RecordReceipt(c)
    <3>1. CASE captureRuns' = [captureRuns EXCEPT ![c].received = clock]
      <4>1. /\ captureRuns'[c].received = clock
            /\ captureRuns'[c].requested = captureRuns[c].requested
            /\ captureRuns'[c].status = captureRuns[c].status
        BY <3>1 DEF CaptureRun
      <4>2. capturing[c] = "record" /\ capturing'[c] \in {"store", "failing"}
        BY <2>4 DEF RecordReceipt
      <4> QED BY <2>4, <4>1, <4>2
    <3>2. CASE captureRuns' = captureRuns /\ capturing'[c] = "failing"
      BY <2>4, <3>2 DEF RecordReceipt
    <3> QED BY <2>4, <3>1, <3>2 DEF RecordReceipt
  <2>5. CASE d = c /\ StoreQuotes(c)
    BY <2>5 DEF StoreQuotes
  <2>6. CASE d = c /\ MarkCaptureFailed(c)
    <3>1. captureRuns'[c].status \in {"failed", "running"}
      BY <2>0, <2>6, FailedRow DEF MarkCaptureFailed
    <3>2. capturing'[c] = "failed"
      BY <2>6 DEF MarkCaptureFailed
    <3> QED BY <2>6, <3>1, <3>2
  <2>7. CASE d = c /\ (StoreFails(c) \/ Qualify(c) \/ QualificationFails(c) \/ CaptureCrash(c))
    BY <2>7 DEF StoreFails, Qualify, QualificationFails, CaptureCrash
  <2> QED BY <2>1, <2>2, <2>3, <2>4, <2>5, <2>6, <2>7 DEF CaptureStep
<1>3. EvidencePlaced'
  <2>1. \A x \in evidence : /\ x.quote \in quotes /\ x.quote.capture \in Captures
                            /\ x.quote.event \in DOMAIN mappings
    BY DEF EvidenceInv, EvidencePlaced, QuotesPlaced
  <2>2. \A x \in evidence' : x \in evidence \/ Qualify(c)
    BY DEF CaptureStep, ReserveCapture, CallProvider, RecordReceipt, StoreQuotes, StoreFails,
         MarkCaptureFailed, QualificationFails, CaptureCrash
  <2> SUFFICES ASSUME NEW x \in evidence'
               PROVE  /\ x.quote \in quotes'
                      /\ captureRuns'[x.quote.capture].status = "completed"
                      /\ x.quote.observed = captureRuns'[x.quote.capture].received
                      /\ x.quote.observed < x.kickoff
                      /\ mappings'[x.quote.event].game = x.quote.game
                      /\ games'[x.quote.game].home = mappings'[x.quote.event].home
                      /\ games'[x.quote.game].away = mappings'[x.quote.event].away
    BY DEF EvidencePlaced
  <2>3. CASE x \in evidence
    BY <2>1, <2>3, CaptureOnlyAdds DEF EvidenceInv, EvidencePlaced
  <2>4. CASE x \notin evidence
    <3>1. Qualify(c)
      BY <2>2, <2>4
    <3>2. PICK q \in QuotesOf(c) : /\ x = Evidence(q) /\ ObservedPregame(q, games[q.game])
                                   /\ CoherentSource(q)
      BY <2>4, <3>1 DEF Qualify
    <3>3. x.quote = q /\ x.kickoff = games[q.game].kickoff
      BY <3>2 DEF Evidence
    <3>4. UNCHANGED <<captureRuns, mappings, quotes>>
      BY <3>1 DEF Qualify
    <3> QED BY <3>2, <3>3, <3>4 DEF QuotesOf, CoherentSource, ObservedPregame
  <2> QED BY <2>3, <2>4
<1> QED BY <1>1, <1>2, <1>3 DEF EvidenceInv

LEMMA NextKeepsEvidence == SeasonInv /\ EvidenceInv /\ [Next]_seasonVars => EvidenceInv'
<1> SUFFICES ASSUME SeasonInv, EvidenceInv, [Next]_seasonVars PROVE EvidenceInv'
  OBVIOUS
<1>1. CASE \E c \in Captures \cap crew.who : Capture(c)
  BY <1>1, CaptureKeepsEvidence DEF Capture, SeasonInv, importVars
<1>2. CASE UNCHANGED captureVars
  <2>1. SameTeams /\ clock <= clock'
    BY NextKeepsTeams, NextKeepsGames DEF SeasonInv
  <2>2. MappingsPlaced' /\ QuotesPlaced'
    BY <1>2, <2>1 DEF captureVars, SameTeams, EvidenceInv, MappingsPlaced, QuotesPlaced
  <2>3. CaptureTimes'
    <3>1. clock \in Int /\ clock' \in Int
      BY NextKeepsGames DEF SeasonInv, GamesInv
    <3>2. \A c \in Captures : captureRuns[c].requested \in Int
      BY DEF SeasonInv, CaptureInv, CaptureTypes, CaptureRun
    <3> QED BY <1>2, <2>1, <3>1, <3>2 DEF captureVars, EvidenceInv, CaptureTimes
  <2>4. EvidencePlaced'
    <3>1. \A x \in evidence : x.quote.game \in DOMAIN games
      BY DEF EvidenceInv, EvidencePlaced, QuotesPlaced
    <3> QED BY <1>2, <2>1, <3>1 DEF captureVars, SameTeams, EvidenceInv, EvidencePlaced
  <2> QED BY <2>2, <2>3, <2>4 DEF EvidenceInv
<1> QED BY <1>1, <1>2 DEF Next, Import, Predict, Price, Research, Tick, seasonVars, marketVars

(* What counts as official pregame evidence (official_pregame_evidence)    *)
(* stays what it was when it qualified: received before the kickoff, by a  *)
(* completed capture that had asked before, under the game whose teams the *)
(* provider named.  No import moves a game away from under its evidence.   *)
THEOREM EvidenceStaysPregame == Spec => []EvidenceIsPregame
<1>1. SeasonInv /\ EvidenceInv => EvidenceIsPregame
  BY DEF EvidenceInv, EvidencePlaced, QuotesPlaced, CaptureTimes, EvidenceIsPregame
<1>2. Init => EvidenceInv
  BY EvidenceInitInv DEF Init
<1> QED BY <1>1, <1>2, NextKeepsEvidence, SeasonInvariant, PTL DEF Spec

-----------------------------------------------------------------------------
(* Purchases. *)

(* The date of a failed capture is free again.                             *)
FailedBefore(c, other) ==
    captureRuns[c].status = "failed" /\ captureRuns[c].completed <= captureRuns[other].requested

OneAfterAnother ==
    \A c, d \in Captures :
        /\ c # d /\ captureRuns[c].date = captureRuns[d].date
        /\ captureRuns[c].status # "none" /\ captureRuns[d].status # "none"
        => FailedBefore(c, d) \/ FailedBefore(d, c)

PurchaseInv ==
    /\ \A c \in Captures :
          /\ capturing[c] \notin {"idle", "refused"} => captureRuns[c].status # "none"
          /\ captureRuns[c].status = "failed" => /\ capturing[c] = "failed"
                                                 /\ captureRuns[c].completed <= clock
    /\ \A q \in quotes : captureRuns[q.capture].status = "completed"
    /\ OneAfterAnother

(* A reservation finds every earlier capture of its date failed; later     *)
(* steps keep the date and the time of the request, and a failed row.      *)
LEMMA RowsStay ==
    ASSUME GamesInv, CaptureInv, PurchaseInv, NEW c \in Captures, CaptureStep(c),
           NEW d \in Captures,
           captureRuns[d].status # "none"
    PROVE  /\ captureRuns'[d].date = captureRuns[d].date
           /\ captureRuns'[d].requested = captureRuns[d].requested
           /\ captureRuns'[d].status # "none"
           /\ captureRuns[d].status = "failed" => captureRuns'[d] = captureRuns[d]
<1> USE DEF CaptureInv, CaptureTypes, CaptureRun
<1>1. CASE d # c
  BY <1>1 DEF CaptureStep, ReserveCapture, CallProvider, RecordReceipt, StoreQuotes, StoreFails,
     MarkCaptureFailed, Qualify, QualificationFails, CaptureCrash
<1>2. CASE d = c
  <2>1. CASE ReserveCapture(c)
    BY <1>2, <2>1 DEF ReserveCapture, CaptureProgress
  <2>2. CASE RecordReceipt(c) \/ StoreQuotes(c)
    BY <1>2, <2>2 DEF RecordReceipt, StoreQuotes, PurchaseInv
  <2>3. CASE MarkCaptureFailed(c)
    <3>1. capturing[c] = "failing" /\ captureRuns[c].status = "running"
      BY <2>3 DEF MarkCaptureFailed, CaptureProgress
    <3> QED BY <1>2, <2>3, <3>1, FailedRow DEF GamesInv
  <2>4. CASE UNCHANGED captureRuns
    BY <2>4
  <2> QED BY <2>1, <2>2, <2>3, <2>4 DEF CaptureStep, CallProvider, StoreFails, Qualify,
          QualificationFails, CaptureCrash
<1> QED BY <1>1, <1>2

LEMMA CaptureKeepsPurchases ==
    ASSUME GamesInv, CaptureInv, EvidenceInv, PurchaseInv, NEW c \in Captures, CaptureStep(c),
           UNCHANGED clock
    PROVE  PurchaseInv'
<1> USE DEF CaptureInv, CaptureTypes, CaptureRun, CaptureGoto
<1>0. clock \in Int
  BY DEF GamesInv
<1>1. \A d \in Captures : d # c => captureRuns'[d] = captureRuns[d] /\ capturing'[d] = capturing[d]
  BY DEF CaptureStep, ReserveCapture, CallProvider, RecordReceipt, StoreQuotes, StoreFails,
     MarkCaptureFailed, Qualify, QualificationFails, CaptureCrash
<1>2. /\ capturing'[c] \notin {"idle", "refused"} => captureRuns'[c].status # "none"
      /\ captureRuns'[c].status = "failed" => /\ capturing'[c] = "failed"
                                              /\ captureRuns'[c].completed <= clock
  <2>1. CASE ReserveCapture(c)
    <3>1. CASE ScheduleAllows(c) /\ ~Reserved(DateOf[c])
      <4>1. captureRuns' = [captureRuns EXCEPT ![c] =
               [NoCapture EXCEPT !.date = DateOf[c], !.status = "running", !.requested = clock]]
        BY <2>1, <3>1 DEF ReserveCapture
      <4>2. captureRuns'[c].status = "running"
        BY <4>1 DEF NoCapture
      <4> QED BY <4>2
    <3>2. CASE ~(ScheduleAllows(c) /\ ~Reserved(DateOf[c]))
      <4>1. captureRuns' = captureRuns /\ capturing[c] = "idle" /\ capturing'[c] = "refused"
        BY <2>1, <3>2 DEF ReserveCapture
      <4> QED BY <4>1 DEF CaptureProgress
    <3> QED BY <3>1, <3>2
  <2>2. CASE RecordReceipt(c)
    BY <2>2 DEF RecordReceipt, PurchaseInv, CaptureProgress
  <2>3. CASE StoreQuotes(c)
    BY <2>3 DEF StoreQuotes, PurchaseInv, CaptureProgress
  <2>4. CASE MarkCaptureFailed(c)
    BY <1>0, <2>4, FailedRow DEF MarkCaptureFailed, PurchaseInv, CaptureProgress
  <2>5. CASE CallProvider(c) \/ StoreFails(c) \/ Qualify(c) \/ QualificationFails(c)
             \/ CaptureCrash(c)
    BY <2>5 DEF CallProvider, StoreFails, Qualify, QualificationFails, CaptureCrash, PurchaseInv,
       CaptureProgress
  <2> QED BY <2>1, <2>2, <2>3, <2>4, <2>5 DEF CaptureStep
<1>3. \A q \in quotes' : captureRuns'[q.capture].status = "completed"
  <2> SUFFICES ASSUME NEW q \in quotes' PROVE captureRuns'[q.capture].status = "completed"
    OBVIOUS
  <2>1. CASE q \in quotes
    BY <2>1, CaptureOnlyAdds DEF PurchaseInv, EvidenceInv, QuotesPlaced
  <2>2. CASE q \notin quotes
    <3>1. StoreQuotes(c)
      BY <2>2 DEF CaptureStep, ReserveCapture, CallProvider, RecordReceipt, StoreFails,
         MarkCaptureFailed, Qualify, QualificationFails, CaptureCrash
    <3> DEFINE game(ev) == CHOOSE g \in ResolveNflEvent(games, mappings, ev) : TRUE
    <3>2. PICK ev \in answer[c] : q \in Selections(c, ev, game(ev))
      BY <2>2, <3>1 DEF StoreQuotes
    <3>3. q.capture = c
      BY <3>2, SelectionFields
    <3> QED BY <3>1, <3>3 DEF StoreQuotes
  <2> QED BY <2>1, <2>2
<1>4. OneAfterAnother'
  <2>1. ASSUME NEW d \in Captures, d # c, captureRuns'[d].date = captureRuns'[c].date,
               captureRuns'[d].status # "none", captureRuns'[c].status # "none"
        PROVE  FailedBefore(c, d)' \/ FailedBefore(d, c)'
    <3>1. captureRuns'[d] = captureRuns[d]
      BY <1>1, <2>1
    <3>2. CASE captureRuns[c].status = "none"
      <4>1. ReserveCapture(c) /\ ScheduleAllows(c) /\ ~Reserved(DateOf[c])
        BY <2>1, <3>2 DEF PurchaseInv, CaptureStep, ReserveCapture, CallProvider, RecordReceipt,
           StoreQuotes, StoreFails, MarkCaptureFailed, Qualify, QualificationFails, CaptureCrash
      <4>2. captureRuns' = [captureRuns EXCEPT ![c] =
               [NoCapture EXCEPT !.date = DateOf[c], !.status = "running", !.requested = clock]]
        BY <4>1 DEF ReserveCapture
      <4>3. captureRuns'[c].date = DateOf[c] /\ captureRuns'[c].requested = clock
        BY <4>2 DEF NoCapture
      <4>4. captureRuns[d].status = "failed"
        BY <2>1, <3>1, <4>1, <4>3 DEF Reserved
      <4> QED BY <3>1, <4>3, <4>4 DEF FailedBefore, PurchaseInv
    <3>3. CASE captureRuns[c].status # "none"
      <4>1. FailedBefore(c, d) \/ FailedBefore(d, c)
        BY <2>1, <3>1, <3>3, RowsStay DEF PurchaseInv, OneAfterAnother
      <4> QED BY <3>1, <3>3, <4>1, RowsStay DEF FailedBefore
    <3> QED BY <3>2, <3>3
  <2>2. ASSUME NEW d \in Captures, NEW e \in Captures, d # e, d # c, e # c,
               captureRuns'[d].date = captureRuns'[e].date,
               captureRuns'[d].status # "none", captureRuns'[e].status # "none"
        PROVE  FailedBefore(d, e)' \/ FailedBefore(e, d)'
    BY <1>1, <2>2 DEF PurchaseInv, OneAfterAnother, FailedBefore
  <2> QED BY <2>1, <2>2 DEF OneAfterAnother
<1>5. \A d \in Captures :
          /\ capturing'[d] \notin {"idle", "refused"} => captureRuns'[d].status # "none"
          /\ captureRuns'[d].status = "failed" => /\ capturing'[d] = "failed"
                                                  /\ captureRuns'[d].completed <= clock
  BY <1>1, <1>2 DEF PurchaseInv
<1> QED BY <1>3, <1>4, <1>5 DEF PurchaseInv

LEMMA NextKeepsPurchases ==
    SeasonInv /\ EvidenceInv /\ PurchaseInv /\ [Next]_seasonVars => PurchaseInv'
<1> SUFFICES ASSUME SeasonInv, EvidenceInv, PurchaseInv, [Next]_seasonVars PROVE PurchaseInv'
  OBVIOUS
<1>1. CASE \E c \in Captures \cap crew.who : Capture(c)
  BY <1>1, CaptureKeepsPurchases DEF Capture, SeasonInv
<1>2. CASE UNCHANGED captureVars
  <2>1. clock \in Int /\ clock' \in Int /\ clock <= clock'
    BY NextKeepsGames DEF SeasonInv, GamesInv
  <2>2. \A c \in Captures : captureRuns[c].completed \in Int
    BY DEF SeasonInv, CaptureInv, CaptureTypes, CaptureRun
  <2> QED BY <1>2, <2>1, <2>2 DEF captureVars, PurchaseInv, OneAfterAnother, FailedBefore
<1> QED BY <1>1, <1>2 DEF Next, Import, Predict, Price, Research, Tick, seasonVars, marketVars

(* A capture that fails frees a date that has been paid for               *)
(* (reserve_nfl_capture_run, _mark_run_failed).  However many captures     *)
(* run, fail and die, the second purchase of a date is made when the first *)
(* has failed and left nothing: the date has the quotes of one market.     *)
THEOREM DatesHaveOneMarket == Spec => []OneMarketPerDate
<1>1. SeasonInv /\ EvidenceInv /\ PurchaseInv => OneMarketPerDate
  <2> SUFFICES ASSUME SeasonInv, EvidenceInv, PurchaseInv, NEW c \in Captures, NEW d \in Captures,
                      c # d, captureRuns[c].date = captureRuns[d].date, calls[c] > 0, calls[d] > 0
               PROVE  InVain(c, d) \/ InVain(d, c)
    BY DEF OneMarketPerDate
  <2>1. captureRuns[c].status # "none" /\ captureRuns[d].status # "none"
    BY DEF SeasonInv, CaptureInv, CaptureProgress, PurchaseInv
  <2>2. FailedBefore(c, d) \/ FailedBefore(d, c)
    BY <2>1 DEF PurchaseInv, OneAfterAnother
  <2>3. ASSUME NEW e \in Captures, captureRuns[e].status = "failed"
        PROVE  QuotesOf(e) = {} /\ \A x \in evidence : x.quote.capture # e
    BY <2>3 DEF PurchaseInv, QuotesOf, EvidenceInv, EvidencePlaced
  <2> QED BY <2>2, <2>3 DEF FailedBefore, InVain
<1>2. Init => EvidenceInv /\ PurchaseInv
  <2>1. CaptureInit => PurchaseInv
    BY DEF CaptureInit, NoCapture, PurchaseInv, OneAfterAnother
  <2> QED BY <2>1, EvidenceInitInv DEF Init
<1> QED BY <1>1, <1>2, NextKeepsEvidence, NextKeepsPurchases, SeasonInvariant, PTL DEF Spec

-----------------------------------------------------------------------------
(* Slates. *)

(* What SlateIsWhole says of one run.                                      *)
Whole(k) ==
    LET run == predictionRuns[k]
    IN  IF run.status = "completed"
        THEN /\ {n.game : n \in ChildrenOf(k)} = DOMAIN run.slate
             /\ \A n, m \in ChildrenOf(k) : n.game = m.game => n = m
             /\ \A n \in ChildrenOf(k) :
                   /\ n.kickoff = run.slate[n.game][2]
                   /\ n.home = run.slate[n.game][1][4] /\ n.away = run.slate[n.game][1][5]
                   /\ run.asOf <= n.created
        ELSE ChildrenOf(k) = {}

RunsShaped ==
    /\ DOMAIN predictionRuns = Keys
    /\ \A k \in Keys : DOMAIN predictionRuns[k] = {"status", "request", "slate", "asOf"}

(* An execution that has a run expects its slate, and one that holds the   *)
(* lock has read that slate from its snapshot.                             *)
ExpectsSlate(p) ==
    LET run == predictionRuns[KeyOf(p)]
    IN  /\ predicting[p] \in {"open", "locking", "inferring"} =>
              run.status # "none" /\ run.slate = expected[p]
        /\ predicting[p] \in {"locking", "inferring"} => seen[p].at \in Int /\ seen[p].at <= clock
        /\ predicting[p] = "inferring" =>
              run.status = "running" /\ expected[p] = SlateOf(seen[p].games, RequestOf[p])

OneHolder ==
    \A p, q \in Predictors :
        /\ predicting[p] = "inferring" /\ predicting[q] = "inferring" /\ KeyOf(p) = KeyOf(q)
        => p = q

SlateInv ==
    /\ RunsShaped /\ OneHolder
    /\ \A p \in Predictors : ExpectsSlate(p)
    /\ \A k \in Keys : Whole(k)

LEMMA SlateInitInv == PredictionInit => SlateInv
  BY DEF PredictionInit, SlateInv, RunsShaped, OneHolder, ExpectsSlate, Whole, NoRun, ChildrenOf

LEMMA KeyIsKey == \A p \in Predictors : KeyOf(p) \in Keys
  BY DEF KeyOf, Keys

(* A step that leaves the runs and the record leaves the slates whole.     *)
LEMMA NoWriteKeepsSlates ==
    ASSUME GamesInv, PredictionInv, SlateInv, NEW p \in Predictors,
           LookUpRun(p) \/ OpenSnapshot(p) \/ LockRun(p) \/ InferenceFails(p)
              \/ RetryPrediction(p) \/ PredictorCrash(p),
           UNCHANGED clock
    PROVE  SlateInv'
<1>1. UNCHANGED <<predictionRuns, predictions>>
  BY DEF LookUpRun, OpenSnapshot, LockRun, InferenceFails, RetryPrediction, PredictorCrash
<1>2. \A q \in Predictors : q # p => /\ predicting'[q] = predicting[q]
                                     /\ expected'[q] = expected[q] /\ seen'[q] = seen[q]
  BY PredictorFrame DEF PredictorStep
<1>3. RunsShaped' /\ \A k \in Keys : Whole(k)'
  BY <1>1 DEF SlateInv, RunsShaped, Whole, ChildrenOf
<1>4. \A q \in Predictors : q # p => ExpectsSlate(q)'
  BY <1>1, <1>2 DEF SlateInv, ExpectsSlate
<1>5. CASE LookUpRun(p)
  <2>1. predicting'[p] = "open" => /\ predictionRuns[KeyOf(p)].status = "running"
                                   /\ expected'[p] = predictionRuns[KeyOf(p)].slate
    BY <1>5 DEF LookUpRun, TakeUp, PredictGoto, PredictionInv
  <2>2. predicting'[p] \notin {"locking", "inferring"}
    BY <1>5 DEF LookUpRun, TakeUp, PredictGoto, PredictionInv
  <2> QED BY <1>1, <1>2, <1>3, <1>4, <2>1, <2>2 DEF SlateInv, ExpectsSlate, OneHolder
<1>6. CASE OpenSnapshot(p)
  <2>1. /\ predicting[p] = "open" /\ predicting'[p] = "locking" /\ expected'[p] = expected[p]
        /\ seen'[p].at = clock
    BY <1>6 DEF OpenSnapshot, PredictGoto, PredictionInv
  <2> QED BY <1>1, <1>2, <1>3, <1>4, <2>1 DEF SlateInv, ExpectsSlate, OneHolder, GamesInv
<1>7. CASE LockRun(p)
  <2>1. predicting[p] = "locking" /\ ~HoldsRun(KeyOf(p))
    BY <1>7 DEF LockRun
  <2>2. predicting'[p] \in {"retry", "done", "failing", "inferring"}
    BY <1>7 DEF LockRun, PredictGoto, PredictionInv
  <2>3. predicting'[p] = "inferring" =>
           /\ predictionRuns[KeyOf(p)].status = "running"
           /\ expected[p] = SlateOf(seen[p].games, RequestOf[p])
           /\ expected'[p] = expected[p] /\ seen'[p] = seen[p]
    BY <1>7 DEF LockRun, PredictGoto, PredictionInv, MayInfer
  <2>4. OneHolder'
    BY <1>2, <2>1 DEF SlateInv, OneHolder, HoldsRun
  <2> QED BY <1>1, <1>3, <1>4, <2>1, <2>2, <2>3, <2>4 DEF SlateInv, ExpectsSlate
<1>8. CASE InferenceFails(p) \/ RetryPrediction(p) \/ PredictorCrash(p)
  <2>1. predicting'[p] \notin {"open", "locking", "inferring"}
    BY <1>8 DEF InferenceFails, RetryPrediction, PredictorCrash, PredictGoto, PredictionInv
  <2> QED BY <1>1, <1>2, <1>3, <1>4, <2>1 DEF SlateInv, ExpectsSlate, OneHolder
<1> QED BY <1>5, <1>6, <1>7, <1>8

LEMMA CreateKeepsSlates ==
    ASSUME PredictionInv, SlateInv, NEW p \in Predictors, CreatePredictionRun(p), UNCHANGED clock
    PROVE  SlateInv'
<1> DEFINE k == KeyOf(p)
<1>0. k \in Keys /\ predicting[p] = "create" /\ UNCHANGED <<predictions, expected, seen>>
  BY KeyIsKey DEF CreatePredictionRun
<1>1. \A q \in Predictors : q # p => predicting'[q] = predicting[q]
  BY PredictorFrame DEF PredictorStep
<1>2. CASE predictionRuns[k].status = "none"
  <2>1. /\ predictionRuns' = [predictionRuns EXCEPT ![k] =
              [status |-> "running", request |-> RequestIdentity(p), slate |-> expected[p],
               asOf |-> 0]]
        /\ predicting'[p] = "open"
    BY <1>2 DEF CreatePredictionRun, PredictGoto, PredictionInv
  <2>2. /\ predictionRuns'[k].status = "running" /\ predictionRuns'[k].slate = expected[p]
        /\ \A j \in Keys : j # k => predictionRuns'[j] = predictionRuns[j]
        /\ RunsShaped'
    BY <1>0, <2>1 DEF SlateInv, RunsShaped
  <2>3. \A q \in Predictors : q # p /\ KeyOf(q) = k =>
           predicting[q] \notin {"open", "locking", "inferring"}
    BY <1>2 DEF SlateInv, ExpectsSlate
  <2>4. \A q \in Predictors : ExpectsSlate(q)'
    BY <1>0, <1>1, <2>1, <2>2, <2>3, KeyIsKey DEF SlateInv, ExpectsSlate
  <2>5. \A j \in Keys : Whole(j)'
    BY <1>0, <1>2, <2>2 DEF SlateInv, Whole, ChildrenOf
  <2>6. OneHolder'
    BY <1>1, <2>1 DEF SlateInv, OneHolder
  <2> QED BY <2>2, <2>4, <2>5, <2>6 DEF SlateInv
<1>3. CASE predictionRuns[k].status # "none"
  <2>1. /\ predictionRuns' = predictionRuns
        /\ predicting'[p] \notin {"locking", "inferring"}
        /\ predicting'[p] = "open" => predictionRuns[k].slate = expected[p]
    BY <1>3 DEF CreatePredictionRun, TakeUp, PredictGoto, PredictionInv
  <2>2. \A q \in Predictors : ExpectsSlate(q)'
    BY <1>0, <1>1, <1>3, <2>1 DEF SlateInv, ExpectsSlate
  <2>3. RunsShaped' /\ OneHolder' /\ \A j \in Keys : Whole(j)'
    BY <1>0, <1>1, <2>1 DEF SlateInv, RunsShaped, OneHolder, Whole, ChildrenOf
  <2> QED BY <2>2, <2>3 DEF SlateInv
<1> QED BY <1>2, <1>3

LEMMA RetainKeepsSlates ==
    ASSUME PredictionInv, SlateInv, NEW p \in Predictors, RetainFailedRun(p), UNCHANGED clock
    PROVE  SlateInv'
<1> DEFINE k == KeyOf(p)
<1>0. /\ k \in Keys /\ ~HoldsRun(k) /\ UNCHANGED <<predictions, expected, seen>>
      /\ predicting'[p] = "failed"
  BY KeyIsKey DEF RetainFailedRun, PredictGoto, PredictionInv
<1>1. \A q \in Predictors : q # p => predicting'[q] = predicting[q]
  BY PredictorFrame DEF PredictorStep
<1>2. \/ predictionRuns' = predictionRuns
      \/ /\ predictionRuns[k].status = "running"
         /\ predictionRuns' = [predictionRuns EXCEPT ![k].status = "failed"]
  BY DEF RetainFailedRun
<1>3. /\ RunsShaped'
      /\ \A j \in Keys : predictionRuns'[j].slate = predictionRuns[j].slate
      /\ \A j \in Keys : j # k => predictionRuns'[j] = predictionRuns[j]
      /\ predictionRuns'[k] = predictionRuns[k] \/ /\ predictionRuns[k].status = "running"
                                                   /\ predictionRuns'[k].status = "failed"
  BY <1>0, <1>2 DEF SlateInv, RunsShaped
<1>4. \A q \in Predictors : ExpectsSlate(q)'
  BY <1>0, <1>1, <1>3, KeyIsKey DEF SlateInv, ExpectsSlate, HoldsRun
<1>5. \A j \in Keys : Whole(j)'
  BY <1>0, <1>3 DEF SlateInv, Whole, ChildrenOf
<1>6. OneHolder'
  BY <1>0, <1>1 DEF SlateInv, OneHolder
<1> QED BY <1>3, <1>4, <1>5, <1>6 DEF SlateInv

(* The predictions that complete a run.                                    *)
LEMMA StoreKeepsSlates ==
    ASSUME GamesInv, PredictionInv, SlateInv, NEW p \in Predictors, StorePredictions(p),
           UNCHANGED clock
    PROVE  SlateInv'
<1> DEFINE k == KeyOf(p)
           targets == DOMAIN expected[p]
           made == {Prediction(p, g) : g \in targets}
<1>0. k \in Keys /\ predicting[p] = "inferring"
  BY KeyIsKey DEF StorePredictions
<1>1. \A q \in Predictors : q # p => /\ predicting'[q] = predicting[q]
                                     /\ expected'[q] = expected[q] /\ seen'[q] = seen[q]
  BY PredictorFrame DEF PredictorStep
<1>2. predicting'[p] \in {"retry", "failing", "done"}
  BY DEF StorePredictions, PredictGoto, PredictionInv
<1>3. OneHolder'
  BY <1>1, <1>2 DEF SlateInv, OneHolder
<1>4. CASE UNCHANGED <<predictions, predictionRuns>>
  BY <1>1, <1>2, <1>3, <1>4 DEF SlateInv, RunsShaped, ExpectsSlate, Whole, ChildrenOf
<1>5. CASE ~UNCHANGED <<predictions, predictionRuns>>
  <2>1. /\ \A g \in targets : games[g] = seen[p].games[g]
        /\ predictions' = predictions \cup made
        /\ predictionRuns' = [predictionRuns EXCEPT ![k].status = "completed",
                                                    ![k].asOf = seen[p].at]
    BY <1>5 DEF StorePredictions
  <2>2. /\ predictionRuns'[k].status = "completed" /\ predictionRuns'[k].asOf = seen[p].at
        /\ predictionRuns'[k].slate = predictionRuns[k].slate
        /\ \A j \in Keys : j # k => predictionRuns'[j] = predictionRuns[j]
        /\ RunsShaped'
    BY <1>0, <2>1 DEF SlateInv, RunsShaped
  <2>3. \A q \in Predictors : q # p /\ KeyOf(q) = k => predicting[q] # "inferring"
    BY <1>0 DEF SlateInv, OneHolder
  <2>4. \A q \in Predictors : ExpectsSlate(q)'
    BY <1>0, <1>1, <1>2, <2>2, <2>3, KeyIsKey DEF SlateInv, ExpectsSlate
  <2>5. /\ predictionRuns[k].status = "running" /\ predictionRuns[k].slate = expected[p]
        /\ expected[p] = SlateOf(seen[p].games, RequestOf[p])
        /\ seen[p].at <= clock
    BY <1>0 DEF SlateInv, ExpectsSlate
  <2>6. ChildrenOf(k) = {}
    BY <1>0, <2>5 DEF SlateInv, Whole
  <2>7. \A n \in made : n.key = k
    BY DEF Prediction
  <2>8. ChildrenOf(k)' = made /\ \A j \in Keys : j # k => ChildrenOf(j)' = ChildrenOf(j)
    BY <2>1, <2>6, <2>7 DEF ChildrenOf
  <2>9. \A j \in Keys : j # k => Whole(j)'
    BY <2>2, <2>8 DEF SlateInv, Whole
  <2>10. ASSUME NEW g \in targets
         PROVE  /\ Prediction(p, g).kickoff = expected[p][g][2]
                /\ Prediction(p, g).home = expected[p][g][1][4]
                /\ Prediction(p, g).away = expected[p][g][1][5]
                /\ seen[p].at <= Prediction(p, g).created
    <3>1. g \in Targets(seen[p].games, RequestOf[p])
      BY <2>5 DEF SlateOf
    <3>2. expected[p][g] = <<Identity(seen[p].games[g]), seen[p].games[g].kickoff>>
      BY <2>5, <3>1 DEF SlateOf
    <3>3. /\ expected[p][g][2] = seen[p].games[g].kickoff
          /\ expected[p][g][1][4] = seen[p].games[g].home
          /\ expected[p][g][1][5] = seen[p].games[g].away
      BY <3>2 DEF Identity
    <3> QED BY <2>5, <3>3, PredictionFields
  <2>11. {n.game : n \in made} = targets
    <3>1. \A g \in targets : Prediction(p, g) \in made /\ Prediction(p, g).game = g
      BY PredictionFields
    <3>2. \A n \in made : \E g \in targets : n.game = g
      BY PredictionFields
    <3> HIDE DEF made, targets
    <3>3. targets \subseteq {n.game : n \in made}
      BY <3>1
    <3>4. {n.game : n \in made} \subseteq targets
      BY <3>2
    <3> QED BY <3>3, <3>4
  <2>12. \A n, m \in made : n.game = m.game => n = m
    BY PredictionFields
  <2>13. \A n \in made : /\ n.kickoff = expected[p][n.game][2]
                         /\ n.home = expected[p][n.game][1][4]
                         /\ n.away = expected[p][n.game][1][5]
                         /\ seen[p].at <= n.created
    BY <2>10, PredictionFields
  <2>14. Whole(k)'
    BY <2>2, <2>5, <2>8, <2>11, <2>12, <2>13 DEF Whole
  <2> QED BY <1>3, <2>2, <2>4, <2>9, <2>14 DEF SlateInv
<1> QED BY <1>4, <1>5

LEMMA NextKeepsSlates == SeasonInv /\ SlateInv /\ [Next]_seasonVars => SlateInv'
<1> SUFFICES ASSUME SeasonInv, SlateInv, [Next]_seasonVars PROVE SlateInv'
  OBVIOUS
<1>1. ASSUME NEW p \in Predictors, Predict(p) PROVE SlateInv'
  BY <1>1, NoWriteKeepsSlates, CreateKeepsSlates, RetainKeepsSlates, StoreKeepsSlates
     DEF Predict, PredictorStep, SeasonInv
<1>2. CASE UNCHANGED predictionVars
  <2>1. clock \in Int /\ clock' \in Int /\ clock <= clock'
    BY NextKeepsGames DEF SeasonInv, GamesInv
  <2>2. \A p \in Predictors : ExpectsSlate(p)'
    BY <1>2, <2>1 DEF predictionVars, SlateInv, ExpectsSlate
  <2>3. RunsShaped' /\ OneHolder' /\ \A k \in Keys : Whole(k)'
    BY <1>2 DEF predictionVars, SlateInv, RunsShaped, OneHolder, Whole, ChildrenOf
  <2> QED BY <2>2, <2>3 DEF SlateInv
<1> QED BY <1>1, <1>2 DEF Next, Import, Capture, Price, Research, Tick, seasonVars

(* A completed run (moneyline_prediction_service) has exactly the games of *)
(* the slate it was created for, each once, with the kickoff and the teams *)
(* of that slate and later than its snapshot; any other run has none.      *)
(* This holds for any number of executions of a key, retries and crashes.  *)
THEOREM SlatesStayWhole == Spec => []SlateIsWhole
<1>1. SlateInv => SlateIsWhole
  BY DEF SlateInv, Whole, SlateIsWhole
<1>2. Init => SlateInv
  BY SlateInitInv DEF Init
<1> QED BY <1>1, <1>2, NextKeepsSlates, SeasonInvariant, PTL DEF Spec

-----------------------------------------------------------------------------
(* The best price. *)

AmericanPrice == Int \ {0}

LEMMA ReturnPositive ==
    ASSUME NEW a \in AmericanPrice
    PROVE  /\ Return(a)[1] \in Nat \ {0} /\ Return(a)[2] \in Nat \ {0}
  BY DEF AmericanPrice, Return

LEMMA Scaled ==
    ASSUME NEW x \in Int, NEW y \in Int, NEW k \in Nat \ {0}
    PROVE  (x >= y <=> k * x >= k * y) /\ (x > y <=> k * x > k * y)
  OBVIOUS

LEMMA Cross ==
    ASSUME NEW x \in Int, NEW y \in Int, NEW z \in Int
    PROVE  x * y \in Int /\ x * (y * z) = y * (x * z) /\ x * (y * z) = z * (x * y)
  OBVIOUS

(* A price that pays no less than another, and that no less than a third,  *)
(* pays no less than the third; more, if one of the two pays more.         *)
LEMMA PaysTransitive ==
    ASSUME NEW a \in AmericanPrice, NEW b \in AmericanPrice, NEW c \in AmericanPrice, Pays(a, b) >= 0, Pays(b, c) >= 0
    PROVE  /\ Pays(a, c) >= 0
           /\ Pays(a, b) > 0 \/ Pays(b, c) > 0 => Pays(a, c) > 0
<1> DEFINE a1 == Return(a)[1]  a2 == Return(a)[2]
           b1 == Return(b)[1]  b2 == Return(b)[2]
           c1 == Return(c)[1]  c2 == Return(c)[2]
<1>1. /\ a1 \in Nat \ {0} /\ a2 \in Nat \ {0} /\ b1 \in Nat \ {0} /\ b2 \in Nat \ {0}
      /\ c1 \in Nat \ {0} /\ c2 \in Nat \ {0}
  BY ReturnPositive
<1>2. Pays(a, b) = a1 * b2 - b1 * a2 /\ Pays(b, c) = b1 * c2 - c1 * b2 /\ Pays(a, c) = a1 * c2 - c1 * a2
  BY DEF Pays
<1> HIDE DEF a1, a2, b1, b2, c1, c2
<1>3. /\ a1 * b2 \in Int /\ b1 * a2 \in Int /\ b1 * c2 \in Int /\ c1 * b2 \in Int
      /\ a1 * c2 \in Int /\ c1 * a2 \in Int
  BY <1>1, Cross
<1>4. a1 * b2 >= b1 * a2 /\ b1 * c2 >= c1 * b2
  BY <1>2, <1>3
<1>5. /\ c2 * (a1 * b2) = b2 * (a1 * c2)
      /\ c2 * (b1 * a2) = a2 * (b1 * c2)
      /\ a2 * (c1 * b2) = b2 * (c1 * a2)
  BY <1>1, Cross
<1>6. /\ c2 * (a1 * b2) >= c2 * (b1 * a2) /\ a2 * (b1 * c2) >= a2 * (c1 * b2)
      /\ a1 * b2 > b1 * a2 => c2 * (a1 * b2) > c2 * (b1 * a2)
      /\ b1 * c2 > c1 * b2 => a2 * (b1 * c2) > a2 * (c1 * b2)
  BY <1>1, <1>3, <1>4, Scaled
<1>7. /\ c2 * (a1 * b2) \in Int /\ c2 * (b1 * a2) \in Int /\ a2 * (c1 * b2) \in Int
      /\ b2 * (a1 * c2) \in Int /\ b2 * (c1 * a2) \in Int /\ a2 * (b1 * c2) \in Int
  BY <1>1, <1>3, Cross
<1>8. /\ b2 * (a1 * c2) >= b2 * (c1 * a2)
      /\ a1 * b2 > b1 * a2 \/ b1 * c2 > c1 * b2 => b2 * (a1 * c2) > b2 * (c1 * a2)
  BY <1>5, <1>6, <1>7
<1>9. /\ a1 * c2 >= c1 * a2
      /\ a1 * b2 > b1 * a2 \/ b1 * c2 > c1 * b2 => a1 * c2 > c1 * a2
  BY <1>1, <1>3, <1>8, Scaled
<1> QED BY <1>2, <1>3, <1>9

LEMMA PaysOpposite ==
    ASSUME NEW a \in AmericanPrice, NEW b \in AmericanPrice
    PROVE  Pays(a, b) \in Int /\ Pays(b, a) = -Pays(a, b)
<1>1. /\ Return(a)[1] \in Int /\ Return(a)[2] \in Int /\ Return(b)[1] \in Int /\ Return(b)[2] \in Int
  BY ReturnPositive
<1> QED BY <1>1, Cross DEF Pays

(* The market whose side is taken before that of another.                  *)
TakenBefore(m, n, side) ==
    \/ Pays(PriceOf(m, side), PriceOf(n, side)) > 0
    \/ Pays(PriceOf(m, side), PriceOf(n, side)) = 0 /\ m.book < n.book

(* The best of the markets of several bookmakers is one of them, and no    *)
(* other pays more.                                                        *)
LEMMA BestIsBest ==
    ASSUME NEW markets, IsFiniteSet(markets), markets # {}, NEW side,
           \A m \in markets : m.book \in Int /\ m.home \in AmericanPrice /\ m.away \in AmericanPrice,
           \A m, n \in markets : m.book = n.book => m = n
    PROVE  /\ BestMarket(markets, side) \in markets
           /\ \A m \in markets :
                 Pays(PriceOf(BestMarket(markets, side), side), PriceOf(m, side)) >= 0
<1> DEFINE best == BestMarket(markets, side)
           R == {s \in markets \X markets : TakenBefore(s[1], s[2], side)}
<1>0. \A m \in markets : PriceOf(m, side) \in AmericanPrice
  BY DEF PriceOf
<1>1. ASSUME NEW x \in markets, NEW y \in markets
      PROVE  /\ Pays(PriceOf(x, side), PriceOf(y, side)) \in Int
             /\ Pays(PriceOf(y, side), PriceOf(x, side)) = -Pays(PriceOf(x, side), PriceOf(y, side))
  BY <1>0, PaysOpposite
<1>2. ASSUME NEW x \in markets PROVE ~TakenBefore(x, x, side)
  BY <1>1 DEF TakenBefore
<1>3. ASSUME NEW x \in markets, NEW y \in markets, NEW z \in markets,
             TakenBefore(x, y, side), TakenBefore(y, z, side)
      PROVE  TakenBefore(x, z, side)
  <2>1. Pays(PriceOf(x, side), PriceOf(y, side)) >= 0 /\ Pays(PriceOf(y, side), PriceOf(z, side)) >= 0
    BY <1>1, <1>3 DEF TakenBefore
  <2>2. /\ Pays(PriceOf(x, side), PriceOf(z, side)) >= 0
        /\ \/ Pays(PriceOf(x, side), PriceOf(y, side)) > 0
           \/ Pays(PriceOf(y, side), PriceOf(z, side)) > 0
           => Pays(PriceOf(x, side), PriceOf(z, side)) > 0
    BY <1>0, <2>1, PaysTransitive
  <2> QED BY <1>1, <1>3, <2>2 DEF TakenBefore
<1>4. ASSUME NEW x \in markets, NEW y \in markets, x # y
      PROVE  TakenBefore(x, y, side) \/ TakenBefore(y, x, side)
  BY <1>1, <1>4 DEF TakenBefore
<1>5. \E m \in markets : \A n \in markets \ {m} : TakenBefore(m, n, side)
  <2>1. \A x, y \in markets : <<x, y>> \in R <=> TakenBefore(x, y, side)
    OBVIOUS
  <2> HIDE DEF R
  <2>2. Ordered(markets, R)
    BY <1>2, <1>3, <1>4, <2>1 DEF Ordered
  <2>3. \E m \in markets : \A n \in markets \ {m} : <<m, n>> \in R
    BY <2>2, FirstMember
  <2> QED BY <2>1, <2>3
<1>6. best \in markets /\ \A n \in markets \ {best} : TakenBefore(best, n, side)
  BY <1>5 DEF BestMarket, TakenBefore
<1>7. ASSUME NEW m \in markets PROVE Pays(PriceOf(best, side), PriceOf(m, side)) >= 0
  <2>1. CASE m = best
    BY <1>1, <1>6, <2>1
  <2>2. CASE m # best
    BY <1>1, <1>6, <2>2 DEF TakenBefore
  <2> QED BY <2>1, <2>2
<1> QED BY <1>6, <1>7

-----------------------------------------------------------------------------
(* Prices. *)

(* A key names a run; an answer is one of the provider's; a quote has a    *)
(* price, of one of finitely many bookmakers; a snapshot shows no evidence *)
(* that is not there.                                                      *)
KeysKnown == \A n \in predictions : n.key \in Keys
AnswersGiven == answer \in [Captures -> Answers \cup {{}}]
QuotesPriced ==
    /\ IsFiniteSet({q.book : q \in quotes})
    /\ \A q \in quotes : q.book \in Int /\ q.price \in AmericanPrice
ViewsBehind ==
    \A e \in Evaluators : evaluating[e] = "locking" => view[e].evidence \subseteq evidence

(* A contributor has two pieces of evidence.                               *)
Backed(m, n, c, ev) ==
    \E x, y \in ev :
        /\ x.quote.capture = c /\ y.quote.capture = c
        /\ x.quote.game = n.game /\ y.quote.game = n.game
        /\ x.kickoff = n.kickoff /\ y.kickoff = n.kickoff
        /\ x.quote.book = m.book /\ y.quote.book = m.book
        /\ x.team = n.home /\ x.quote.price = m.home
        /\ y.team = n.away /\ y.quote.price = m.away

(* What an evaluation was made from, and is still there.                   *)
PricedWell(v) ==
    LET n == v.prediction
        run == captureRuns[v.graph.capture]
    IN  /\ v.graph.capture \in Captures
        /\ run.status = "completed" /\ run.received = v.graph.observed
        /\ n.created <= run.requested /\ run.received <= v.at
        /\ Cardinality({m.book : m \in v.graph.contributors}) >= MinContributors
        /\ \A m \in v.graph.contributors : Backed(m, n, v.graph.capture, evidence)
        /\ \A m, best \in v.graph.contributors : best.book = v.graph.best =>
              Pays(PriceOf(best, n.side), PriceOf(m, n.side)) >= 0

MarketInv ==
    /\ KeysKnown /\ AnswersGiven /\ QuotesPriced /\ ViewsBehind
    /\ \A v \in evaluations : PricedWell(v)

LEMMA MarketInitInv == PredictionInit /\ CaptureInit /\ EvaluationInit => MarketInv
<1> SUFFICES ASSUME PredictionInit, CaptureInit, EvaluationInit PROVE MarketInv
  OBVIOUS
<1>1. predictions = {} /\ quotes = {} /\ evaluations = {} /\ AnswersGiven /\ ViewsBehind
  BY DEF PredictionInit, CaptureInit, EvaluationInit, AnswersGiven, ViewsBehind
<1>2. {q.book : q \in quotes} = {}
  BY <1>1
<1> QED BY <1>1, <1>2, FS_EmptySet DEF MarketInv, KeysKnown, QuotesPriced

LEMMA PredictorKeepsKeys ==
    ASSUME KeysKnown, NEW p \in Predictors, PredictorStep(p)
    PROVE  KeysKnown'
<1>1. CASE StorePredictions(p)
  <2> DEFINE made == {Prediction(p, g) : g \in DOMAIN expected[p]}
  <2>1. predictions' = predictions \/ predictions' = predictions \cup made
    BY <1>1 DEF StorePredictions
  <2>2. \A n \in made : n.key = KeyOf(p)
    BY DEF Prediction
  <2> HIDE DEF made
  <2>3. \A n \in predictions' : n \in predictions \/ n.key = KeyOf(p)
    BY <2>1, <2>2
  <2> QED BY <2>3, KeyIsKey DEF KeysKnown, Keys
<1>2. CASE ~StorePredictions(p)
  BY <1>2 DEF PredictorStep, LookUpRun, CreatePredictionRun, OpenSnapshot, LockRun, InferenceFails,
              RetainFailedRun, RetryPrediction, PredictorCrash, KeysKnown, Keys
<1> QED BY <1>1, <1>2

(* A quote that is stored is a price of a bookmaker of the answer.         *)
LEMMA SelectionPriced ==
    ASSUME NEW c \in Captures, NEW ev, NEW g, NEW q \in Selections(c, ev, g)
    PROVE  \E b \in ev.books : q.book = b.book /\ (q.price = b.home \/ q.price = b.away)
<1> DEFINE sides(b) == {<<ev.home, b.home>>, <<ev.away, b.away>>}
           quote(b, s) == [capture |-> c, event |-> ev.id, game |-> g, book |-> b.book,
                           team |-> s[1], price |-> s[2], updated |-> b.updated,
                           observed |-> captureRuns[c].received]
<1>1. Selections(c, ev, g) = UNION {{quote(b, s) : s \in sides(b)} : b \in ev.books}
  BY DEF Selections
<1>2. \A b \in ev.books : \A s \in sides(b) : s[2] = b.home \/ s[2] = b.away
  OBVIOUS
<1> HIDE DEF sides, quote
<1>3. PICK b \in ev.books : q \in {quote(b, s) : s \in sides(b)}
  BY <1>1
<1>4. PICK s \in sides(b) : q = quote(b, s)
  BY <1>3
<1>5. q.book = b.book /\ q.price = s[2]
  BY <1>4 DEF quote
<1> QED BY <1>2, <1>5

LEMMA CaptureKeepsPrices ==
    ASSUME AnswersGiven, QuotesPriced, NEW c \in Captures, CaptureStep(c)
    PROVE  AnswersGiven' /\ QuotesPriced'
<1>1. AnswersGiven'
  BY DEF AnswersGiven, CaptureStep, ReserveCapture, CallProvider, RecordReceipt, StoreQuotes,
         StoreFails, MarkCaptureFailed, Qualify, QualificationFails, CaptureCrash
<1>2. CASE StoreQuotes(c)
  <2> DEFINE books == UNION {ev.books : ev \in answer[c]}
             game(ev) == CHOOSE g \in ResolveNflEvent(games, mappings, ev) : TRUE
  <2>1. /\ IsFiniteSet({b.book : b \in books})
        /\ \A b \in books : b.book \in Int /\ b.home \in AmericanPrice /\ b.away \in AmericanPrice
    <3>1. CASE answer[c] = {}
      <4>1. books = {} /\ {b.book : b \in books} = {}
        BY <3>1
      <4> QED BY <4>1, FS_EmptySet
    <3>2. CASE answer[c] # {}
      <4>1. answer[c] \in Answers
        BY <3>2 DEF AnswersGiven
      <4>2. /\ IsFiniteSet({b.book : b \in books})
            /\ \A b \in books : b.book \in Int /\ {b.home, b.away} \subseteq Int \ {0}
        BY <4>1, NflCaptureAssumption
      <4> QED BY <4>2 DEF AmericanPrice
    <3> QED BY <3>1, <3>2
  <2>2. quotes' = quotes \cup UNION {Selections(c, ev, game(ev)) : ev \in answer[c]}
    BY <1>2 DEF StoreQuotes
  <2> HIDE DEF game
  <2>3. ASSUME NEW q \in quotes', q \notin quotes
        PROVE  \E b \in books : q.book = b.book /\ (q.price = b.home \/ q.price = b.away)
    <3>1. PICK ev \in answer[c] : q \in Selections(c, ev, game(ev))
      BY <2>2, <2>3
    <3>2. ev.books \subseteq books
      OBVIOUS
    <3> QED BY <3>1, <3>2, SelectionPriced
  <2> HIDE DEF books
  <2>4. {q.book : q \in quotes'} \subseteq {q.book : q \in quotes} \cup {b.book : b \in books}
    BY <2>3
  <2>5. IsFiniteSet({q.book : q \in quotes} \cup {b.book : b \in books})
    BY <2>1, FS_Union DEF QuotesPriced
  <2>6. IsFiniteSet({q.book : q \in quotes'})
    BY <2>4, <2>5, FS_Subset
  <2>7. \A q \in quotes' : q.book \in Int /\ q.price \in AmericanPrice
    BY <2>1, <2>3 DEF QuotesPriced
  <2> QED BY <1>1, <2>6, <2>7 DEF QuotesPriced
<1>3. CASE ~StoreQuotes(c)
  <2>1. quotes' = quotes
    BY <1>3 DEF CaptureStep, ReserveCapture, CallProvider, RecordReceipt, StoreFails,
              MarkCaptureFailed, Qualify, QualificationFails, CaptureCrash
  <2> QED BY <1>1, <2>1 DEF QuotesPriced
<1> QED BY <1>2, <1>3

(* The contributors of an evaluation are of different bookmakers, as many  *)
(* as there are; each is backed by evidence that the snapshot shows.       *)
LEMMA ContributorsOfBooks ==
    ASSUME NEW db, NEW n, NEW c, EvidenceCoherent(db, n, c),
           IsFiniteSet(BooksOf(EvidenceOf(db, n, c)))
    PROVE  LET markets == Contributors(db, n, c)
           IN  /\ IsFiniteSet(markets)
               /\ Cardinality({m.book : m \in markets}) = Cardinality(markets)
               /\ \A m, o \in markets : m.book = o.book => m = o
               /\ \A m \in markets : Backed(m, n, c, EvidenceOf(db, n, c))
<1> DEFINE ev == EvidenceOf(db, n, c)
           complete == {b \in BooksOf(ev) : /\ TwoSided(n, OfBook(ev, b))
                                            /\ \A x \in OfBook(ev, b) : Fresh(db, c, x)}
           market(b) == [book |-> b, home |-> OfTeam(OfBook(ev, b), n.home).quote.price,
                         away |-> OfTeam(OfBook(ev, b), n.away).quote.price]
           markets == Contributors(db, n, c)
<1>1. markets = {market(b) : b \in complete}
  BY DEF Contributors
<1>2. \A b : market(b).book = b
  OBVIOUS
<1>3. IsFiniteSet(complete)
  BY FS_Subset
<1>4. \A b \in complete : Backed(market(b), n, c, ev)
  <2> SUFFICES ASSUME NEW b \in complete PROVE Backed(market(b), n, c, ev)
    OBVIOUS
  <2>1. {x.team : x \in OfBook(ev, b)} = {n.home, n.away}
    BY DEF TwoSided
  <2> DEFINE x == OfTeam(OfBook(ev, b), n.home)
             y == OfTeam(OfBook(ev, b), n.away)
  <2>2. x \in OfBook(ev, b) /\ x.team = n.home /\ y \in OfBook(ev, b) /\ y.team = n.away
    BY <2>1 DEF OfTeam
  <2>3. /\ x \in ev /\ x.quote.book = b /\ y \in ev /\ y.quote.book = b
    BY <2>2 DEF OfBook
  <2>4. /\ x.quote.game = n.game /\ x.quote.capture = c
        /\ y.quote.game = n.game /\ y.quote.capture = c
    BY <2>3 DEF EvidenceOf
  <2>5. x.kickoff = n.kickoff /\ y.kickoff = n.kickoff
    BY <2>3 DEF EvidenceCoherent
  <2>6. market(b).book = b /\ market(b).home = x.quote.price /\ market(b).away = y.quote.price
    OBVIOUS
  <2> HIDE DEF market, x, y, ev
  <2> QED BY <2>2, <2>3, <2>4, <2>5, <2>6 DEF Backed
<1> HIDE DEF market, complete, ev
<1>5. {m.book : m \in markets} = complete
  BY <1>1, <1>2
<1>6. \A m, o \in markets : m.book = o.book => m = o
  BY <1>1, <1>2
<1>7. ExistsBijection(complete, markets)
  <2> DEFINE f == [b \in complete |-> market(b)]
  <2>1. f \in [complete -> markets] /\ \A m \in markets : \E b \in complete : f[b] = m
    BY <1>1
  <2>2. \A a, b \in complete : f[a] = f[b] => a = b
    BY <1>2
  <2> HIDE DEF f
  <2> QED BY <2>1, <2>2 DEF ExistsBijection, Bijection, Injection, Surjection, IsInjective
<1>8. IsFiniteSet(markets) /\ Cardinality(markets) = Cardinality(complete)
  BY <1>3, <1>7, FS_Bijection
<1>9. \A m \in markets : Backed(m, n, c, ev)
  BY <1>1, <1>4
<1> QED BY <1>5, <1>6, <1>8, <1>9 DEF ev

(* A contributor has the prices of a quote, and the best is not bettered.  *)
LEMMA CompletedPricedWell ==
    ASSUME GamesInv, EvaluationInv, EvidenceInv, MarketInv, NEW e \in Evaluators,
           evaluating[e] = "locking", NEW n, NEW c, pair[e] = <<n, c>>, Complete(e, n, c),
           ~\E v \in evaluations : v.prediction = n
    PROVE  PricedWell([prediction |-> n, graph |-> Graph(view[e], n, c), at |-> clock])
<1> DEFINE db == view[e]
           markets == Contributors(db, n, c)
           best == BestMarket(markets, n.side)
           v == [prediction |-> n, graph |-> Graph(db, n, c), at |-> clock]
<1>1. c \in Captures /\ db.evidence \subseteq evidence /\ db.evaluations \subseteq evaluations
  BY DEF EvaluationInv, MarketInv, ViewsBehind
<1>2. Prepared(db, n, c, clock) /\ db.captures[c] = captureRuns[c]
  BY DEF Complete, Changed
<1>3. /\ captureRuns[c].status = "completed" /\ n.created <= captureRuns[c].requested
      /\ captureRuns[c].received <= clock
      /\ EvidenceCoherent(db, n, c) /\ Cardinality(markets) >= MinContributors
  BY <1>1, <1>2 DEF Prepared, EntryOrder, EvaluatedInTime
<1>4. EvidenceOf(db, n, c) \subseteq evidence /\ \A x \in evidence : x.quote \in quotes
  BY <1>1 DEF EvidenceOf, EvidenceInv, EvidencePlaced
<1>5. IsFiniteSet(BooksOf(EvidenceOf(db, n, c)))
  <2>1. BooksOf(EvidenceOf(db, n, c)) \subseteq {q.book : q \in quotes}
    BY <1>4 DEF BooksOf
  <2> QED BY <2>1, FS_Subset DEF MarketInv, QuotesPriced
<1>6. /\ IsFiniteSet(markets)
      /\ Cardinality({m.book : m \in markets}) = Cardinality(markets)
      /\ \A m, o \in markets : m.book = o.book => m = o
      /\ \A m \in markets : Backed(m, n, c, EvidenceOf(db, n, c))
  BY <1>3, <1>5, ContributorsOfBooks
<1>7. \A m \in markets : Backed(m, n, c, evidence)
  BY <1>4, <1>6 DEF Backed
<1>8. \A m \in markets : m.book \in Int /\ m.home \in AmericanPrice /\ m.away \in AmericanPrice
  BY <1>4, <1>7 DEF Backed, MarketInv, QuotesPriced
<1>9. markets # {}
  <2> HIDE DEF markets
  <2>1. Cardinality(markets) # 0
    BY <1>3, EvaluationAssumption
  <2> QED BY <2>1, FS_EmptySet
<1>10. /\ best \in markets
       /\ \A m \in markets : Pays(PriceOf(best, n.side), PriceOf(m, n.side)) >= 0
  BY <1>6, <1>8, <1>9, BestIsBest
<1>11. /\ v.prediction = n /\ v.at = clock /\ v.graph.capture = c
       /\ v.graph.observed = db.captures[c].received
       /\ v.graph.contributors = markets /\ v.graph.best = best.book
  BY DEF Graph
<1> HIDE DEF v, markets, best
<1>12. \A m, b \in markets : b.book = best.book =>
          Pays(PriceOf(b, n.side), PriceOf(m, n.side)) >= 0
  BY <1>6, <1>10
<1> QED BY <1>1, <1>2, <1>3, <1>6, <1>7, <1>11, <1>12 DEF PricedWell, v

(* Evidence and completed captures stay, and with them what was priced.    *)
LEMMA StaysPriced ==
    ASSUME NEW v, PricedWell(v), evidence \subseteq evidence',
           \A d \in Captures : captureRuns[d].status = "completed" => captureRuns'[d] = captureRuns[d]
    PROVE  PricedWell(v)'
<1>1. captureRuns'[v.graph.capture] = captureRuns[v.graph.capture]
  BY DEF PricedWell
<1>2. \A m, n, c : Backed(m, n, c, evidence) => Backed(m, n, c, evidence')
  BY DEF Backed
<1> QED BY <1>1, <1>2 DEF PricedWell

LEMMA EvaluatorKeepsPrices ==
    ASSUME GamesInv, EvaluationInv, EvidenceInv, MarketInv, NEW e \in Evaluators,
           EvaluatorStep(e), UNCHANGED <<evidence, captureRuns>>
    PROVE  ViewsBehind' /\ \A v \in evaluations' : PricedWell(v)'
<1>1. ViewsBehind'
  <2>1. \A d \in Evaluators : d # e => evaluating'[d] = evaluating[d] /\ view'[d] = view[d]
    BY DEF EvaluationInv, EvaluatorStep, Preview, OpenView, Evaluate, StartOver, RetainFailure,
           Complete, EvaluatorCrash, EvaluateGoto, Leave
  <2>2. evaluating'[e] = "locking" => view'[e].evidence = evidence
    BY DEF EvaluationInv, EvaluatorStep, Preview, OpenView, Evaluate, StartOver, RetainFailure,
           Complete, EvaluatorCrash, EvaluateGoto, Leave, Database
  <2> QED BY <2>1, <2>2 DEF MarketInv, ViewsBehind
<1>2. ASSUME NEW v \in evaluations' PROVE PricedWell(v)
  <2>1. CASE v \in evaluations
    BY <2>1 DEF MarketInv
  <2>2. CASE v \notin evaluations
    <3> DEFINE n == pair[e][1]
               c == pair[e][2]
    <3>1. /\ evaluating[e] = "locking" /\ Complete(e, n, c)
      BY <2>2 DEF EvaluatorStep, Preview, OpenView, Evaluate, StartOver, RetainFailure,
                  EvaluatorCrash
    <3>2. /\ ~\E w \in evaluations : w.prediction = n
          /\ v = [prediction |-> n, graph |-> Graph(view[e], n, c), at |-> clock]
      BY <2>2, <3>1 DEF Complete
    <3>3. pair[e] = <<n, c>>
      BY <3>1 DEF EvaluationInv
    <3> HIDE DEF n, c
    <3> QED BY <3>1, <3>2, <3>3, CompletedPricedWell
  <2> QED BY <2>1, <2>2
<1> QED BY <1>1, <1>2, StaysPriced

(* A step of a capture adds evidence and leaves completed rows.            *)
LEMMA CaptureKeepsEvaluations ==
    ASSUME CaptureInv, EvidenceInv, MarketInv, NEW c \in Captures, CaptureStep(c),
           UNCHANGED <<evaluations, evaluating, view>>
    PROVE  ViewsBehind' /\ \A v \in evaluations' : PricedWell(v)'
<1>1. evidence \subseteq evidence'
  BY DEF CaptureStep, ReserveCapture, CallProvider, RecordReceipt, StoreQuotes, StoreFails,
         MarkCaptureFailed, Qualify, QualificationFails, CaptureCrash
<1>2. \A d \in Captures : captureRuns[d].status = "completed" => captureRuns'[d] = captureRuns[d]
  BY CaptureOnlyAdds
<1>3. ViewsBehind'
  BY <1>1 DEF MarketInv, ViewsBehind
<1> QED BY <1>1, <1>2, <1>3, StaysPriced DEF MarketInv

LEMMA NextKeepsMarket ==
    SeasonInv /\ EvidenceInv /\ MarketInv /\ [Next]_seasonVars => MarketInv'
<1> SUFFICES ASSUME SeasonInv, EvidenceInv, MarketInv, [Next]_seasonVars PROVE MarketInv'
  OBVIOUS
<1>0. \A v \in evaluations : UNCHANGED <<evidence, captureRuns>> => PricedWell(v)'
  BY StaysPriced DEF MarketInv
<1>1. CASE \E p \in Predictors \cap crew.who : Predict(p)
  <2>1. KeysKnown'
    BY <1>1, PredictorKeepsKeys DEF Predict, MarketInv
  <2> QED BY <1>0, <1>1, <2>1 DEF Predict, marketVars, captureVars, evaluationVars, MarketInv,
          AnswersGiven, QuotesPriced, ViewsBehind
<1>2. CASE \E c \in Captures \cap crew.who : Capture(c)
  <2>1. AnswersGiven' /\ QuotesPriced'
    BY <1>2, CaptureKeepsPrices DEF Capture, MarketInv
  <2>2. ViewsBehind' /\ \A v \in evaluations' : PricedWell(v)'
    BY <1>2, CaptureKeepsEvaluations DEF Capture, evaluationVars, SeasonInv
  <2>3. KeysKnown'
    BY <1>2 DEF Capture, predictionVars, MarketInv, KeysKnown, Keys
  <2> QED BY <2>1, <2>2, <2>3 DEF MarketInv
<1>3. CASE \E e \in Evaluators \cap crew.who : Price(e)
  <2>1. ViewsBehind' /\ \A v \in evaluations' : PricedWell(v)'
    BY <1>3, EvaluatorKeepsPrices DEF Price, captureVars, SeasonInv
  <2>2. KeysKnown' /\ AnswersGiven' /\ QuotesPriced'
    BY <1>3 DEF Price, predictionVars, captureVars, MarketInv, KeysKnown, Keys, AnswersGiven,
                QuotesPriced
  <2> QED BY <2>1, <2>2 DEF MarketInv
<1>4. CASE UNCHANGED <<predictionVars, marketVars>>
  BY <1>0, <1>4 DEF predictionVars, marketVars, captureVars, evaluationVars, MarketInv, KeysKnown,
     Keys, AnswersGiven, QuotesPriced, ViewsBehind
<1> QED BY <1>1, <1>2, <1>3, <1>4 DEF Next, Import, Research, Tick, seasonVars

(* An evaluation (nfl/market_evaluation.py) compares a prediction of a     *)
(* completed run with a market that was asked for after the prediction was *)
(* made and received before the kickoff, of enough bookmakers, each with   *)
(* two quotes that are evidence for that kickoff; and the price it takes   *)
(* is one no contributor betters.  This holds whatever rivals, retries,    *)
(* crashes and moves of the schedule come between its preview, its         *)
(* snapshot and its commit.                                                *)
THEOREM EvaluationsUseLaterMarkets == Spec => []PricedOnLaterMarket
<1>1. SeasonInv /\ EvidenceInv /\ SlateInv /\ MarketInv => PricedOnLaterMarket
  <2> SUFFICES ASSUME SeasonInv, SlateInv, MarketInv, NEW v \in evaluations
               PROVE  LET n == v.prediction
                          run == captureRuns[v.graph.capture]
                      IN  /\ n \in predictions /\ n.official
                          /\ predictionRuns[n.key].status = "completed"
                          /\ run.status = "completed" /\ run.received = v.graph.observed
                          /\ n.created <= run.requested /\ run.received <= v.at
                          /\ v.at < n.kickoff
                          /\ Cardinality({m.book : m \in v.graph.contributors})
                                >= MinContributors
                          /\ \A m \in v.graph.contributors :
                                Backed(m, n, v.graph.capture, evidence)
                          /\ \A m, best \in v.graph.contributors : best.book = v.graph.best =>
                                Pays(PriceOf(best, n.side), PriceOf(m, n.side)) >= 0
    BY DEF PricedOnLaterMarket, Backed
  <2> DEFINE n == v.prediction
  <2>1. n \in predictions /\ n.official /\ v.at < n.kickoff
    BY DEF SeasonInv, EvaluationInv, PricedTyped, Official
  <2>2. predictionRuns[n.key].status = "completed"
    <3>1. n.key \in Keys /\ n \in ChildrenOf(n.key)
      BY <2>1 DEF MarketInv, KeysKnown, ChildrenOf
    <3> QED BY <3>1 DEF SlateInv, Whole
  <2> QED BY <2>1, <2>2 DEF MarketInv, PricedWell
<1>2. Init => EvidenceInv /\ SlateInv /\ MarketInv
  BY EvidenceInitInv, SlateInitInv, MarketInitInv DEF Init
<1> QED BY <1>1, <1>2, NextKeepsEvidence, NextKeepsSlates, NextKeepsMarket, SeasonInvariant, PTL
        DEF Spec

-----------------------------------------------------------------------------
(* The rows of the data sets. *)

(* Rows in the order of kickoffs, with the columns the folds look at.      *)
InTime(rows) ==
    /\ rows \in Seq(ToSet(rows))
    /\ \A i \in DOMAIN rows : rows[i].kickoff \in Int /\ rows[i].season \in Int
    /\ \A i \in DOMAIN rows : {"season", "prior"} \subseteq DOMAIN rows[i]
    /\ \A i, j \in DOMAIN rows : i < j => rows[i].kickoff <= rows[j].kickoff

Place(places, n) == CHOOSE i \in places : Cardinality({j \in places : j < i}) = n - 1

LEMMA PlacesAscend ==
    ASSUME NEW places, \A i \in places : i \in Int, IsFiniteSet(places)
    PROVE  /\ Cardinality(places) \in Nat
           /\ \A n \in 1 .. Cardinality(places) : Place(places, n) \in places
           /\ \A m, n \in 1 .. Cardinality(places) : m < n => Place(places, m) < Place(places, n)
<1> DEFINE below(i) == {j \in places : j < i}
<1>0. Cardinality(places) \in Nat
  BY FS_CardinalityType
<1>1. PICK R : \A x, y \in places : <<x, y>> \in R <=> x < y
  <2> DEFINE R == {e \in places \X places : e[1] < e[2]}
  <2>1. \A x, y \in places : <<x, y>> \in R <=> x < y
    OBVIOUS
  <2> QED BY <2>1
<1>2. Ordered(places, R)
  BY <1>1 DEF Ordered
<1>3. \A i \in places : PlaceIn(places, R)[i] = Cardinality(below(i))
  <2> SUFFICES ASSUME NEW i \in places PROVE PlaceIn(places, R)[i] = Cardinality(below(i))
    OBVIOUS
  <2>1. {j \in places : <<j, i>> \in R} = below(i)
    BY <1>1
  <2>2. PlaceIn(places, R)[i] = Cardinality({j \in places : <<j, i>> \in R})
    BY DEF PlaceIn
  <2> QED BY <2>1, <2>2
<1> HIDE DEF below
<1>4. ASSUME NEW n \in 1 .. Cardinality(places)
      PROVE  Place(places, n) \in places /\ PlaceIn(places, R)[Place(places, n)] = n - 1
  <2> DEFINE k == n - 1
  <2>1. k \in 0 .. Cardinality(places) - 1
    BY <1>0
  <2> HIDE DEF k
  <2>2. PICK i \in places : PlaceIn(places, R)[i] = k
    BY <1>0, <1>2, <2>1, PlacesTaken
  <2>3. Cardinality(below(i)) = n - 1
    BY <1>3, <2>2 DEF k
  <2>4. Place(places, n) \in places /\ Cardinality(below(Place(places, n))) = n - 1
    BY <2>3 DEF Place, below
  <2> QED BY <1>3, <2>4
<1>5. ASSUME NEW m \in 1 .. Cardinality(places), NEW n \in 1 .. Cardinality(places), m < n
      PROVE  Place(places, m) < Place(places, n)
  <2>1. PlaceIn(places, R)[Place(places, m)] < PlaceIn(places, R)[Place(places, n)]
    BY <1>0, <1>4, <1>5
  <2>2. <<Place(places, m), Place(places, n)>> \in R
    BY <1>2, <1>4, <2>1, PlacesInOrder
  <2> QED BY <1>1, <1>4, <2>2
<1> QED BY <1>0, <1>4, <1>5

(* What is at some places keeps its order.                                 *)
LEMMA PlacesKeep ==
    ASSUME NEW rows, InTime(rows), NEW places \in SUBSET DOMAIN rows
    PROVE  /\ InTime(AtPlaces(rows, places))
           /\ DOMAIN AtPlaces(rows, places) = 1 .. Cardinality(places)
           /\ \A n \in 1 .. Cardinality(places) :
                 /\ Place(places, n) \in places
                 /\ AtPlaces(rows, places)[n] = rows[Place(places, n)]
<1> DEFINE kept == AtPlaces(rows, places)
<1>1. DOMAIN rows = 1 .. Len(rows) /\ Len(rows) \in Nat
  BY DEF InTime
<1>2. IsFiniteSet(places) /\ places \in SUBSET Int
  <2>1. IsFiniteSet(1 .. Len(rows)) /\ places \subseteq 1 .. Len(rows)
    BY <1>1, FS_Interval
  <2> QED BY <1>1, <2>1, FS_Subset
<1>3. /\ Cardinality(places) \in Nat
      /\ \A n \in 1 .. Cardinality(places) : Place(places, n) \in places
      /\ \A m, n \in 1 .. Cardinality(places) : m < n => Place(places, m) < Place(places, n)
  BY <1>2, PlacesAscend
<1>4. kept = [n \in 1 .. Cardinality(places) |-> rows[Place(places, n)]]
  BY DEF AtPlaces, Place
<1> HIDE DEF kept
<1>5. kept \in Seq(ToSet(kept))
  BY <1>3, <1>4 DEF ToSet
<1>6. InTime(kept)
  <2>1. \A n \in DOMAIN kept : kept[n] = rows[Place(places, n)] /\ Place(places, n) \in DOMAIN rows
    BY <1>3, <1>4
  <2>2. \A m, n \in DOMAIN kept : m < n => Place(places, m) < Place(places, n)
    BY <1>3, <1>4
  <2> QED BY <1>5, <2>1, <2>2 DEF InTime
<1> QED BY <1>3, <1>4, <1>6 DEF kept

(* The games a data set is made of have ids, seasons and kickoffs.         *)
ReadInTime(db) ==
    /\ IsFiniteSet(DOMAIN db)
    /\ \A g \in DOMAIN db : g \in Int /\ db[g].kickoff \in Int /\ db[g].season \in Int

RowOf(x, game) ==
    x.kickoff = game.kickoff /\ x.season = game.season /\ {"season", "prior"} \subseteq DOMAIN x

(* A data set has a row of each of its games, in the order of kickoffs.    *)
LEMMA CollectedInTime ==
    ASSUME NEW db, ReadInTime(db), NEW ids, ids \subseteq DOMAIN db,
           NEW row, \A g \in ids : RowOf(row[g], db[g])
    PROVE  /\ InTime(Collect(InOrder(db, ids), row))
           /\ \A x \in ToSet(Collect(InOrder(db, ids), row)) : \E g \in ids : x = row[g]
<1> DEFINE sooner(g) == {h \in ids : Sooner(db, h, g)}
           seq == InOrder(db, ids)
           rows == Collect(seq, row)
<1>0. IsFiniteSet(ids) /\ Cardinality(ids) \in Nat
  BY FS_Subset, FS_CardinalityType DEF ReadInTime
<1>1. PICK R : \A x, y \in ids : <<x, y>> \in R <=> Sooner(db, x, y)
  <2> DEFINE R == {e \in ids \X ids : Sooner(db, e[1], e[2])}
  <2>1. \A x, y \in ids : <<x, y>> \in R <=> Sooner(db, x, y)
    OBVIOUS
  <2> QED BY <2>1
<1>2. Ordered(ids, R)
  <2>1. \A g \in ids : g \in Int /\ db[g].kickoff \in Int
    BY DEF ReadInTime
  <2>2. \A x \in ids : ~Sooner(db, x, x)
    BY <2>1 DEF Sooner
  <2>3. \A x, y, z \in ids : Sooner(db, x, y) /\ Sooner(db, y, z) => Sooner(db, x, z)
    BY <2>1 DEF Sooner
  <2>4. \A x, y \in ids : x # y => Sooner(db, x, y) \/ Sooner(db, y, x)
    BY <2>1 DEF Sooner
  <2> QED BY <1>1, <2>2, <2>3, <2>4 DEF Ordered
<1>3. \A g \in ids : PlaceIn(ids, R)[g] = Cardinality(sooner(g))
  <2> SUFFICES ASSUME NEW g \in ids PROVE PlaceIn(ids, R)[g] = Cardinality(sooner(g))
    OBVIOUS
  <2>1. {h \in ids : <<h, g>> \in R} = sooner(g)
    BY <1>1
  <2>2. PlaceIn(ids, R)[g] = Cardinality({h \in ids : <<h, g>> \in R})
    BY DEF PlaceIn
  <2> QED BY <2>1, <2>2
<1> HIDE DEF sooner
<1>4. seq = [n \in 1 .. Cardinality(ids) |-> CHOOSE g \in ids : Cardinality(sooner(g)) = n - 1]
  BY DEF InOrder, sooner
<1> HIDE DEF seq
<1>5. ASSUME NEW n \in 1 .. Cardinality(ids)
      PROVE  seq[n] \in ids /\ PlaceIn(ids, R)[seq[n]] = n - 1
  <2> DEFINE k == n - 1
  <2>1. k \in 0 .. Cardinality(ids) - 1
    BY <1>0
  <2> HIDE DEF k
  <2>2. PICK g \in ids : PlaceIn(ids, R)[g] = k
    BY <1>0, <1>2, <2>1, PlacesTaken
  <2>3. Cardinality(sooner(g)) = n - 1
    BY <1>3, <2>2 DEF k
  <2>4. seq[n] \in ids /\ Cardinality(sooner(seq[n])) = n - 1
    BY <1>4, <2>3
  <2> QED BY <1>3, <2>4
<1>6. ASSUME NEW m \in 1 .. Cardinality(ids), NEW n \in 1 .. Cardinality(ids), m < n
      PROVE  db[seq[m]].kickoff <= db[seq[n]].kickoff
  <2>1. PlaceIn(ids, R)[seq[m]] < PlaceIn(ids, R)[seq[n]]
    BY <1>0, <1>5, <1>6
  <2>2. <<seq[m], seq[n]>> \in R
    BY <1>0, <1>2, <1>5, <2>1, PlacesInOrder
  <2>3. Sooner(db, seq[m], seq[n])
    BY <1>1, <1>5, <2>2
  <2>4. db[seq[m]].kickoff \in Int /\ db[seq[n]].kickoff \in Int
    BY <1>5 DEF ReadInTime
  <2> QED BY <2>3, <2>4 DEF Sooner
<1>7. rows = [n \in 1 .. Cardinality(ids) |-> row[seq[n]]]
  BY <1>4 DEF Collect
<1> HIDE DEF rows
<1>8. \A n \in 1 .. Cardinality(ids) :
         /\ rows[n].kickoff = db[seq[n]].kickoff /\ rows[n].season = db[seq[n]].season
         /\ {"season", "prior"} \subseteq DOMAIN rows[n]
         /\ rows[n].kickoff \in Int /\ rows[n].season \in Int
  BY <1>5, <1>7 DEF RowOf, ReadInTime
<1>9. rows \in Seq(ToSet(rows)) /\ DOMAIN rows = 1 .. Cardinality(ids)
  BY <1>0, <1>7 DEF ToSet
<1>10. InTime(rows)
  BY <1>6, <1>8, <1>9 DEF InTime
<1>11. \A x \in ToSet(rows) : \E g \in ids : x = row[g]
  BY <1>5, <1>7, <1>9 DEF ToSet
<1> QED BY <1>10, <1>11 DEF rows, seq

(* The rows of both data sets are rows of the games they were read with.   *)
LEMMA DatasetsInTime ==
    ASSUME NEW db, ReadInTime(db), NEW old, NEW st
    PROVE  /\ InTime(MatureDataset(db, old, st)) /\ InTime(EarlyDataset(db, old, st))
           /\ \A x \in ToSet(MatureDataset(db, old, st)) \cup ToSet(EarlyDataset(db, old, st)) :
                 \E g \in DOMAIN db : x.season = db[g].season /\ x.kickoff = db[g].kickoff
<1>1. \A g, values, sources : RowOf(DatasetRow(old, st, db[g], values, sources), db[g])
  BY DEF RowOf, DatasetRow
<1> DEFINE matureRow == [g \in Decided(db) |-> MatureRow(old, st, db[g])]
           early == {g \in Decided(db) : SelectedRoute(old, st, db[g]) = "early"}
           earlyRow == [g \in Decided(db) |-> EarlyRow(old, st, db[g])]
<1>2. /\ \A g \in Decided(db) : RowOf(matureRow[g], db[g])
      /\ \A g \in early : RowOf(earlyRow[g], db[g])
  BY <1>1 DEF MatureRow, EarlyRow
<1>3. Decided(db) \subseteq DOMAIN db /\ early \subseteq DOMAIN db
  BY DEF Decided
<1>4. /\ MatureDataset(db, old, st) = Collect(InOrder(db, Decided(db)), matureRow)
      /\ EarlyDataset(db, old, st) = Collect(InOrder(db, early), earlyRow)
  BY DEF MatureDataset, EarlyDataset
<1> HIDE DEF matureRow, early, earlyRow
<1>5. /\ InTime(MatureDataset(db, old, st))
      /\ \A x \in ToSet(MatureDataset(db, old, st)) : \E g \in Decided(db) : x = matureRow[g]
  BY <1>2, <1>3, <1>4, CollectedInTime
<1>6. /\ InTime(EarlyDataset(db, old, st))
      /\ \A x \in ToSet(EarlyDataset(db, old, st)) : \E g \in early : x = earlyRow[g]
  BY <1>2, <1>3, <1>4, CollectedInTime
<1> QED BY <1>2, <1>3, <1>5, <1>6 DEF RowOf

-----------------------------------------------------------------------------
(* Folds. *)

LEMMA SelectedInTime ==
    ASSUME NEW rows, InTime(rows)
    PROVE  /\ \A history : InTime(Keep(rows, history))
           /\ \A seasons :
                 /\ InTime(OfSeasons(rows, seasons))
                 /\ \A x \in ToSet(OfSeasons(rows, seasons)) :
                       x.season \in seasons /\ x \in ToSet(rows)
           /\ \A history : \A x \in ToSet(Keep(rows, history)) : x \in ToSet(rows)
<1>1. ASSUME NEW history
      PROVE  InTime(Keep(rows, history)) /\ \A x \in ToSet(Keep(rows, history)) : x \in ToSet(rows)
  <2> DEFINE kept == {i \in DOMAIN rows : rows[i].prior[1] >= history /\ rows[i].prior[2] >= history}
  <2>1. kept \in SUBSET DOMAIN rows /\ Keep(rows, history) = AtPlaces(rows, kept)
    BY DEF Keep
  <2> HIDE DEF kept
  <2>2. /\ InTime(AtPlaces(rows, kept))
        /\ DOMAIN AtPlaces(rows, kept) = 1 .. Cardinality(kept)
        /\ \A n \in 1 .. Cardinality(kept) :
              Place(kept, n) \in kept /\ AtPlaces(rows, kept)[n] = rows[Place(kept, n)]
    BY <2>1, PlacesKeep
  <2> QED BY <2>1, <2>2 DEF ToSet
<1>2. ASSUME NEW seasons
      PROVE  /\ InTime(OfSeasons(rows, seasons))
             /\ \A x \in ToSet(OfSeasons(rows, seasons)) :
                   x.season \in seasons /\ x \in ToSet(rows)
  <2> DEFINE kept == {i \in DOMAIN rows : rows[i].season \in seasons}
  <2>1. kept \in SUBSET DOMAIN rows /\ OfSeasons(rows, seasons) = AtPlaces(rows, kept)
    BY DEF OfSeasons
  <2>2. \A i \in kept : rows[i].season \in seasons
    OBVIOUS
  <2> HIDE DEF kept
  <2>3. /\ InTime(AtPlaces(rows, kept))
        /\ DOMAIN AtPlaces(rows, kept) = 1 .. Cardinality(kept)
        /\ \A n \in 1 .. Cardinality(kept) :
              Place(kept, n) \in kept /\ AtPlaces(rows, kept)[n] = rows[Place(kept, n)]
    BY <2>1, PlacesKeep
  <2> QED BY <2>1, <2>2, <2>3 DEF ToSet
<1> QED BY <1>1, <1>2

(* A fold that is sound is trained on games of earlier seasons that began  *)
(* before those it validates: the last of the one before the first of the  *)
(* other.                                                                  *)
Separated(f) ==
    \A t \in ToSet(f.training), v \in ToSet(f.validation) :
        t.season < v.season /\ t.kickoff < v.kickoff

LEMMA SoundFoldsSeparate ==
    ASSUME NEW rows, InTime(rows), NEW first \in Int, NEW last \in Int, NEW score \in Int,
           last < score, FoldIsSound(SeasonFold(rows, first, last, score))
    PROVE  Separated(SeasonFold(rows, first, last, score))
<1> DEFINE training == OfSeasons(rows, first .. last)
           validation == OfSeasons(rows, {score})
<1>0. /\ SeasonFold(rows, first, last, score).training = training
      /\ SeasonFold(rows, first, last, score).validation = validation
  BY DEF SeasonFold
<1>1. /\ InTime(training) /\ InTime(validation)
      /\ \A t \in ToSet(training) : t.season \in first .. last
      /\ \A v \in ToSet(validation) : v.season \in {score}
  BY SelectedInTime
<1>2. /\ training # <<>> /\ validation # <<>>
      /\ training[Len(training)].kickoff < validation[1].kickoff
  BY <1>0 DEF FoldIsSound, Fittable
<1> HIDE DEF training, validation
<1>3. ASSUME NEW t \in ToSet(training), NEW v \in ToSet(validation) PROVE t.season < v.season
  BY <1>1
<1>4. ASSUME NEW t \in ToSet(training), NEW v \in ToSet(validation) PROVE t.kickoff < v.kickoff
  <2>1. /\ Len(training) \in Nat /\ DOMAIN training = 1 .. Len(training)
        /\ Len(validation) \in Nat /\ DOMAIN validation = 1 .. Len(validation)
    BY <1>1 DEF InTime
  <2>2. PICK i \in DOMAIN training : t = training[i]
    BY DEF ToSet
  <2>3. PICK j \in DOMAIN validation : v = validation[j]
    BY DEF ToSet
  <2>4. Len(training) \in DOMAIN training /\ 1 \in DOMAIN validation
    BY <2>1, <2>2, <2>3
  <2>5. i = Len(training) \/ i < Len(training)
    BY <2>1
  <2>6. j = 1 \/ 1 < j
    BY <2>1
  <2>7. t.kickoff <= training[Len(training)].kickoff
    BY <1>1, <2>2, <2>4, <2>5 DEF InTime
  <2>8. validation[1].kickoff <= v.kickoff
    BY <1>1, <2>3, <2>4, <2>6 DEF InTime
  <2>9. /\ t.kickoff \in Int /\ v.kickoff \in Int
        /\ training[Len(training)].kickoff \in Int /\ validation[1].kickoff \in Int
    BY <1>1, <2>2, <2>3, <2>4 DEF InTime
  <2> QED BY <1>2, <2>7, <2>8, <2>9
<1> QED BY <1>0, <1>3, <1>4 DEF Separated

(* The same rows with the other results in one season.                     *)
Otherwise(rows, season) ==
    [i \in DOMAIN rows |->
        IF rows[i].season = season THEN [rows[i] EXCEPT !.won = ~rows[i].won] ELSE rows[i]]

LEMMA OtherwiseSame ==
    ASSUME NEW rows, InTime(rows), NEW season
    PROVE  /\ DOMAIN Otherwise(rows, season) = DOMAIN rows
           /\ \A i \in DOMAIN rows :
                 /\ Otherwise(rows, season)[i].season = rows[i].season
                 /\ Otherwise(rows, season)[i].prior = rows[i].prior
                 /\ rows[i].season # season => Otherwise(rows, season)[i] = rows[i]
<1>1. DOMAIN Otherwise(rows, season) = DOMAIN rows
  BY DEF Otherwise
<1>2. ASSUME NEW i \in DOMAIN rows
      PROVE  /\ Otherwise(rows, season)[i].season = rows[i].season
             /\ Otherwise(rows, season)[i].prior = rows[i].prior
             /\ rows[i].season # season => Otherwise(rows, season)[i] = rows[i]
  <2>1. "season" \in DOMAIN rows[i] /\ "prior" \in DOMAIN rows[i]
    BY DEF InTime
  <2>2. CASE rows[i].season = season
    <3>1. Otherwise(rows, season)[i] = [rows[i] EXCEPT !.won = ~rows[i].won]
      BY <2>2 DEF Otherwise
    <3> QED BY <2>1, <2>2, <3>1
  <2>3. CASE rows[i].season # season
    BY <2>3 DEF Otherwise
  <2> QED BY <2>2, <2>3
<1> QED BY <1>1, <1>2

LEMMA KeepOtherwise ==
    ASSUME NEW rows, InTime(rows), NEW season, NEW history
    PROVE  Keep(Otherwise(rows, season), history) = Otherwise(Keep(rows, history), season)
<1> DEFINE other == Otherwise(rows, season)
           kept == {i \in DOMAIN rows : rows[i].prior[1] >= history /\ rows[i].prior[2] >= history}
<1>1. kept \in SUBSET DOMAIN rows /\ Keep(rows, history) = AtPlaces(rows, kept)
  BY DEF Keep
<1>2. {i \in DOMAIN other : other[i].prior[1] >= history /\ other[i].prior[2] >= history} = kept
  BY OtherwiseSame
<1>3. Keep(other, history) = AtPlaces(other, kept)
  BY <1>2 DEF Keep
<1> HIDE DEF other, kept
<1>4. /\ DOMAIN AtPlaces(rows, kept) = 1 .. Cardinality(kept)
      /\ \A n \in 1 .. Cardinality(kept) :
            Place(kept, n) \in kept /\ AtPlaces(rows, kept)[n] = rows[Place(kept, n)]
  BY <1>1, PlacesKeep
<1>5. AtPlaces(other, kept) = [n \in 1 .. Cardinality(kept) |-> other[Place(kept, n)]]
  BY DEF AtPlaces, Place
<1>6. \A i \in kept : other[i] = IF rows[i].season = season
                                 THEN [rows[i] EXCEPT !.won = ~rows[i].won] ELSE rows[i]
  BY <1>1 DEF other, Otherwise
<1>7. \A n \in 1 .. Cardinality(kept) :
         Otherwise(AtPlaces(rows, kept), season)[n] = other[Place(kept, n)]
  BY <1>4, <1>6 DEF Otherwise
<1>8. Otherwise(AtPlaces(rows, kept), season)
        = [n \in 1 .. Cardinality(kept) |-> Otherwise(AtPlaces(rows, kept), season)[n]]
  BY <1>4 DEF Otherwise
<1> QED BY <1>1, <1>3, <1>5, <1>7, <1>8 DEF other

LEMMA SeasonsOtherwise ==
    ASSUME NEW rows, InTime(rows), NEW season, NEW seasons, season \notin seasons
    PROVE  OfSeasons(Otherwise(rows, season), seasons) = OfSeasons(rows, seasons)
<1> DEFINE other == Otherwise(rows, season)
           kept == {i \in DOMAIN rows : rows[i].season \in seasons}
<1>1. {i \in DOMAIN other : other[i].season \in seasons} = kept
  BY OtherwiseSame
<1>2. /\ OfSeasons(rows, seasons) = AtPlaces(rows, kept)
      /\ OfSeasons(other, seasons) = AtPlaces(other, kept)
  BY <1>1 DEF OfSeasons
<1>3. \A i \in kept : other[i] = rows[i]
  BY OtherwiseSame
<1>4. kept \in SUBSET DOMAIN rows
  OBVIOUS
<1> HIDE DEF other, kept
<1>5. /\ AtPlaces(rows, kept) = [n \in 1 .. Cardinality(kept) |-> rows[Place(kept, n)]]
      /\ AtPlaces(other, kept) = [n \in 1 .. Cardinality(kept) |-> other[Place(kept, n)]]
  BY DEF AtPlaces, Place
<1>6. \A n \in 1 .. Cardinality(kept) : Place(kept, n) \in kept
  BY <1>4, PlacesKeep
<1> QED BY <1>2, <1>3, <1>5, <1>6 DEF other

(* The folds a policy is chosen on end before the confirmation season.     *)
Confirmation == DevelopmentFolds[Len(DevelopmentFolds)][2]

LEMMA FoldSeasons ==
    /\ DevelopmentFolds \in Seq(Int \X Int) /\ EarlyFolds \in Seq(Int \X Int)
    /\ Len(DevelopmentFolds) \in Nat \ {0} /\ Confirmation \in Int
    /\ \A k \in 1 .. Len(DevelopmentFolds) :
          /\ DevelopmentFolds[k][1] \in Int /\ DevelopmentFolds[k][2] \in Int
          /\ DevelopmentFolds[k][1] < DevelopmentFolds[k][2]
    /\ \A k \in 1 .. SelectionFolds : DevelopmentFolds[k][2] < Confirmation
    /\ \A k \in DOMAIN EarlyFolds :
          /\ EarlyFolds[k][1] \in Int /\ EarlyFolds[k][2] \in Int
          /\ EarlyFolds[k][1] < EarlyFolds[k][2]
<1>1. /\ DevelopmentFolds \in Seq(Int \X Int) /\ EarlyFolds \in Seq(Int \X Int)
      /\ DevelopmentFolds # <<>>
  BY DatasetAssumption DEF Expanding
<1>2. /\ Len(DevelopmentFolds) \in Nat \ {0}
      /\ DOMAIN DevelopmentFolds = 1 .. Len(DevelopmentFolds)
      /\ \A k \in DOMAIN DevelopmentFolds : DevelopmentFolds[k] \in Int \X Int
      /\ \A k \in DOMAIN EarlyFolds : EarlyFolds[k] \in Int \X Int
  BY <1>1
<1>3. /\ \A k \in DOMAIN DevelopmentFolds : DevelopmentFolds[k][1] < DevelopmentFolds[k][2]
      /\ \A k \in DOMAIN EarlyFolds : EarlyFolds[k][1] < EarlyFolds[k][2]
      /\ \A j, k \in DOMAIN DevelopmentFolds :
            j < k => DevelopmentFolds[j][2] < DevelopmentFolds[k][2]
  BY DatasetAssumption DEF Expanding
<1>4. \A k \in 1 .. SelectionFolds : DevelopmentFolds[k][2] < Confirmation
  <2>1. \A k \in 1 .. SelectionFolds :
           k \in DOMAIN DevelopmentFolds /\ Len(DevelopmentFolds) \in DOMAIN DevelopmentFolds
           /\ k < Len(DevelopmentFolds)
    BY <1>2 DEF SelectionFolds
  <2> QED BY <1>3, <2>1 DEF Confirmation
<1>5. Confirmation \in Int
  <2>1. Len(DevelopmentFolds) \in DOMAIN DevelopmentFolds
    BY <1>2
  <2> QED BY <1>2, <2>1 DEF Confirmation
<1>6. /\ \A k \in DOMAIN DevelopmentFolds :
            DevelopmentFolds[k][1] \in Int /\ DevelopmentFolds[k][2] \in Int
      /\ \A k \in DOMAIN EarlyFolds : EarlyFolds[k][1] \in Int /\ EarlyFolds[k][2] \in Int
  BY <1>2
<1> QED BY <1>1, <1>2, <1>3, <1>4, <1>5, <1>6

(* Other results of the confirmation season leave what is tried the same.  *)
LEMMA TriedBlind ==
    ASSUME NEW rows, InTime(rows)
    PROVE  Tried(Otherwise(rows, Confirmation)) = Tried(rows)
<1> DEFINE other == Otherwise(rows, Confirmation)
<1>1. ASSUME NEW history, NEW k \in 1 .. SelectionFolds
      PROVE  SeasonFold(Keep(other, history), DevelopmentFrom, DevelopmentFolds[k][1],
                        DevelopmentFolds[k][2])
               = SeasonFold(Keep(rows, history), DevelopmentFrom, DevelopmentFolds[k][1],
                            DevelopmentFolds[k][2])
  <2> DEFINE seasons == DevelopmentFrom .. DevelopmentFolds[k][1]
             next == {DevelopmentFolds[k][2]}
             kept == Keep(rows, history)
  <2>1. Confirmation \notin seasons /\ Confirmation \notin next
    <3>1. k \in 1 .. Len(DevelopmentFolds)
      BY FoldSeasons DEF SelectionFolds
    <3>2. /\ DevelopmentFolds[k][1] \in Int /\ DevelopmentFolds[k][2] \in Int
          /\ DevelopmentFolds[k][1] < DevelopmentFolds[k][2]
          /\ DevelopmentFolds[k][2] < Confirmation /\ Confirmation \in Int
      BY <3>1, FoldSeasons
    <3>3. DevelopmentFrom \in Int
      BY DatasetAssumption
    <3> QED BY <3>2, <3>3
  <2>2. InTime(kept) /\ Keep(other, history) = Otherwise(kept, Confirmation)
    BY SelectedInTime, KeepOtherwise
  <2> HIDE DEF seasons, next, kept, other
  <2>3. /\ OfSeasons(Otherwise(kept, Confirmation), seasons) = OfSeasons(kept, seasons)
        /\ OfSeasons(Otherwise(kept, Confirmation), next) = OfSeasons(kept, next)
    BY <2>1, <2>2, SeasonsOtherwise
  <2> QED BY <2>2, <2>3 DEF SeasonFold, seasons, next, kept
<1>2. \A history : PolicyFolds(other, history, SelectionFolds) = PolicyFolds(rows, history, SelectionFolds)
  <2> HIDE DEF other
  <2> QED BY <1>1 DEF PolicyFolds
<1> QED BY <1>2 DEF Tried

-----------------------------------------------------------------------------
(* What is read. *)

(* The database holds finitely many games, each under its integer id.      *)
GamesCounted ==
    /\ IsFiniteSet(DOMAIN games) /\ \A g \in DOMAIN games : g \in Int
    /\ \A i \in Importers : IsFiniteSet(plan[i].rows)

LEMMA IdsFinite == ASSUME NEW rows, IsFiniteSet(rows) PROVE IsFiniteSet({r.ext : r \in rows})
<1> DEFINE ids == {r.ext : r \in rows}
           id == [r \in rows |-> r.ext]
<1>1. id \in [rows -> ids] /\ \A g \in ids : \E r \in rows : id[r] = g
  OBVIOUS
<1> HIDE DEF id, ids
<1>2. id \in Surjection(rows, ids)
  BY <1>1 DEF Surjection
<1>3. IsFiniteSet(ids)
  BY <1>2, FS_Surjection
<1> QED BY <1>3 DEF ids

LEMMA StoredCounted ==
    ASSUME NEW season
    PROVE  /\ IsFiniteSet(DOMAIN StoredSince(season))
           /\ \A g \in DOMAIN StoredSince(season) :
                 g \in Int /\ StoredSince(season)[g] \in FileRows
<1> DEFINE rows == {r \in Stored : r.season >= season}
<1>1. IsFiniteSet(rows)
  BY GamesAssumption, FS_Subset
<1>2. StoredSince(season) = [g \in {r.ext : r \in rows} |-> CHOOSE r \in Stored : r.ext = g]
  BY DEF StoredSince
<1>3. \A r \in rows : r \in Stored /\ r.ext \in Int
  BY GamesAssumption
<1> HIDE DEF rows
<1>4. IsFiniteSet({r.ext : r \in rows})
  BY <1>1, IdsFinite
<1> QED BY <1>2, <1>3, <1>4 DEF FileRows

LEMMA CountedInit == ASSUME NEW season, GamesInit(season) PROVE GamesCounted
<1>1. \A i \in Importers : plan[i].rows = {}
  BY DEF GamesInit, NoPlan
<1> QED BY <1>1, StoredCounted, FS_EmptySet DEF GamesInit, GamesCounted

LEMMA ImportKeepsCounted ==
    ASSUME GamesInv, GamesCounted, NEW i \in Importers, ImportStep(i)
    PROVE  GamesCounted'
<1>0. plan \in [Importers -> [rows : SUBSET FileRows, stats : SUBSET UNION Statistics]]
  BY DEF GamesInv
<1>1. CASE PlanFuture(i)
  <2>1. PICK edition \in Published :
           \/ plan' = [plan EXCEPT ![i].rows = FutureWrites(games, FutureRows(edition))]
           \/ plan' = plan
    BY <1>1 DEF PlanFuture
  <2>2. IsFiniteSet(edition)
    BY GamesAssumption DEF Published
  <2>3. FutureWrites(games, FutureRows(edition)) \subseteq edition
    BY DEF FutureWrites, FutureRows
  <2>4. IsFiniteSet(FutureWrites(games, FutureRows(edition)))
    BY <2>2, <2>3, FS_Subset
  <2>5. \A j \in Importers : plan'[j].rows = plan[j].rows
                             \/ plan'[j].rows = FutureWrites(games, FutureRows(edition))
    BY <1>0, <2>1
  <2> QED BY <1>1, <2>4, <2>5 DEF PlanFuture, GamesCounted
<1>2. CASE PlanBackfill(i)
  <2>1. PICK edition \in Published, st \in Statistics :
           \/ plan' = [plan EXCEPT ![i] = [rows |-> edition, stats |-> st]]
           \/ plan' = plan
    BY <1>2 DEF PlanBackfill
  <2>2. IsFiniteSet(edition)
    BY GamesAssumption DEF Published
  <2>3. \A j \in Importers : plan'[j].rows = plan[j].rows \/ plan'[j].rows = edition
    BY <1>0, <2>1
  <2> QED BY <1>2, <2>2, <2>3 DEF PlanBackfill, GamesCounted
<1>3. CASE WriteGames(i)
  <2> DEFINE rows == plan[i].rows
  <2>1. DOMAIN games' = DOMAIN games \cup {r.ext : r \in rows} /\ plan' = plan
    BY <1>3 DEF WriteGames, Upsert
  <2>2. IsFiniteSet(rows) /\ rows \subseteq FileRows
    BY <1>0 DEF GamesCounted
  <2>3. \A r \in rows : r.ext \in Int
    BY <2>2, GamesAssumption DEF FileRows
  <2> HIDE DEF rows
  <2>4. IsFiniteSet({r.ext : r \in rows})
    BY <2>2, IdsFinite
  <2>5. IsFiniteSet(DOMAIN games')
    BY <2>1, <2>4, FS_Union DEF GamesCounted
  <2> QED BY <2>1, <2>3, <2>5 DEF GamesCounted
<1>4. CASE \/ StartGames(i) \/ StartStatistics(i) \/ WriteStatistics(i)
           \/ IngestionFails(i) \/ Audit(i)
  BY <1>4 DEF StartGames, StartStatistics, WriteStatistics, IngestionFails, Audit, GamesCounted
<1> QED BY <1>1, <1>2, <1>3, <1>4 DEF ImportStep

LEMMA NextKeepsCounted ==
    ASSUME GamesInv, GamesCounted, [Next]_seasonVars PROVE GamesCounted'
<1>1. CASE \E i \in Importers \cap crew.who : Import(i)
  BY <1>1, ImportKeepsCounted DEF Import
<1>2. CASE UNCHANGED importVars
  BY <1>2 DEF importVars, GamesCounted
<1> QED BY <1>1, <1>2 DEF Next, Predict, Capture, Price, Research, Tick, seasonVars

(* The games of some seasons, as a statement reads them.                   *)
LEMMA SeasonsRead ==
    ASSUME NEW db, IsFiniteSet(DOMAIN db), \A g \in DOMAIN db : g \in Int /\ db[g] \in FileRows,
           NEW seasons
    PROVE  /\ ReadInTime(GamesOfSeasons(db, seasons))
           /\ \A g \in DOMAIN GamesOfSeasons(db, seasons) :
                 /\ g \in DOMAIN db /\ GamesOfSeasons(db, seasons)[g] = db[g]
                 /\ db[g].season \in seasons
<1> DEFINE ids == {g \in DOMAIN db : db[g].season \in seasons}
           read == GamesOfSeasons(db, seasons)
<1>1. read = [g \in ids |-> db[g]]
  BY DEF GamesOfSeasons
<1>2. \A g \in ids : g \in DOMAIN db /\ db[g].season \in seasons
  OBVIOUS
<1>3. IsFiniteSet(ids)
  BY FS_Subset
<1> HIDE DEF ids, read
<1>4. \A g \in DOMAIN db : db[g].kickoff \in Int /\ db[g].season \in Int
  BY GamesAssumption DEF FileRows
<1> QED BY <1>1, <1>2, <1>3, <1>4 DEF ReadInTime, read

-----------------------------------------------------------------------------
(* The reports of the development evaluations. *)

ResearchShaped ==
    /\ DOMAIN researching = Researchers /\ DOMAIN held = Researchers /\ DOMAIN reports = Researchers
    /\ \A r \in Researchers :
          {"view", "rows", "bundle", "written"} \subseteq DOMAIN held[r] /\ held[r].written \in Nat

(* What a researcher holds between two statements and before its fit.      *)
HeldInTime ==
    \A r \in Researchers :
        /\ researching[r] = "history" => ReadInTime(held[r].view)
        /\ researching[r] = "loaded" => InTime(held[r].rows)

Reported(r) ==
    /\ \A e \in reports[r].folds : Separated(e.fold)
    /\ ResearchOf[r] = "develop" =>
          /\ InTime(reports[r].rows)
          /\ reports[r].selected = Select(Tried(reports[r].rows))
          /\ \A e \in reports[r].folds :
                e.number = Len(DevelopmentFolds) => e.history = reports[r].selected

ReportInv ==
    /\ ResearchShaped /\ HeldInTime
    /\ \A r \in Researchers : reports[r] = NoReport \/ Reported(r)

LEMMA ReportInitInv == ResearchInit => ReportInv
  BY DEF ResearchInit, ReportInv, ResearchShaped, HeldInTime, Nothing

(* A report is of sound folds, and the selected policy alone of all.       *)
LEMMA DevelopReports ==
    ASSUME ReportInv, NEW r \in Researchers, Develop(r), reports' # reports
    PROVE  Reported(r)' /\ \A s \in Researchers \ {r} : reports'[s] = reports[s]
<1> DEFINE rows == held[r].rows
           chosen == Select(Tried(rows))
           folds == SelectionResults(rows) \cup FoldsOf(rows, chosen, AllFolds)
<1>1. /\ MayDevelop(rows)
      /\ reports' = [reports EXCEPT ![r] = [selected |-> chosen, rows |-> rows, folds |-> folds]]
  BY DEF Develop
<1>2. /\ reports'[r].selected = chosen /\ reports'[r].rows = rows /\ reports'[r].folds = folds
      /\ \A s \in Researchers \ {r} : reports'[s] = reports[s]
  BY <1>1 DEF ReportInv, ResearchShaped
<1>3. InTime(rows)
  BY DEF Develop, ReportInv, HeldInTime
<1>4. \A e \in folds : FoldIsSound(e.fold)
  BY <1>1 DEF MayDevelop
<1> HIDE DEF rows, chosen
<1>5. ASSUME NEW history, NEW n \in 1 .. Len(DevelopmentFolds), NEW e \in FoldsOf(rows, history, n),
             FoldIsSound(e.fold)
      PROVE  Separated(e.fold) /\ e.history = history /\ e.number \in 1 .. n
  <2>1. PICK k \in 1 .. n :
           e = [history |-> history, fold |-> PolicyFolds(rows, history, n)[k], number |-> k]
    BY DEF FoldsOf
  <2>2. e.fold = SeasonFold(Keep(rows, history), DevelopmentFrom, DevelopmentFolds[k][1],
                            DevelopmentFolds[k][2])
    BY <2>1 DEF PolicyFolds
  <2>3. k \in 1 .. Len(DevelopmentFolds)
    BY FoldSeasons
  <2>4. InTime(Keep(rows, history))
    BY <1>3, SelectedInTime
  <2>5. /\ DevelopmentFolds[k][1] \in Int /\ DevelopmentFolds[k][2] \in Int
        /\ DevelopmentFolds[k][1] < DevelopmentFolds[k][2] /\ DevelopmentFrom \in Int
    BY <2>3, FoldSeasons, DatasetAssumption
  <2>6. Separated(e.fold)
    BY <1>5, <2>2, <2>4, <2>5, SoundFoldsSeparate
  <2> QED BY <2>1, <2>6
<1>6. AllFolds \in 1 .. Len(DevelopmentFolds) /\ AllFolds = Len(DevelopmentFolds)
  BY FoldSeasons DEF AllFolds
<1>7. ASSUME NEW e \in folds
      PROVE  Separated(e.fold) /\ (e.number = Len(DevelopmentFolds) => e.history = chosen)
  <2>1. CASE e \in SelectionResults(rows)
    <3>1. PICK history : e \in FoldsOf(rows, history, SelectionFolds)
      BY <2>1 DEF SelectionResults
    <3>2. SelectionFolds \in 1 .. Len(DevelopmentFolds)
      <4>1. \E k : k \in 1 .. SelectionFolds
        BY <3>1 DEF FoldsOf
      <4> QED BY <4>1, FoldSeasons DEF SelectionFolds
    <3>3. Separated(e.fold) /\ e.number \in 1 .. SelectionFolds
      BY <1>4, <1>5, <3>1, <3>2
    <3> QED BY <3>3, FoldSeasons DEF SelectionFolds
  <2>2. CASE e \in FoldsOf(rows, chosen, AllFolds)
    BY <1>4, <1>5, <1>6, <2>2
  <2> QED BY <2>1, <2>2
<1> HIDE DEF folds
<1>8. Reported(r)'
  BY <1>2, <1>3, <1>7 DEF Reported, chosen
<1> QED BY <1>2, <1>8

LEMMA EarlyReports ==
    ASSUME ReportInv, NEW r \in Researchers, EvaluateEarly(r), reports' # reports
    PROVE  Reported(r)' /\ \A s \in Researchers \ {r} : reports'[s] = reports[s]
<1> DEFINE rows == held[r].rows
           folds == EarlyResults(rows)
<1>1. /\ \A e \in folds : FoldIsSound(e.fold)
      /\ reports' = [reports EXCEPT ![r] = [selected |-> 0, rows |-> rows, folds |-> folds]]
  BY DEF EvaluateEarly
<1>2. reports'[r].folds = folds /\ \A s \in Researchers \ {r} : reports'[s] = reports[s]
  BY <1>1 DEF ReportInv, ResearchShaped
<1>3. InTime(rows) /\ ResearchOf[r] = "early"
  BY DEF EvaluateEarly, ReportInv, HeldInTime
<1> HIDE DEF rows
<1>4. ASSUME NEW e \in folds PROVE Separated(e.fold)
  <2>1. PICK k \in DOMAIN EarlyFolds :
           e.fold = SeasonFold(rows, EarlyFrom, EarlyFolds[k][1], EarlyFolds[k][2])
    BY DEF EarlyResults
  <2>2. /\ EarlyFolds[k][1] \in Int /\ EarlyFolds[k][2] \in Int
        /\ EarlyFolds[k][1] < EarlyFolds[k][2] /\ EarlyFrom \in Int
    BY FoldSeasons, DatasetAssumption
  <2>3. FoldIsSound(e.fold)
    BY <1>1
  <2> QED BY <1>3, <2>1, <2>2, <2>3, SoundFoldsSeparate
<1> HIDE DEF folds
<1> QED BY <1>2, <1>3, <1>4 DEF Reported

(* A step is of one researcher.                                            *)
LEMMA ResearcherAlone ==
    ASSUME ResearchShaped, NEW r \in Researchers, ResearcherStep(r)
    PROVE  /\ \A s \in Researchers \ {r} :
                 researching'[s] = researching[s] /\ held'[s] = held[s]
           /\ ResearchShaped'
<1> USE DEF ResearchShaped, ResearchGoto, Refuse, Finish, Nothing
<1>1. CASE ReadGames(r) \/ ReadHistory(r) \/ Develop(r) \/ EvaluateEarly(r)
  BY <1>1 DEF ReadGames, ReadHistory, Develop, EvaluateEarly
<1>2. CASE FreezeEarly(r) \/ ReadHoldoutGames(r) \/ EvaluateHoldout(r) \/ RebuildArtifact(r)
  BY <1>2 DEF FreezeEarly, ReadHoldoutGames, EvaluateHoldout, RebuildArtifact
<1>3. CASE Preflight(r) \/ LoadEvidence(r) \/ BuildEvidence(r) \/ OpenFolder(r)
  BY <1>3 DEF Preflight, LoadEvidence, BuildEvidence, OpenFolder
<1>4. CASE WriteDocument(r) \/ WriteManifest(r) \/ ValidateEvidence(r) \/ ResearcherCrash(r)
  BY <1>4 DEF WriteDocument, WriteManifest, ValidateEvidence, ResearcherCrash
<1> QED BY <1>1, <1>2, <1>3, <1>4 DEF ResearcherStep

LEMMA ResearcherHolds ==
    ASSUME GamesInv, GamesCounted, ReportInv, NEW r \in Researchers, ResearcherStep(r)
    PROVE  HeldInTime'
<1>0. /\ ResearchShaped
      /\ \A s \in Researchers \ {r} : researching'[s] = researching[s] /\ held'[s] = held[s]
  BY ResearcherAlone DEF ReportInv
<1> SUFFICES /\ researching'[r] = "history" => ReadInTime(held'[r].view)
             /\ researching'[r] = "loaded" => InTime(held'[r].rows)
  BY <1>0 DEF ReportInv, HeldInTime
<1>1. CASE ReadGames(r)
  <2>1. PICK seasons : held'[r].view = GamesOfSeasons(games, seasons)
    BY <1>0, <1>1 DEF ReadGames, ResearchShaped
  <2>2. researching'[r] = "history"
    BY <1>0, <1>1 DEF ReadGames, ResearchGoto, ResearchShaped
  <2>3. \A g \in DOMAIN games : g \in Int /\ games[g] \in FileRows
    BY DEF GamesInv, GamesCounted
  <2>4. ReadInTime(GamesOfSeasons(games, seasons))
    BY <2>3, SeasonsRead DEF GamesCounted
  <2> QED BY <2>1, <2>2, <2>4
<1>2. CASE ReadHistory(r)
  <2> DEFINE read == held[r].view
             rows == IF IsEarly(r) THEN EarlyDataset(read, games, stats)
                     ELSE MatureDataset(read, games, stats)
  <2>1. ReadInTime(read)
    BY <1>2 DEF ReadHistory, ReportInv, HeldInTime
  <2>2. InTime(rows)
    BY <2>1, DatasetsInTime
  <2>3. \/ researching'[r] = "refused"
        \/ researching'[r] = "loaded" /\ held'[r].rows = rows
    BY <1>0, <1>2 DEF ReadHistory, Refuse, ResearchGoto, ResearchShaped
  <2> HIDE DEF rows
  <2> QED BY <2>2, <2>3
<1>3. CASE ~ReadGames(r) /\ ~ReadHistory(r)
  <2>1. researching'[r] \notin {"history", "loaded"}
    <3> USE <1>0 DEF ResearchShaped, ResearchGoto, Refuse, Finish
    <3>1. CASE Develop(r) \/ EvaluateEarly(r) \/ FreezeEarly(r) \/ ReadHoldoutGames(r)
      BY <3>1 DEF Develop, EvaluateEarly, FreezeEarly, ReadHoldoutGames
    <3>2. CASE EvaluateHoldout(r) \/ RebuildArtifact(r) \/ Preflight(r) \/ LoadEvidence(r)
      BY <3>2 DEF EvaluateHoldout, RebuildArtifact, Preflight, LoadEvidence
    <3>3. CASE BuildEvidence(r) \/ OpenFolder(r) \/ WriteDocument(r) \/ WriteManifest(r)
      BY <3>3 DEF BuildEvidence, OpenFolder, WriteDocument, WriteManifest
    <3>4. CASE ValidateEvidence(r) \/ ResearcherCrash(r)
      BY <3>4 DEF ValidateEvidence, ResearcherCrash
    <3> QED BY <1>3, <3>1, <3>2, <3>3, <3>4 DEF ResearcherStep
  <2> QED BY <2>1
<1> QED BY <1>1, <1>2, <1>3

LEMMA ResearcherReports ==
    ASSUME ReportInv, NEW r \in Researchers, ResearcherStep(r)
    PROVE  \A s \in Researchers : (reports[s] = NoReport \/ Reported(s))'
<1>1. \A s \in Researchers : reports'[s] = reports[s] =>
         (reports[s] = NoReport \/ Reported(s))'
  BY DEF ReportInv, Reported
<1>2. CASE Develop(r) /\ reports' # reports
  BY <1>1, <1>2, DevelopReports
<1>3. CASE EvaluateEarly(r) /\ reports' # reports
  BY <1>1, <1>3, EarlyReports
<1>4. CASE reports' = reports
  BY <1>1, <1>4
<1> QED BY <1>2, <1>3, <1>4 DEF ResearcherStep, ReadGames, ReadHistory, FreezeEarly,
        ReadHoldoutGames, EvaluateHoldout, RebuildArtifact, Preflight, LoadEvidence,
        BuildEvidence, OpenFolder, WriteDocument, WriteManifest, ValidateEvidence, ResearcherCrash

LEMMA NextKeepsReports ==
    GamesInv /\ GamesCounted /\ ReportInv /\ [Next]_seasonVars => ReportInv'
<1> SUFFICES ASSUME GamesInv, GamesCounted, ReportInv, [Next]_seasonVars PROVE ReportInv'
  OBVIOUS
<1>1. CASE \E r \in Researchers \cap crew.who : Research(r)
  <2>1. PICK r \in Researchers : ResearcherStep(r)
    BY <1>1 DEF Research
  <2> QED BY <2>1, ResearcherAlone, ResearcherHolds, ResearcherReports DEF ReportInv
<1>2. CASE UNCHANGED researchVars
  BY <1>2 DEF researchVars, ReportInv, ResearchShaped, HeldInTime, Reported
<1> QED BY <1>1, <1>2 DEF Next, Import, Predict, Capture, Price, Tick, seasonVars

(* The mature model's policy is chosen blind (nfl/moneyline_baseline.py):  *)
(* whatever the database held and whichever backfill committed between the *)
(* two reads, the report of a development evaluation would name the same   *)
(* policy had the confirmation season gone otherwise, evaluates no other   *)
(* on it, and trains no fold on a game of the season it validates or of a  *)
(* later one.                                                              *)
THEOREM PoliciesAreChosenBlind == Spec => []ConfirmationIsBlind
<1>1. ReportInv => ConfirmationIsBlind
  <2> SUFFICES ASSUME ReportInv, NEW r \in Researchers, reports[r] # NoReport
               PROVE  /\ \A e \in reports[r].folds : Separated(e.fold)
                      /\ ResearchOf[r] = "develop" =>
                            /\ reports[r].selected
                                 = Select(Tried(Otherwise(reports[r].rows, Confirmation)))
                            /\ \A e \in reports[r].folds :
                                  e.number = Len(DevelopmentFolds) => e.history = reports[r].selected
    BY DEF ConfirmationIsBlind, Separated, Otherwise, Confirmation
  <2>1. Reported(r)
    BY DEF ReportInv
  <2> QED BY <2>1, TriedBlind DEF Reported
<1>2. Init => ReportInv /\ GamesCounted
  BY ReportInitInv, CountedInit DEF Init
<1>3. SeasonInv /\ GamesCounted /\ [Next]_seasonVars => GamesCounted'
  BY NextKeepsCounted DEF SeasonInv
<1>4. SeasonInv /\ GamesCounted /\ ReportInv /\ [Next]_seasonVars => ReportInv'
  BY NextKeepsReports DEF SeasonInv
<1> QED BY <1>1, <1>2, <1>3, <1>4, SeasonInvariant, PTL DEF Spec

-----------------------------------------------------------------------------
(* Historical evidence. *)

(* A season is over when the next begins.  Nothing in the code compares    *)
(* the kickoffs of two seasons.                                            *)
SeasonsFollow == \A r, s \in FileRows : r.season < s.season => r.kickoff < s.kickoff

Routes == {"mature", "early"}

(* The committed data sets are of games that may be learned from.          *)
LEMMA FrozenRows ==
    ASSUME NEW route \in Routes
    PROVE  /\ InTime(Frozen(route))
           /\ \A x \in ToSet(Frozen(route)) :
                 /\ x.season \in Int /\ x.season < HoldoutSeason
                 /\ \E row \in FileRows : x.season = row.season /\ x.kickoff = row.kickoff
<1> DEFINE mature == GamesOfSeasons(StoredGames, Development)
           early == GamesOfSeasons(StoredGames, EarlyDevelopment)
           matureRows == MatureDataset(mature, StoredGames, StoredStats)
           earlyRows == EarlyDataset(early, StoredGames, StoredStats)
<1>0. DevelopmentFrom \in Int /\ EarlyFrom \in Int /\ DevelopmentTo \in Int
  BY DatasetAssumption
<1>1. IsFiniteSet(DOMAIN StoredGames)
      /\ \A g \in DOMAIN StoredGames : g \in Int /\ StoredGames[g] \in FileRows
  BY StoredCounted DEF StoredGames
<1>2. /\ ReadInTime(mature) /\ ReadInTime(early)
      /\ \A g \in DOMAIN mature : mature[g] \in FileRows /\ mature[g].season \in Development
      /\ \A g \in DOMAIN early : early[g] \in FileRows /\ early[g].season \in EarlyDevelopment
  BY <1>1, SeasonsRead
<1> HIDE DEF mature, early
<1>3. /\ InTime(matureRows)
      /\ \A x \in ToSet(matureRows) :
            \E g \in DOMAIN mature : x.season = mature[g].season /\ x.kickoff = mature[g].kickoff
  BY <1>2, DatasetsInTime
<1>4. /\ InTime(earlyRows)
      /\ \A x \in ToSet(earlyRows) :
            \E g \in DOMAIN early : x.season = early[g].season /\ x.kickoff = early[g].kickoff
  BY <1>2, DatasetsInTime
<1>5. /\ \A season \in Development : season \in Int /\ season < HoldoutSeason
      /\ \A season \in EarlyDevelopment : season \in Int /\ season < HoldoutSeason
  BY <1>0 DEF Development, EarlyDevelopment, HoldoutSeason
<1> HIDE DEF matureRows, earlyRows
<1>6. InTime(Keep(matureRows, MatureGames))
      /\ \A x \in ToSet(Keep(matureRows, MatureGames)) : x \in ToSet(matureRows)
  BY <1>3, SelectedInTime
<1>7. FrozenMature = Keep(matureRows, MatureGames) /\ FrozenEarly = earlyRows
  BY DEF FrozenMature, FrozenEarly, MatureRows, matureRows, earlyRows, mature, early
<1>8. CASE route = "mature"
  <2>1. Frozen(route) = Keep(matureRows, MatureGames)
    BY <1>7, <1>8 DEF Frozen
  <2> QED BY <2>1, <1>2, <1>3, <1>5, <1>6
<1>9. CASE route = "early"
  <2>1. Frozen(route) = earlyRows
    BY <1>7, <1>9 DEF Frozen
  <2> QED BY <2>1, <1>2, <1>4, <1>5
<1> QED BY <1>8, <1>9 DEF Routes

(* The scored seasons have a first.                                        *)
LEMMA FirstScored == Min({f.score : f \in EvidenceFolds}) \in Int
<1> DEFINE scores == {f.score : f \in EvidenceFolds}
           score == [f \in EvidenceFolds |-> f.score]
<1>1. \A n \in scores : n \in Int
  BY DatasetAssumption
<1>2. scores # {}
  BY DatasetAssumption
<1>3. score \in [EvidenceFolds -> scores] /\ \A n \in scores : \E f \in EvidenceFolds : score[f] = n
  OBVIOUS
<1> HIDE DEF scores, score
<1>4. score \in Surjection(EvidenceFolds, scores)
  BY <1>3 DEF Surjection
<1>5. IsFiniteSet(scores)
  BY <1>4, FS_Surjection, DatasetAssumption
<1>6. PICK R : \A m, n \in scores : <<m, n>> \in R <=> m < n
  <2> DEFINE R == {e \in scores \X scores : e[1] < e[2]}
  <2>1. \A m, n \in scores : <<m, n>> \in R <=> m < n
    OBVIOUS
  <2> QED BY <2>1
<1>7. Ordered(scores, R)
  BY <1>1, <1>6 DEF Ordered
<1>8. PICK m \in scores : \A n \in scores \ {m} : <<m, n>> \in R
  BY <1>2, <1>5, <1>7, FirstMember
<1>9. ASSUME NEW n \in scores PROVE m <= n
  <2>1. n = m \/ m < n
    BY <1>6, <1>8
  <2> QED BY <1>1, <2>1
<1>10. Min(scores) \in scores
  BY <1>9 DEF Min
<1> QED BY <1>1, <1>10 DEF scores

(* What is read for a package: the rows the frozen models were fitted on,  *)
(* and one target of each scored game, before the season to come.          *)
TargetRead(t, exposed) ==
    /\ t.route \in Routes /\ t.season \in Int /\ t.season <= HoldoutSeason
    /\ \E row \in FileRows : t.season = row.season /\ t.kickoff = row.kickoff
    /\ t.game \notin exposed
    /\ \A s \in t.trace : s.game # t.game /\ s.kickoff < t.kickoff

InputRead(input) ==
    /\ \A route \in Routes : input.training[route] = Frozen(route)
    /\ \A t \in input.targets : TargetRead(t, input.exposed)
    /\ \A t, u \in input.targets : t.game = u.game => t = u

LEMMA TargetsRead ==
    ASSUME GamesInv, GamesCounted, NEW g \in ScoreTargets(games)
    PROVE  /\ ScoreTarget(games, stats, g).game = g
           /\ TargetRead(ScoreTarget(games, stats, g), ForwardExposures)
<1> DEFINE t == ScoreTarget(games, stats, g)
           made == Inference(games, stats, games[g])
<1>1. /\ t.game = g /\ t.season = games[g].season /\ t.kickoff = games[g].kickoff
      /\ t.route = made.route
      /\ t.trace = {[game |-> s, kickoff |-> games[s].kickoff] : s \in made.trace}
  BY DEF ScoreTarget
<1>2. made.route \in Routes
  BY DEF Inference, SelectedRoute, Route, Routes
<1>3. /\ g \in DOMAIN games /\ games[g] \in FileRows
      /\ games[g].season \in Min({f.score : f \in EvidenceFolds}) .. HoldoutSeason
  BY DEF ScoreTargets, GamesInv
<1>4. games[g].season \in Int /\ games[g].kickoff \in Int
  BY <1>3, GamesAssumption DEF FileRows
<1>5. HoldoutSeason \in Int /\ ForwardSeason \in Int /\ HoldoutSeason < ForwardSeason
  BY DatasetAssumption, ResearchAssumption DEF HoldoutSeason
<1>6. games[g].season <= HoldoutSeason
  BY <1>3, <1>5, FirstScored
<1>7. ASSUME NEW s \in t.trace PROVE s.game # t.game /\ s.kickoff < t.kickoff
  <2>1. PICK h \in made.trace : s = [game |-> h, kickoff |-> games[h].kickoff]
    BY <1>1
  <2>2. games[h].kickoff < games[g].kickoff
    BY <2>1, SourcesBegin
  <2>3. h # g
    BY <1>4, <2>2
  <2> QED BY <1>1, <2>1, <2>2, <2>3
<1>8. g \notin ForwardExposures
  BY <1>4, <1>5, <1>6 DEF ForwardExposures
<1> HIDE DEF t, made
<1>9. TargetRead(t, ForwardExposures)
  BY <1>1, <1>2, <1>3, <1>4, <1>6, <1>7, <1>8 DEF TargetRead
<1> QED BY <1>1, <1>9 DEF t

(* What a package promises of its files, read as they are in a directory.  *)
OutOfSample(files) ==
    \A row \in files.probabilities :
        /\ Cardinality({x \in files.probabilities : x.game = row.game}) = 1
        /\ row.game \notin files.exposure
        /\ \E fit \in files.training :
              /\ fit.route = row.route /\ fit.season = row.season
              /\ \A x \in fit.rows : x.season < row.season /\ x.kickoff < row.cutoff
              /\ row.season = HoldoutSeason => fit.rows = Brief(Frozen(row.route))
        /\ \E trace \in files.traces :
              /\ trace.game = row.game
              /\ \A s \in trace.sources : s.game # row.game /\ s.kickoff < row.cutoff

(* A target is forecast from games of earlier seasons.                     *)
LEMMA ModelledOnThePast ==
    ASSUME NEW input, InputRead(input), NEW t \in input.targets, HasModel(t)
    PROVE  /\ \A x \in ToSet(ModelRows(input, t)) :
                 /\ x.season < t.season
                 /\ \E row \in FileRows : x.season = row.season /\ x.kickoff = row.kickoff
           /\ t.season = HoldoutSeason => ModelRows(input, t) = Frozen(t.route)
<1>0. t.route \in Routes /\ input.training[t.route] = Frozen(t.route)
  BY DEF InputRead, TargetRead
<1>1. CASE t.season = HoldoutSeason
  <2>1. ModelRows(input, t) = Frozen(t.route)
    BY <1>0, <1>1 DEF ModelRows
  <2> QED BY <1>0, <1>1, <2>1, FrozenRows
<1>2. CASE t.season # HoldoutSeason
  <2> DEFINE f == CHOOSE f \in EvidenceFolds : f.route = t.route /\ f.score = t.season
             first == IF f.route = "early" THEN EarlyFrom ELSE DevelopmentFrom
  <2>1. f \in EvidenceFolds /\ f.route = t.route /\ f.score = t.season
    BY <1>2 DEF HasModel
  <2>2. ModelRows(input, t) = OfSeasons(Frozen(t.route), first .. f.last)
    BY <1>0, <1>2, <2>1 DEF ModelRows, FoldTraining, SeasonFold
  <2>3. f.last \in Int /\ f.score \in Int /\ f.last < f.score /\ first \in Int
    BY <2>1, DatasetAssumption
  <2> HIDE DEF f, first
  <2>4. \A x \in ToSet(ModelRows(input, t)) : x.season \in first .. f.last /\ x \in ToSet(Frozen(t.route))
    BY <1>0, <2>2, FrozenRows, SelectedInTime
  <2>5. \A x \in ToSet(ModelRows(input, t)) : x.season < t.season
    BY <2>1, <2>3, <2>4
  <2> QED BY <1>0, <1>2, <2>4, <2>5, FrozenRows
<1> QED BY <1>1, <1>2

LEMMA RenderedOutOfSample ==
    ASSUME SeasonsFollow, NEW input, InputRead(input)
    PROVE  OutOfSample(Render(input))
<1> DEFINE files == Render(input)
           scored == {t \in input.targets : HasModel(t)}
           probability(t) == [game |-> t.game, season |-> t.season, cutoff |-> t.kickoff,
                              route |-> t.route, home |-> Forecast(ModelRows(input, t), t.values)]
           fitted(t) == [route |-> t.route, season |-> t.season, rows |-> Brief(ModelRows(input, t))]
           traced(t) == [game |-> t.game, sources |-> t.trace]
<1>1. /\ files.probabilities = {probability(t) : t \in scored}
      /\ files.training = {fitted(t) : t \in scored}
      /\ files.traces = {traced(t) : t \in scored}
      /\ files.exposure = input.exposed
  BY DEF Render
<1>2. ASSUME NEW t \in scored
      PROVE  /\ Cardinality({x \in files.probabilities : x.game = t.game}) = 1
             /\ t.game \notin files.exposure
             /\ \A x \in Brief(ModelRows(input, t)) : x.season < t.season /\ x.kickoff < t.kickoff
             /\ t.season = HoldoutSeason => Brief(ModelRows(input, t)) = Brief(Frozen(t.route))
             /\ \A s \in t.trace : s.game # t.game /\ s.kickoff < t.kickoff
  <2>1. {x \in files.probabilities : x.game = t.game} = {probability(t)}
    <3>1. ASSUME NEW x \in files.probabilities, x.game = t.game PROVE x = probability(t)
      <4>1. PICK u \in scored : x = probability(u)
        BY <1>1
      <4>2. u.game = t.game
        BY <3>1, <4>1
      <4>3. u = t
        BY <4>2 DEF InputRead
      <4> QED BY <4>1, <4>3
    <3>2. probability(t) \in files.probabilities /\ probability(t).game = t.game
      BY <1>1
    <3> HIDE DEF files, probability
    <3> QED BY <3>1, <3>2
  <2>2. Cardinality({probability(t)}) = 1
    BY FS_Singleton
  <2>3. TargetRead(t, input.exposed)
    BY DEF InputRead
  <2>4. /\ \A x \in ToSet(ModelRows(input, t)) :
              /\ x.season < t.season
              /\ \E row \in FileRows : x.season = row.season /\ x.kickoff = row.kickoff
        /\ t.season = HoldoutSeason => ModelRows(input, t) = Frozen(t.route)
    BY ModelledOnThePast
  <2>5. \A x \in ToSet(ModelRows(input, t)) : x.kickoff < t.kickoff
    BY <2>3, <2>4 DEF TargetRead, SeasonsFollow
  <2>6. \A x \in Brief(ModelRows(input, t)) : x.season < t.season /\ x.kickoff < t.kickoff
    BY <2>4, <2>5 DEF Brief
  <2> HIDE DEF files, probability
  <2> QED BY <1>1, <2>1, <2>2, <2>3, <2>4, <2>6 DEF TargetRead
<1>3. ASSUME NEW row \in files.probabilities
      PROVE  /\ Cardinality({x \in files.probabilities : x.game = row.game}) = 1
             /\ row.game \notin files.exposure
             /\ \E fit \in files.training :
                   /\ fit.route = row.route /\ fit.season = row.season
                   /\ \A x \in fit.rows : x.season < row.season /\ x.kickoff < row.cutoff
                   /\ row.season = HoldoutSeason => fit.rows = Brief(Frozen(row.route))
             /\ \E trace \in files.traces :
                   /\ trace.game = row.game
                   /\ \A s \in trace.sources : s.game # row.game /\ s.kickoff < row.cutoff
  <2>1. PICK t \in scored : row = probability(t)
    BY <1>1
  <2>2. /\ row.game = t.game /\ row.season = t.season /\ row.cutoff = t.kickoff
        /\ row.route = t.route
    BY <2>1
  <2>3. fitted(t) \in files.training /\ traced(t) \in files.traces
    BY <1>1
  <2>4. /\ fitted(t).route = t.route /\ fitted(t).season = t.season
        /\ fitted(t).rows = Brief(ModelRows(input, t))
        /\ traced(t).game = t.game /\ traced(t).sources = t.trace
    OBVIOUS
  <2> HIDE DEF files, fitted, traced, scored
  <2> QED BY <1>2, <2>2, <2>3, <2>4
<1> HIDE DEF files
<1> QED BY <1>3 DEF OutOfSample, files

(* What an export holds, and what a directory whose manifest is there.     *)
SampleInv ==
    /\ DOMAIN folders = {FolderOf[r] : r \in Researchers}
    /\ \A r \in Researchers :
          /\ researching[r] = "build" => InputRead(held[r].bundle)
          /\ researching[r] \in {"write", "documents", "validate"} => OutOfSample(held[r].bundle)
    /\ \A d \in DOMAIN folders : "manifest" \in DOMAIN folders[d] => OutOfSample(folders[d].manifest)

LEMMA SampleInitInv == ResearchInit => SampleInv
  BY DEF ResearchInit, SampleInv

LEMMA EvidenceLoaded ==
    ASSUME GamesInv, GamesCounted, ResearchShaped, NEW r \in Researchers, LoadEvidence(r),
           researching'[r] = "build"
    PROVE  InputRead(held'[r].bundle)
<1> DEFINE training == Training(games, stats)
           targets == {ScoreTarget(games, stats, g) : g \in ScoreTargets(games)}
           input == [training |-> training, exposed |-> ForwardExposures, targets |-> targets]
<1>1. Reconstructed(training) /\ held' = [held EXCEPT ![r].bundle = input]
  BY DEF LoadEvidence, Refuse, ResearchGoto, ResearchShaped
<1>2. held'[r].bundle = input
  BY <1>1 DEF ResearchShaped
<1>3. \A route \in Routes : training[route] = Frozen(route)
  BY <1>1 DEF Reconstructed, Routes
<1>4. \A t \in targets : TargetRead(t, ForwardExposures)
  BY TargetsRead
<1>5. \A t, u \in targets : t.game = u.game => t = u
  BY TargetsRead
<1>6. /\ input.training = training /\ input.exposed = ForwardExposures /\ input.targets = targets
  OBVIOUS
<1> HIDE DEF training, targets, input
<1> QED BY <1>2, <1>3, <1>4, <1>5, <1>6 DEF InputRead

(* A document is never the manifest, and the manifest is what was built.   *)
LEMMA PutKeepsFolders ==
    ASSUME SampleInv, NEW r \in Researchers, NEW name, NEW content, Put(FolderOf[r], name, content),
           name = "manifest" => OutOfSample(content)
    PROVE  /\ DOMAIN folders' = DOMAIN folders
           /\ \A d \in DOMAIN folders' :
                 "manifest" \in DOMAIN folders'[d] => OutOfSample(folders'[d].manifest)
<1> DEFINE d == FolderOf[r]
<1>1. d \in DOMAIN folders
  BY DEF SampleInv
<1>2. /\ folders' = [folders EXCEPT ![d] = With(folders[d], name, content)]
  BY DEF Put
<1> HIDE DEF d
<1>3. /\ DOMAIN folders' = DOMAIN folders /\ folders'[d] = With(folders[d], name, content)
      /\ \A e \in DOMAIN folders \ {d} : folders'[e] = folders[e]
  BY <1>1, <1>2
<1>4. "manifest" \in DOMAIN folders'[d] => OutOfSample(folders'[d].manifest)
  <2>1. CASE name = "manifest"
    <3>1. folders'[d].manifest = content
      BY <1>3, <2>1 DEF With
    <3> QED BY <2>1, <3>1
  <2>2. CASE name # "manifest"
    <3>1. /\ "manifest" \in DOMAIN folders'[d] <=> "manifest" \in DOMAIN folders[d]
          /\ "manifest" \in DOMAIN folders[d] => folders'[d].manifest = folders[d].manifest
      BY <1>3, <2>2 DEF With
    <3> QED BY <1>1, <3>1 DEF SampleInv
  <2> QED BY <2>1, <2>2
<1> QED BY <1>3, <1>4 DEF SampleInv

LEMMA ResearcherKeepsSample ==
    ASSUME SeasonsFollow, GamesInv, GamesCounted, ReportInv, SampleInv,
           NEW r \in Researchers, ResearcherStep(r)
    PROVE  SampleInv'
<1>0. /\ ResearchShaped
      /\ \A s \in Researchers \ {r} : researching'[s] = researching[s] /\ held'[s] = held[s]
  BY ResearcherAlone DEF ReportInv
<1>1. ASSUME folders' = folders,
             /\ researching'[r] = "build" => InputRead(held'[r].bundle)
             /\ researching'[r] \in {"write", "documents", "validate"} => OutOfSample(held'[r].bundle)
      PROVE  SampleInv'
  BY <1>0, <1>1 DEF SampleInv
<1>2. CASE LoadEvidence(r)
  <2>1. researching'[r] \in {"build", "refused"} /\ folders' = folders
    BY <1>0, <1>2 DEF LoadEvidence, Refuse, ResearchGoto, ResearchShaped
  <2> QED BY <1>0, <1>1, <1>2, <2>1, EvidenceLoaded
<1>3. CASE BuildEvidence(r)
  <2>1. InputRead(held[r].bundle)
    BY <1>3 DEF BuildEvidence, SampleInv
  <2>2. \/ researching'[r] = "refused"
        \/ researching'[r] = "write" /\ held'[r].bundle = Render(held[r].bundle)
    BY <1>0, <1>3 DEF BuildEvidence, Refuse, ResearchGoto, ResearchShaped
  <2> QED BY <1>1, <1>3, <2>1, <2>2, RenderedOutOfSample DEF BuildEvidence
<1>4. CASE OpenFolder(r)
  <2>1. \/ researching'[r] = "refused"
        \/ researching'[r] = "documents" /\ held'[r].bundle = held[r].bundle
    BY <1>0, <1>4 DEF OpenFolder, Refuse, ResearchGoto, ResearchShaped
  <2>2. OutOfSample(held[r].bundle) /\ folders' = folders
    BY <1>4 DEF OpenFolder, SampleInv
  <2> QED BY <1>1, <2>1, <2>2
<1>5. CASE WriteDocument(r)
  <2> DEFINE name == Documents[held[r].written + 1]
  <2>1. name # "manifest"
    <3>1. held[r].written + 1 \in 1 .. 4
      BY <1>0, <1>5 DEF WriteDocument, Documents, ResearchShaped
    <3> QED BY <3>1 DEF Documents
  <2>2. Put(FolderOf[r], name, held[r].bundle[name])
    BY <1>5 DEF WriteDocument
  <2> HIDE DEF name
  <2>3. /\ DOMAIN folders' = DOMAIN folders
        /\ \A d \in DOMAIN folders' :
              "manifest" \in DOMAIN folders'[d] => OutOfSample(folders'[d].manifest)
    BY <2>1, <2>2, PutKeepsFolders
  <2>4. OutOfSample(held[r].bundle) /\ researching'[r] = "documents"
    BY <1>5 DEF WriteDocument, SampleInv
  <2>5. held'[r].bundle = held[r].bundle
    BY <1>0, <1>5 DEF WriteDocument, ResearchShaped
  <2> QED BY <1>0, <2>3, <2>4, <2>5 DEF SampleInv
<1>6. CASE WriteManifest(r)
  <2>1. OutOfSample(held[r].bundle) /\ Put(FolderOf[r], "manifest", held[r].bundle)
    BY <1>6 DEF WriteManifest, SampleInv
  <2>2. /\ DOMAIN folders' = DOMAIN folders
        /\ \A d \in DOMAIN folders' :
              "manifest" \in DOMAIN folders'[d] => OutOfSample(folders'[d].manifest)
    BY <2>1, PutKeepsFolders
  <2>3. held' = held /\ researching'[r] = "validate"
    BY <1>0, <1>6 DEF WriteManifest, ResearchGoto, ResearchShaped
  <2> QED BY <1>0, <2>1, <2>2, <2>3 DEF SampleInv
<1>7. CASE \/ ReadGames(r) \/ ReadHistory(r) \/ Develop(r) \/ EvaluateEarly(r) \/ FreezeEarly(r)
           \/ ReadHoldoutGames(r) \/ EvaluateHoldout(r) \/ RebuildArtifact(r)
           \/ Preflight(r) \/ ValidateEvidence(r) \/ ResearcherCrash(r)
  <2>1. folders' = folders /\ researching'[r] \notin {"build", "write", "documents", "validate"}
    <3> USE <1>0 DEF ResearchShaped, ResearchGoto, Refuse, Finish
    <3>1. CASE ReadGames(r) \/ ReadHistory(r) \/ Develop(r) \/ EvaluateEarly(r)
      BY <3>1 DEF ReadGames, ReadHistory, Develop, EvaluateEarly
    <3>2. CASE FreezeEarly(r) \/ ReadHoldoutGames(r) \/ EvaluateHoldout(r) \/ RebuildArtifact(r)
      BY <3>2 DEF FreezeEarly, ReadHoldoutGames, EvaluateHoldout, RebuildArtifact
    <3>3. CASE Preflight(r) \/ ValidateEvidence(r) \/ ResearcherCrash(r)
      BY <3>3 DEF Preflight, ValidateEvidence, ResearcherCrash
    <3> QED BY <1>7, <3>1, <3>2, <3>3
  <2> QED BY <1>1, <2>1
<1> QED BY <1>2, <1>3, <1>4, <1>5, <1>6, <1>7 DEF ResearcherStep

LEMMA NextKeepsSample ==
    ASSUME SeasonsFollow, GamesInv, GamesCounted, ReportInv, SampleInv, [Next]_seasonVars
    PROVE  SampleInv'
<1>1. CASE \E r \in Researchers \cap crew.who : Research(r)
  <2>1. PICK r \in Researchers : ResearcherStep(r)
    BY <1>1 DEF Research
  <2> QED BY <2>1, ResearcherKeepsSample
<1>2. CASE UNCHANGED researchVars
  BY <1>2 DEF researchVars, SampleInv
<1> QED BY <1>1, <1>2 DEF Next, Import, Predict, Capture, Price, Tick, seasonVars

(* A package of historical evidence that validates                         *)
(* (nfl/historical_probability_evidence.py), whoever wrote its files, in   *)
(* whatever order and however often an export crashed: each probability    *)
(* comes from games of earlier seasons that began before its own, or from  *)
(* the very rows the frozen model was fitted on; its sources began before  *)
(* it; and its game has not been predicted in earnest.                     *)
THEOREM PackagesAreOutOfSample == ASSUME SeasonsFollow PROVE Spec => []EvidenceOutOfSample
<1>1. SampleInv => EvidenceOutOfSample
  <2> SUFFICES ASSUME SampleInv, NEW d \in DOMAIN folders, ValidPackage(folders[d])
               PROVE  OutOfSample(folders[d])
    BY DEF EvidenceOutOfSample, OutOfSample
  <2> DEFINE files == folders[d]
  <2>1. OutOfSample(files.manifest)
    BY DEF ValidPackage, SampleInv
  <2>2. {"probabilities", "training", "traces", "exposure"} \subseteq ToSet(Documents)
    <3>1. Documents[1] = "probabilities" /\ Documents[2] = "training" /\ Documents[3] = "traces"
          /\ Documents[4] = "exposure" /\ DOMAIN Documents = 1 .. 4
      BY DEF Documents
    <3> QED BY <3>1 DEF ToSet
  <2>3. /\ files.probabilities = files.manifest.probabilities
        /\ files.training = files.manifest.training
        /\ files.traces = files.manifest.traces /\ files.exposure = files.manifest.exposure
    BY <2>2 DEF ValidPackage
  <2> QED BY <2>1, <2>3 DEF OutOfSample
<1>2. Init => ReportInv /\ GamesCounted /\ SampleInv
  BY ReportInitInv, CountedInit, SampleInitInv DEF Init
<1>3. SeasonInv /\ GamesCounted /\ [Next]_seasonVars => GamesCounted'
  BY NextKeepsCounted DEF SeasonInv
<1>4. SeasonInv /\ GamesCounted /\ ReportInv /\ [Next]_seasonVars => ReportInv'
  BY NextKeepsReports DEF SeasonInv
<1>5. SeasonInv /\ GamesCounted /\ ReportInv /\ SampleInv /\ [Next]_seasonVars => SampleInv'
  BY NextKeepsSample DEF SeasonInv
<1> QED BY <1>1, <1>2, <1>3, <1>4, <1>5, SeasonInvariant, PTL DEF Spec
=============================================================================
