----------------------------- MODULE NflSeason -----------------------------
(***************************************************************************)
(* A season as it is predicted, priced and played: the imports, the        *)
(* predictions, the captures of odds, the evaluations of the market and    *)
(* the research on earlier seasons run as separate processes on one        *)
(* database.                                                               *)
(***************************************************************************)
EXTENDS NflMarketEvaluation, NflResearch

CONSTANT Crews  \* sets of processes that may run together, on what, and how long:
                \* [who, since, until]; the database starts with the seasons since "since"

VARIABLE crew   \* the one that runs

marketVars == <<captureVars, evaluationVars>>
seasonVars == <<clock, importVars, predictionVars, marketVars, researchVars, crew>>

Init ==
    /\ crew \in Crews /\ GamesInit(crew.since)
    /\ PredictionInit /\ CaptureInit /\ EvaluationInit /\ ResearchInit

Import(i) == ImportStep(i) /\ UNCHANGED <<predictionVars, marketVars, researchVars, crew>>
Predict(p) == PredictorStep(p) /\ UNCHANGED <<clock, importVars, marketVars, researchVars, crew>>
Capture(c) ==
    /\ CaptureStep(c)
    /\ UNCHANGED <<clock, importVars, predictionVars, evaluationVars, researchVars, crew>>
Price(e) ==
    /\ EvaluatorStep(e)
    /\ UNCHANGED <<clock, importVars, predictionVars, captureVars, researchVars, crew>>
Research(r) == ResearcherStep(r) /\ UNCHANGED <<clock, importVars, predictionVars, marketVars, crew>>

Tick ==
    /\ clock < crew.until /\ clock' = clock + 1
    /\ UNCHANGED <<importVars, predictionVars, marketVars, researchVars, crew>>

Next ==
    \/ \E i \in Importers \cap crew.who : Import(i)
    \/ \E p \in Predictors \cap crew.who : Predict(p)
    \/ \E c \in Captures \cap crew.who : Capture(c)
    \/ \E e \in Evaluators \cap crew.who : Price(e)
    \/ \E r \in Researchers \cap crew.who : Research(r)
    \/ Tick

Spec == Init /\ [][Next]_seasonVars

(***************************************************************************)
(* Forward evaluation (nfl/moneyline_forward_evaluation.py): one read of   *)
(* the record.                                                             *)
(***************************************************************************)
(* Mutant: the kickoff the game has now is not compared. *)
EvidenceValidOnce(n) ==
    /\ n.created < n.kickoff
    /\ n.home = games[n.game].home /\ n.away = games[n.game].away
    /\ n.side = IF n.probability >= Threshold THEN "home" ELSE "away"

EvidenceValid(n) ==
    /\ n.created < n.kickoff /\ n.kickoff = games[n.game].kickoff
    /\ n.home = games[n.game].home /\ n.away = games[n.game].away
    /\ n.side = IF n.probability >= Threshold THEN "home" ELSE "away"

Official == {n \in predictions : n.official}

(* Every prediction of the season must be valid, or nothing is evaluated.  *)
ForwardEvaluates == \A n \in Official : EvidenceValid(n)

(* The games a metric is taken over: final, and not tied.                  *)
Resolved == {n \in Official : /\ Final(games[n.game])
                              /\ games[n.game].score[1] # games[n.game].score[2]}

(***************************************************************************)
(* Properties.                                                             *)
(***************************************************************************)
(* A completed run has a prediction of every game of its slate, each for   *)
(* the kickoff and the teams of that slate, and none of another game; any  *)
(* other run has none.  Two executions of one key, a crash and a schedule  *)
(* that moves in between must not leave half a slate, or a slate of two    *)
(* snapshots.                                                              *)
SlateIsWhole ==
    \A k \in Keys : LET run == predictionRuns[k]
        IN  IF run.status = "completed"
            THEN /\ {n.game : n \in ChildrenOf(k)} = DOMAIN run.slate
                 /\ \A n, m \in ChildrenOf(k) : n.game = m.game => n = m
                 /\ \A n \in ChildrenOf(k) :
                       /\ n.kickoff = run.slate[n.game][2]
                       /\ n.home = run.slate[n.game][1][4] /\ n.away = run.slate[n.game][1][5]
                       /\ run.asOf <= n.created
            ELSE ChildrenOf(k) = {}

(* The sources recorded with a prediction never name its own game, which   *)
(* may have been played and moved between the snapshot and now; and while  *)
(* its evidence is valid, features computed for it again, from results     *)
(* that have arrived and kickoffs that have moved since, read no game that *)
(* does not begin before its own.  A game that is moved earlier and then   *)
(* played would be read by its own prediction, which is refused.           *)
NoLookahead ==
    \A n \in predictions :
        /\ n.game \notin n.trace
        /\ EvidenceValid(n) =>
              \A g \in Inference(games, stats, games[n.game]).trace :
                 g # n.game /\ games[g].kickoff < n.kickoff

(* Quotes that count as evidence were received before the kickoff, from a  *)
(* completed capture that asked before it was answered, and sit under the  *)
(* game whose teams and sides the provider named.                          *)
EvidenceIsPregame ==
    \A x \in evidence :
        LET run == captureRuns[x.quote.capture]
        IN  /\ run.status = "completed" /\ run.requested <= x.quote.observed
            /\ x.quote.observed = run.received /\ x.quote.observed < x.kickoff
            /\ mappings[x.quote.event].game = x.quote.game
            /\ games[x.quote.game].home = mappings[x.quote.event].home
            /\ games[x.quote.game].away = mappings[x.quote.event].away

(* The capture failed before the other one asked, and left nothing.        *)
InVain(c, other) ==
    /\ captureRuns[c].status = "failed"
    /\ captureRuns[c].completed <= captureRuns[other].requested
    /\ QuotesOf(c) = {} /\ \A x \in evidence : x.quote.capture # c

(* A capture that fails has been paid for and frees its date, so a date    *)
(* may be bought again; but never beside a capture that may still store    *)
(* its answer, nor after one that has: of two purchases of a date, however *)
(* their steps, failures and crashes interleave, one was over before the   *)
(* other was made and has left no quote and no evidence.  A date has the   *)
(* quotes of one market.                                                   *)
OneMarketPerDate ==
    \A c, d \in Captures :
        /\ c # d /\ captureRuns[c].date = captureRuns[d].date
        /\ calls[c] > 0 /\ calls[d] > 0
        => InVain(c, d) \/ InVain(d, c)

(* Every evaluation compares its prediction with a market that was asked   *)
(* for after the prediction was made, of enough bookmakers whose quotes    *)
(* are all evidence of that game at that kickoff; and it takes a price     *)
(* that no contributor betters.                                            *)
PricedOnLaterMarket ==
    \A v \in evaluations :
        LET n == v.prediction
            run == captureRuns[v.graph.capture]
        IN  /\ n \in predictions /\ n.official
            /\ predictionRuns[n.key].status = "completed"
            /\ run.status = "completed" /\ run.received = v.graph.observed
            /\ n.created <= run.requested /\ run.received <= v.at /\ v.at < n.kickoff
            /\ Cardinality({m.book : m \in v.graph.contributors}) >= MinContributors
            /\ \A m \in v.graph.contributors : \E x, y \in evidence :
                  /\ x.quote.capture = v.graph.capture /\ y.quote.capture = v.graph.capture
                  /\ x.quote.game = n.game /\ y.quote.game = n.game
                  /\ x.kickoff = n.kickoff /\ y.kickoff = n.kickoff
                  /\ x.quote.book = m.book /\ y.quote.book = m.book
                  /\ x.team = n.home /\ x.quote.price = m.home
                  /\ y.team = n.away /\ y.quote.price = m.away
            /\ \A m, best \in v.graph.contributors : best.book = v.graph.best =>
                  Pays(PriceOf(best, n.side), PriceOf(m, n.side)) >= 0

(* When the forward evaluation accepts the record of the season, every     *)
(* prediction it scores, and every quote such a prediction was priced      *)
(* with, came before the kickoff its game has now; and no game is scored   *)
(* twice.  The schedule may have moved a kickoff in between.               *)
ForwardRecordIsPregame ==
    ForwardEvaluates =>
        /\ \A n \in Official : n.created < games[n.game].kickoff
        /\ \A v \in evaluations : /\ v.graph.observed < games[v.prediction.game].kickoff
                                  /\ v.at < games[v.prediction.game].kickoff
        /\ \A n, m \in Resolved : n.game = m.game => n = m

(* The policy of the mature model is chosen before the confirmation season *)
(* is looked at: other results of that season would have led to the same   *)
(* policy, and no other policy is evaluated on it; and no fold of a report *)
(* is trained on a game of the season it validates or of a later one.      *)
ConfirmationIsBlind ==
    LET last == DevelopmentFolds[Len(DevelopmentFolds)][2]
        otherwise(rows) == [i \in DOMAIN rows |->
            IF rows[i].season = last THEN [rows[i] EXCEPT !.won = ~rows[i].won] ELSE rows[i]]
    IN  \A r \in Researchers : reports[r] # NoReport =>
            /\ \A e \in reports[r].folds :
                  \A t \in ToSet(e.fold.training), v \in ToSet(e.fold.validation) :
                     t.season < v.season /\ t.kickoff < v.kickoff
            /\ ResearchOf[r] = "develop" =>
                  /\ reports[r].selected = Select(Tried(otherwise(reports[r].rows)))
                  /\ \A e \in reports[r].folds :
                        e.number = Len(DevelopmentFolds) => e.history = reports[r].selected

(* A package that validates, whoever wrote its files and whatever was      *)
(* corrected meanwhile: every probability has one model, fitted on games   *)
(* of earlier seasons that began before its game; the model that is not    *)
(* fitted again is attributed to the rows it was fitted on; no source of a *)
(* row began after its kickoff; and no game in it has been predicted in    *)
(* earnest.                                                                *)
EvidenceOutOfSample ==
    \A d \in DOMAIN folders : ValidPackage(folders[d]) =>
        LET files == folders[d]
        IN  \A row \in files.probabilities :
               /\ Cardinality({x \in files.probabilities : x.game = row.game}) = 1
               /\ row.game \notin files.exposure
               /\ \E fit \in files.training :
                     /\ fit.route = row.route /\ fit.season = row.season
                     /\ \A x \in fit.rows : x.season < row.season /\ x.kickoff < row.cutoff
                     /\ row.season = HoldoutSeason => fit.rows = Brief(Frozen(row.route))
               /\ \E trace \in files.traces :
                     /\ trace.game = row.game
                     /\ \A s \in trace.sources : s.game # row.game /\ s.kickoff < row.cutoff

Contract == INSTANCE NflEvidenceContract WITH
    now <- clock,
    predicted <- {[game |-> n.game, kickoff |-> n.kickoff, created |-> n.created] : n \in Official},
    priced <- {[prediction |-> [game |-> v.prediction.game, kickoff |-> v.prediction.kickoff,
                                created |-> v.prediction.created], at |-> v.at] :
                 v \in evaluations}

(* The record of the season keeps the promise of NflEvidenceContract.      *)
SeasonPromise == Contract!ContractSpec

(* The import of a future schedule leaves a completed game alone.          *)
CompletedGamesStay ==
    [][\A g \in DOMAIN games : Final(games[g]) => Final(games'[g])]_seasonVars
=============================================================================
