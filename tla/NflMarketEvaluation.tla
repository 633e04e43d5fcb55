------------------------- MODULE NflMarketEvaluation -------------------------
(***************************************************************************)
(* The official market evaluation of an NFL prediction                     *)
(* (nfl/market_evaluation.py, nfl/manual_market_evaluation.py, migration   *)
(* 031).                                                                   *)
(*                                                                         *)
(* An operator previews a prediction against the quotes of a capture, read *)
(* only; a live execution then does it again in one transaction at         *)
(* REPEATABLE READ.  Its snapshot is taken by the statement that locks the *)
(* prediction; a row it needs that has changed since sends it back to a    *)
(* new snapshot, and so does a rival that was first to evaluate.           *)
(***************************************************************************)
EXTENDS NflPrediction, NflCapture, NflMarketMath

CONSTANTS
    Evaluators,     \* invocations of the evaluation command
    MinContributors,    \* MINIMUM_CONTRIBUTOR_COUNT
    MaxReceiptLag,  \* from the prediction to the receipt (900 s), in ticks
    MaxEvaluationLag,   \* from the receipt to the evaluation (300 s)
    Stale,          \* from the last update of a quote to the receipt (300 s)
    Rounds          \* attempts of one execution (3)

ASSUME EvaluationAssumption ==
    /\ MinContributors \in Nat \ {0} /\ Rounds \in Nat \ {0}
    /\ MaxReceiptLag \in Nat /\ MaxEvaluationLag \in Nat /\ Stale \in Nat

VARIABLES
    evaluations,    \* nfl_moneyline_market_evaluations
    evaluationRuns, \* the runs of the executions: "none", "completed", "failed"
    evaluating,     \* where each execution is
    pair,           \* the prediction and the capture it was given
    rounds,         \* its attempts so far
    view            \* the snapshot of its transaction

evaluationVars == <<evaluations, evaluationRuns, evaluating, pair, rounds, view>>

NoView == [games |-> <<>>, captures |-> <<>>, evidence |-> {}, evaluations |-> {}]

EvaluationInit ==
    /\ evaluations = {}
    /\ evaluationRuns = [e \in Evaluators |-> "none"]
    /\ evaluating = [e \in Evaluators |-> "idle"]
    /\ pair = [e \in Evaluators |-> <<>>]
    /\ rounds = [e \in Evaluators |-> 0]
    /\ view = [e \in Evaluators |-> NoView]

EvaluateGoto(e, label) == evaluating' = [evaluating EXCEPT ![e] = label]

(* What an evaluation reads.                                               *)
Database == [games |-> games, captures |-> captureRuns, evidence |-> evidence,
             evaluations |-> evaluations]

(***************************************************************************)
(* The evidence of the game, provider by provider.                         *)
(***************************************************************************)
EvidenceOf(db, n, c) == {x \in db.evidence : x.quote.game = n.game /\ x.quote.capture = c}
BooksOf(ev) == {x.quote.book : x \in ev}
OfBook(ev, book) == {x \in ev : x.quote.book = book}
OfTeam(ev, team) == CHOOSE x \in ev : x.team = team

TwoSided(n, rows) == {x.team : x \in rows} = {n.home, n.away}
Fresh(db, c, x) ==
    /\ x.quote.updated <= db.captures[c].received
    /\ db.captures[c].received - x.quote.updated <= Stale

(* Everything else about the evidence is an error of the evaluation:       *)
(* quotes of another time, kickoff or team, and two of one selection.      *)
EvidenceCoherent(db, n, c) ==
    LET ev == EvidenceOf(db, n, c)
    IN  /\ \A x \in ev : /\ x.quote.observed = db.captures[c].received
                         /\ x.kickoff = n.kickoff
                         /\ x.team \in {n.home, n.away}
        /\ \A x, y \in ev : x.quote.book = y.quote.book /\ x.team = y.team => x = y
        /\ \A book \in BooksOf(ev) : LET rows == OfBook(ev, book)
              IN  TwoSided(n, rows) => Cardinality({x.quote.updated : x \in rows}) = 1

Contributors(db, n, c) ==
    LET ev == EvidenceOf(db, n, c)
        complete == {b \in BooksOf(ev) : /\ TwoSided(n, OfBook(ev, b))
                                         /\ \A x \in OfBook(ev, b) : Fresh(db, c, x)}
    IN  {[book |-> b, home |-> OfTeam(OfBook(ev, b), n.home).quote.price,
          away |-> OfTeam(OfBook(ev, b), n.away).quote.price] : b \in complete}

Exclusions(db, n, c) ==
    LET ev == EvidenceOf(db, n, c)
    IN  {<<b, IF TwoSided(n, OfBook(ev, b)) THEN "stale" ELSE "incomplete">> :
            b \in BooksOf(ev) \ {m.book : m \in Contributors(db, n, c)}}

SelectedProbability(n) == IF n.side = "home" THEN n.probability ELSE Scale - n.probability

(* The source graph, and what is computed from it.                         *)
Graph(db, n, c) ==
    LET markets == Contributors(db, n, c)
        best == BestMarket(markets, n.side)
    IN  [capture |-> c, observed |-> db.captures[c].received, contributors |-> markets,
         exclusions |-> Exclusions(db, n, c), best |-> best.book,
         edge |-> Edge(SelectedProbability(n), markets, n.side),
         value |-> ExpectedValue(SelectedProbability(n), PriceOf(best, n.side))]

(***************************************************************************)
(* What may be evaluated.                                                  *)
(***************************************************************************)
(* A game that is still as it was predicted, and unplayed.                 *)
GameUnchanged(db, n) ==
    LET row == db.games[n.game]
    IN  row.home = n.home /\ row.away = n.away /\ row.kickoff = n.kickoff /\ ~Final(row)

(* Mutant: the request may have been sent before the prediction was there. *)
EntryOrderReceipt(db, n, c) ==
    LET run == db.captures[c]
    IN  /\ n.created < run.received
        /\ run.received - n.created <= MaxReceiptLag
        /\ run.received < db.games[n.game].kickoff

(* Prediction, request, receipt and kickoff in this order.                 *)
EntryOrder(db, n, c) ==
    LET run == db.captures[c]
    IN  /\ n.created <= run.requested /\ n.created < run.received
        /\ run.received - n.created <= MaxReceiptLag
        /\ run.received < db.games[n.game].kickoff

EvaluatedInTime(db, n, c, now) ==
    /\ db.captures[c].received <= now
    /\ now - db.captures[c].received <= MaxEvaluationLag
    /\ now < db.games[n.game].kickoff

(* _prepare_evaluation: a new evaluation must be eligible now; one that    *)
(* exists already is only prepared again.                                  *)
Prepared(db, n, c, now) ==
    /\ n.official /\ db.captures[c].status = "completed"
    /\ (~\E v \in db.evaluations : v.prediction = n) =>
          GameUnchanged(db, n) /\ EntryOrder(db, n, c) /\ EvaluatedInTime(db, n, c, now)
    /\ EvidenceCoherent(db, n, c)
    /\ Cardinality(Contributors(db, n, c)) >= MinContributors

(* An evaluation that exists has the graph of the request, or conflicts.   *)
Agrees(db, n, c) ==
    \A v \in db.evaluations : v.prediction = n => v.graph = Graph(db, n, c)

(***************************************************************************)
(* The execution.                                                          *)
(***************************************************************************)
Preview(e) ==
    /\ evaluating[e] = "idle"
    /\ \E n \in predictions, c \in {d \in Captures : captureRuns[d].status # "none"} :
          /\ pair' = [pair EXCEPT ![e] = <<n, c>>]
          /\ EvaluateGoto(e, IF Prepared(Database, n, c, clock) /\ Agrees(Database, n, c)
                             THEN "open" ELSE "refused")
    /\ UNCHANGED <<evaluations, evaluationRuns, rounds, view>>

(* The statement that locks the prediction takes the snapshot.             *)
OpenView(e) ==
    /\ evaluating[e] = "open"
    /\ view' = [view EXCEPT ![e] = Database]
    /\ rounds' = [rounds EXCEPT ![e] = @ + 1]
    /\ EvaluateGoto(e, "locking")
    /\ UNCHANGED <<evaluations, evaluationRuns, pair>>

(* A source that has changed since the snapshot fails to serialize.        *)
Changed(e, n, c) ==
    view[e].games[n.game] # games[n.game] \/ view[e].captures[c] # captureRuns[c]

(* uq_nfl_market_evaluation_identity: a rival's evaluation that the        *)
(* snapshot does not show.                                                 *)
Overtaken(e, n) == \E v \in evaluations \ view[e].evaluations : v.prediction = n

Leave(e) == /\ view' = [view EXCEPT ![e] = NoView]
            /\ pair' = [pair EXCEPT ![e] = <<>>]

StartOver(e, n, c) ==
    /\ Changed(e, n, c) \/ (Prepared(view[e], n, c, clock) /\ Agrees(view[e], n, c) /\ Overtaken(e, n))
    /\ view' = [view EXCEPT ![e] = NoView]
    /\ EvaluateGoto(e, IF rounds[e] < Rounds THEN "open" ELSE "raised")
    /\ UNCHANGED <<evaluations, evaluationRuns, pair>>

(* An error of the evaluation is kept as a failed run.                     *)
RetainFailure(e, n, c) ==
    /\ ~Changed(e, n, c) /\ ~(Prepared(view[e], n, c, clock) /\ Agrees(view[e], n, c))
    /\ evaluationRuns' = [evaluationRuns EXCEPT ![e] = "failed"]
    /\ EvaluateGoto(e, "failed") /\ Leave(e)
    /\ UNCHANGED evaluations

(* The run and the evaluation, or the one that is there already.           *)
Complete(e, n, c) ==
    /\ ~Changed(e, n, c) /\ ~Overtaken(e, n)
    /\ Prepared(view[e], n, c, clock) /\ Agrees(view[e], n, c)
    /\ evaluationRuns' = [evaluationRuns EXCEPT ![e] = "completed"]
    /\ evaluations' = IF \E v \in evaluations : v.prediction = n THEN evaluations
                      ELSE evaluations \cup
                             {[prediction |-> n, graph |-> Graph(view[e], n, c), at |-> clock]}
    /\ EvaluateGoto(e, "done") /\ Leave(e)

Evaluate(e) ==
    /\ evaluating[e] = "locking"
    /\ LET n == pair[e][1]
           c == pair[e][2]
       IN  StartOver(e, n, c) \/ RetainFailure(e, n, c) \/ Complete(e, n, c)
    /\ UNCHANGED rounds

(* The process or its connection ends; the transaction is rolled back.     *)
EvaluatorCrash(e) ==
    /\ evaluating[e] \in {"open", "locking"}
    /\ EvaluateGoto(e, "dead") /\ Leave(e)
    /\ UNCHANGED <<evaluations, evaluationRuns, rounds>>

EvaluatorStep(e) == Preview(e) \/ OpenView(e) \/ Evaluate(e) \/ EvaluatorCrash(e)
=============================================================================
