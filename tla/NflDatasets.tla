----------------------------- MODULE NflDatasets -----------------------------
(***************************************************************************)
(* The rows the frozen NFL models are fitted on and judged by: the data    *)
(* sets of the two routes with their audits (nfl/moneyline_dataset.py,     *)
(* nfl/dataset_audit.py and their early counterparts), the folds over      *)
(* whole seasons, the choice of a policy for missing values                *)
(* (nfl/moneyline_baseline.py, nfl/early_moneyline_baseline.py) and the    *)
(* out-of-sample evidence (nfl/historical_probability_evidence.py).        *)
(*                                                                         *)
(* A fingerprint stands for the rows it is taken over.  "view" is a set of *)
(* games as one statement read them, "db" and "st" the games and the       *)
(* statistics of the statement that read the history.                      *)
(***************************************************************************)
EXTENDS NflFeatures

CONSTANTS
    DevelopmentFrom, DevelopmentTo, \* seasons that may be learned from (2018-2024)
    EarlyFrom,          \* the first with a season before it (2019)
    DevelopmentFolds,   \* sequence of <<last training season, validation season>>
    EarlyFolds,         \* the same for the early model
    Policies,           \* least histories of both teams, in order; 0 keeps every row
    MinimumRetention,   \* percent of the rows a policy must keep
    EvidenceFolds,      \* set of [route, last, score] of historical evidence
    Forecast(_, _),     \* percent, of the model fitted on rows, for values
    Measures(_)         \* what _metrics makes of forecasts, each best when least

(* Folds look forward, and each validates a later season than the last.    *)
Expanding(folds) ==
    /\ folds \in Seq(Int \X Int)
    /\ \A k \in DOMAIN folds : folds[k][1] < folds[k][2]
    /\ \A j, k \in DOMAIN folds : j < k => folds[j][2] < folds[k][2]

ASSUME DatasetAssumption ==
    /\ DevelopmentFrom \in Int /\ EarlyFrom = DevelopmentFrom + 1 /\ DevelopmentTo \in Int
    /\ MinimumRetention \in 0 .. 100 /\ 0 \in ToSet(Policies)
    /\ Expanding(DevelopmentFolds) /\ DevelopmentFolds # <<>> /\ Expanding(EarlyFolds)
    /\ IsFiniteSet(EvidenceFolds) /\ EvidenceFolds # {}
    /\ \A f \in EvidenceFolds : f.last \in Int /\ f.score \in Int /\ f.last < f.score

HoldoutSeason == DevelopmentTo + 1
Development == DevelopmentFrom .. DevelopmentTo
EarlyDevelopment == EarlyFrom .. DevelopmentTo

(***************************************************************************)
(* Data sets: one row of each final game that is not tied, in the order of *)
(* kickoffs.                                                               *)
(***************************************************************************)
GamesOfSeasons(db, seasons) == [g \in {h \in DOMAIN db : db[h].season \in seasons} |-> db[g]]

Decided(view) ==
    {g \in DOMAIN view : view[g].score # <<>> /\ view[g].score[1] # view[g].score[2]}

Sooner(view, g, h) ==
    \/ view[g].kickoff < view[h].kickoff
    \/ view[g].kickoff = view[h].kickoff /\ g < h

InOrder(view, ids) ==
    [n \in 1 .. Cardinality(ids) |->
        CHOOSE g \in ids : Cardinality({h \in ids : Sooner(view, h, g)}) = n - 1]

(* Only the rows of the early model name the games they come from.         *)
DatasetRow(db, st, row, values, sources) ==
    [game |-> row.ext, kickoff |-> row.kickoff, season |-> row.season,
     won |-> row.score[1] > row.score[2], values |-> values, sources |-> sources,
     prior |-> <<Cardinality(CurrentIds(db, st, row, row.home)),
                 Cardinality(CurrentIds(db, st, row, row.away))>>]

(* The rows of these games, one after the other.                           *)
Collect(ids, row) == [n \in DOMAIN ids |-> row[ids[n]]]

(* The rows at some places, in their order.                                *)
AtPlaces(rows, places) ==
    [n \in 1 .. Cardinality(places) |->
        rows[CHOOSE i \in places : Cardinality({j \in places : j < i}) = n - 1]]

MatureRow(db, st, row) == DatasetRow(db, st, row, MatureValues(db, st, row), {})

MatureDataset(view, db, st) ==
    Collect(InOrder(view, Decided(view)), [g \in Decided(view) |-> MatureRow(db, st, view[g])])

EarlyRow(db, st, row) ==
    DatasetRow(db, st, row, EarlyValues(db, st, row),
               CurrentSources(db, st, row) \cup PriorSources(db, st, row))

EarlyDataset(view, db, st) ==
    Collect(InOrder(view, {g \in Decided(view) : SelectedRoute(db, st, view[g]) = "early"}),
            [g \in Decided(view) |-> EarlyRow(db, st, view[g])])

(* The audit replays every row from the history it was built from; what it *)
(* can find is that the two statements do not agree on when a game began.  *)
AuditedAgainst(view, db, sources) ==
    \A g \in Decided(view) :
        g \notin sources[g] /\ \A s \in sources[g] : db[s].kickoff < view[g].kickoff

MatureAudit(view, db, st) ==
    AuditedAgainst(view, db, [g \in Decided(view) |-> CurrentSources(db, st, view[g])])

EarlyAudit(view, db, st) ==
    AuditedAgainst(view, db, [g \in Decided(view) |->
                               CurrentSources(db, st, view[g]) \cup PriorSources(db, st, view[g])])

(* The games a modelling data set accepts.                                 *)
Modelable(view, seasons) == \A g \in DOMAIN view : view[g].season \in seasons

(* The policy that needs a history of both teams keeps these.              *)
Keep(rows, history) ==
    AtPlaces(rows, {i \in DOMAIN rows : rows[i].prior[1] >= history /\ rows[i].prior[2] >= history})

(* What the mature model is fitted on and scored with.                     *)
MatureRows(rows) == Keep(rows, MatureGames)

SeasonsIn(rows) == {x.season : x \in ToSet(rows)}
OfSeasons(rows, seasons) == AtPlaces(rows, {i \in DOMAIN rows : rows[i].season \in seasons})

(***************************************************************************)
(* Fitting and folds.                                                      *)
(***************************************************************************)
(* Every fourth value counts games and is never missing.                   *)
AllMissing(rows) ==
    \E k \in DOMAIN rows[1].values : k % 4 # 1 /\ \A x \in ToSet(rows) : x.values[k] = <<>>

Fittable(rows) ==
    /\ rows # <<>> /\ {x.won : x \in ToSet(rows)} = BOOLEAN /\ ~AllMissing(rows)

SeasonFold(rows, first, last, score) ==
    [training |-> OfSeasons(rows, first .. last), validation |-> OfSeasons(rows, {score})]

FoldIsSound(f) ==
    /\ Fittable(f.training) /\ f.validation # <<>>
    /\ f.training[Len(f.training)].kickoff < f.validation[1].kickoff

Forecasts(f) ==
    [i \in DOMAIN f.validation |->
        <<Forecast(f.training, f.validation[i].values), f.validation[i].won>>]

(* _evaluate_policy: what a policy leaves of the first n folds.            *)
PolicyFolds(rows, history, n) ==
    [k \in 1 .. n |-> SeasonFold(Keep(rows, history), DevelopmentFrom, DevelopmentFolds[k][1],
                                 DevelopmentFolds[k][2])]

RowsIn(folds, part) == FoldSeq(LAMBDA f, sum : sum + Len(f[part]), 0, folds)

(***************************************************************************)
(* The choice of a policy, from the selection folds.                       *)
(***************************************************************************)
(* Mutant: the confirmation fold takes part in the choice. *)
AllFolds == Len(DevelopmentFolds)

SelectionFolds == Len(DevelopmentFolds) - 1

(* The folds every policy is tried on.                                     *)
Tried(rows) == [history \in ToSet(Policies) |-> PolicyFolds(rows, history, SelectionFolds)]

Retention(tried, history, part) ==
    (100 * RowsIn(tried[history], part)) \div RowsIn(tried[0], part)

Covers(tried, history) ==
    \A part \in {"training", "validation"} : Retention(tried, history, part) >= MinimumRetention

Loss(forecasts) == Measures(forecasts)[1]

(* _policy_selection_rank_scores: four measures of all forecasts, how far  *)
(* the loss moves between two folds, and the rows kept.                    *)
Criteria(tried, history) ==
    LET losses == {Loss(Forecasts(f)) : f \in ToSet(tried[history])}
    IN  Measures(FlattenSeq([k \in DOMAIN tried[history] |-> Forecasts(tried[history][k])]))
        \o <<Max(losses) - Min(losses),
             - Min({Retention(tried, history, part) : part \in {"training", "validation"}})>>

Rank(values, mine) == Cardinality({v \in values : v < mine})

RankScore(judged, mine) ==
    FoldSet(LAMBDA k, sum : sum + Rank({j.criteria[k] : j \in judged}, mine.criteria[k]),
            0, DOMAIN mine.criteria)

Before(a, b) == \E k \in DOMAIN a : a[k] < b[k] /\ \A j \in 1 .. k - 1 : a[j] = b[j]

(* The least rank score, then the criteria, the rows and the order itself. *)
Select(tried) ==
    LET judged == {[history |-> h, criteria |-> Criteria(tried, h)] :
                     h \in {p \in DOMAIN tried : Covers(tried, p)}}
        order(j) == <<RankScore(judged, j)>> \o SubSeq(j.criteria, 1, 5)
                    \o <<- RowsIn(tried[j.history], "validation"),
                         SelectInSeq(Policies, LAMBDA p : p = j.history)>>
    IN  (CHOOSE j \in judged : \A other \in judged \ {j} : Before(order(j), order(other))).history
=============================================================================
