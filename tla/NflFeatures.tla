----------------------------- MODULE NflFeatures -----------------------------
(***************************************************************************)
(* What a prediction of an NFL game is computed from: the completed games  *)
(* of its two teams before its kickoff (nfl/features.py,                   *)
(* nfl/early_features.py), the route they select (moneyline_routing.py)    *)
(* and the values the frozen model of that route reads                     *)
(* (nfl/moneyline_inference.py).                                           *)
(*                                                                         *)
(* An average is kept as <<sum, count>>, <<>> when there is nothing to     *)
(* average; a difference of averages as the fraction it is.  One count of  *)
(* the statistics, the balls lost, stands for all of them: yards are       *)
(* averaged in the same way.                                               *)
(***************************************************************************)
EXTENDS Integers, FiniteSets, SequencesExt

CONSTANT MatureGames    \* NFL_MONEYLINE_MATURE_PRIOR_GAME_THRESHOLD

ASSUME FeatureAssumption == MatureGames \in Nat

Plays(row, team) == team \in {row.home, row.away}
Opponent(row, team) == IF team = row.home THEN row.away ELSE row.home

(* Mutant: the cutoff of the history is missing. *)
HistoryIdsUncut(db, st, team, cutoff, season) ==
    {g \in DOMAIN db :
        /\ Plays(db[g], team) /\ db[g].score # <<>> /\ db[g].season = season
        /\ \A t \in {db[g].home, db[g].away} : \E s \in st : s.ext = g /\ s.team = t}

(* get_completed_games_before: a game counts once both teams' statistics   *)
(* are stored.                                                             *)
HistoryIds(db, st, team, cutoff, season) ==
    {g \in DOMAIN db :
        /\ Plays(db[g], team) /\ db[g].score # <<>>
        /\ db[g].kickoff < cutoff /\ db[g].season = season
        /\ \A t \in {db[g].home, db[g].away} : \E s \in st : s.ext = g /\ s.team = t}

(* The games a target is predicted from: those of the season, and those of *)
(* the regular season before.                                              *)
CurrentIds(db, st, row, team) == HistoryIds(db, st, team, row.kickoff, row.season)

PriorIds(db, st, row, team) ==
    {g \in HistoryIds(db, st, team, row.kickoff, row.season - 1) : db[g].type = "REG"}

CurrentSources(db, st, row) == UNION {CurrentIds(db, st, row, t) : t \in {row.home, row.away}}
PriorSources(db, st, row) == UNION {PriorIds(db, st, row, t) : t \in {row.home, row.away}}

(* Newest first; of two games at one time the later id comes first.        *)
NewestFirst(db, ids) ==
    SetToSortSeq(ids, LAMBDA a, b : \/ db[a].kickoff > db[b].kickoff
                                    \/ db[a].kickoff = db[b].kickoff /\ a > b)

CurrentGames(db, st, row, team) == NewestFirst(db, CurrentIds(db, st, row, team))
PriorGames(db, st, row, team) == NewestFirst(db, PriorIds(db, st, row, team))

PointsFor(row, team) == IF team = row.home THEN row.score[1] ELSE row.score[2]
PointsAgainst(row, team) == PointsFor(row, Opponent(row, team))

Lost(st, g, team) == (CHOOSE s \in st : s.ext = g /\ s.team = team).lost

(* A win counts 2, a tie 1.                                                *)
WinPoints(row, team) ==
    IF PointsFor(row, team) > PointsAgainst(row, team) THEN 2
    ELSE IF PointsFor(row, team) = PointsAgainst(row, team) THEN 1 ELSE 0

Average(values) ==
    LET sum[n \in 0 .. Len(values)] == IF n = 0 THEN 0 ELSE sum[n - 1] + values[n]
    IN  IF values = <<>> THEN <<>> ELSE <<sum[Len(values)], Len(values)>>

(* _aggregate_team_games and _aggregate_channel *)
Aggregate(db, st, team, seq) ==
    [games |-> Len(seq),
     wins |-> Average([n \in DOMAIN seq |-> WinPoints(db[seq[n]], team)]),
     margin |-> Average([n \in DOMAIN seq |->
                           PointsFor(db[seq[n]], team) - PointsAgainst(db[seq[n]], team)]),
     turnovers |-> Average([n \in DOMAIN seq |->
                           Lost(st, seq[n], Opponent(db[seq[n]], team)) - Lost(st, seq[n], team)])]

(* A difference is missing when one of the two averages is.                *)
Difference(a, b) ==
    IF a = <<>> \/ b = <<>> THEN <<>>
    ELSE <<a[1] * b[2] - b[1] * a[2], a[2] * b[2]>>

(* select_nfl_moneyline_route: the mature model needs enough games of both *)
(* teams.                                                                  *)
Route(homeGames, awayGames) ==
    IF homeGames >= MatureGames /\ awayGames >= MatureGames THEN "mature" ELSE "early"

SelectedRoute(db, st, row) ==
    Route(Cardinality(CurrentIds(db, st, row, row.home)),
          Cardinality(CurrentIds(db, st, row, row.away)))

(* Home against away, in the order of the model's columns.                 *)
Differences(home, away) ==
    <<home.games - away.games, Difference(home.wins, away.wins),
      Difference(home.margin, away.margin), Difference(home.turnovers, away.turnovers)>>

(* _build_early_values: the channel of the season before, alone.           *)
EarlyValues(db, st, row) ==
    Differences(Aggregate(db, st, row.home, PriorGames(db, st, row, row.home)),
                Aggregate(db, st, row.away, PriorGames(db, st, row, row.away)))

Latest(seq, n) == SubSeq(seq, 1, IF Len(seq) < n THEN Len(seq) ELSE n)

(* _build_mature_values: the current season, and its last games again.     *)
MatureValues(db, st, row) ==
    LET home == CurrentGames(db, st, row, row.home)
        away == CurrentGames(db, st, row, row.away)
        over(h, a) == Differences(Aggregate(db, st, row.home, h), Aggregate(db, st, row.away, a))
    IN  over(home, away) \o over(Latest(home, 3), Latest(away, 3))
        \o over(Latest(home, 5), Latest(away, 5))

(* _infer_nfl_moneyline, up to the frozen model: the route, the values and *)
(* the trace of the games they come from.                                  *)
Inference(db, st, row) ==
    LET route == SelectedRoute(db, st, row)
    IN  [route |-> route,
         values |-> IF route = "early" THEN EarlyValues(db, st, row) ELSE MatureValues(db, st, row),
         trace |-> CurrentSources(db, st, row)
                   \cup (IF route = "early" THEN PriorSources(db, st, row) ELSE {})]
=============================================================================
