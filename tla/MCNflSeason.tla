---------------------------- MODULE MCNflSeason ----------------------------
(* Two games of the season to come, three of the season before, which is   *)
(* the final holdout, and three or four of each season before that.        *)
EXTENDS NflSeason

Game(ext, season, week, home, away, kickoff, score) ==
    [ext |-> ext, season |-> season, type |-> "REG", week |-> week,
     home |-> home, away |-> away, kickoff |-> kickoff, score |-> score]

Earlier == Game(1, 25, 17, "A", "B", 0, <<2, 1>>)
Opener == Game(2, 26, 1, "A", "B", 4, <<>>)
Return2 == Game(3, 26, 2, "B", "A", 5, <<>>)

(* A season is opened, and then played on by teams with a history.         *)
Past(season, n, home, away, score) ==
    LET number == 3 * (season - 21) + n
    IN  Game(100 + number, season, n + 1, home, away, 2 * number - 32, score)
Later2 == Past(24, 2, "B", "A", <<1, 0>>)
Played21to24 == {
    Past(21, 0, "B", "A", <<2, 1>>),
    Past(21, 1, "A", "B", <<1, 0>>), Past(21, 2, "B", "A", <<0, 2>>), Past(21, 3, "A", "B", <<3, 1>>),
    Past(22, 1, "B", "A", <<1, 2>>), Past(22, 2, "A", "B", <<2, 0>>), Past(22, 3, "B", "A", <<0, 1>>),
    Past(23, 1, "A", "B", <<3, 0>>), Past(23, 2, "B", "A", <<2, 1>>), Past(23, 3, "A", "B", <<0, 1>>),
    Past(24, 1, "B", "A", <<0, 1>>), Later2, Past(24, 3, "A", "B", <<1, 0>>)}
Played25 == {Past(25, 1, "A", "B", <<1, 2>>), Past(25, 2, "B", "A", <<1, 1>>)}
MCStored == Played21to24 \cup Played25 \cup {Earlier, Opener, Return2}

Line(row, team, opponent, lost) ==
    [ext |-> row.ext, season |-> row.season, type |-> row.type, week |-> row.week,
     team |-> team, opponent |-> opponent, lost |-> lost]
Lines(row) == {Line(row, row.home, row.away, 1), Line(row, row.away, row.home, row.ext % 2)}
MCStoredStats == UNION {Lines(row) : row \in Played21to24 \cup Played25 \cup {Earlier}}

Moved == {[Opener EXCEPT !.kickoff = 3], Return2}
Played == {[Opener EXCEPT !.score = <<0, 1>>]}
PlayedEarlier == {[Opener EXCEPT !.kickoff = 3, !.score = <<0, 1>>]}
Corrected == {[Later2 EXCEPT !.score = <<0, 1>>]}
Retimed == {[Later2 EXCEPT !.kickoff = @ - 1]}
MCSchedules == {Moved, Played, PlayedEarlier, Corrected, Retimed}
MCStatistics == {{Line(Opener, "A", "B", 0), Line(Opener, "B", "A", 1)}, Lines(Later2)}
MCCommandOf == [i \in Importers |-> IF i = "future" THEN "future" ELSE "backfill"]

Slate(key, until) == [key |-> key, type |-> "official", from |-> 1, until |-> until]
MCRequestOf == [p \in Predictors |->
    IF p = "p2" THEN Slate("week1to2", 6) ELSE Slate("week1", 5)]

MCHomeProbability(inference) == IF inference.route = "early" THEN 55 ELSE 40

MCDateOf == [c \in Captures |->
    IF c = "c3" THEN [from |-> 5, until |-> 6] ELSE [from |-> 3, until |-> 5]]

Book(book, updated, home, away) == [book |-> book, updated |-> updated, home |-> home, away |-> away]
Event(id, home, away, start, books) ==
    [id |-> id, home |-> home, away |-> away, start |-> start, books |-> books]
Books == {Book(1, 2, -110, -110), Book(2, 2, -120, 100)}
MCAnswers == {
    {Event("x", "A", "B", 4, Books)},
    {Event("x", "A", "B", 4, Books \cup {Book(3, 0, -105, -115)})},
    {Event("x", "B", "A", 5, Books)},
    {Event("x", "A", "B", 4, Books), Event("y", "A", "B", 3, {Book(1, 2, -110, -110)})}}

(* Percent of home wins among the rows that are fitted, corrected by the   *)
(* difference of points of the game.                                       *)
HomeWins(rows) == Cardinality({i \in DOMAIN rows : rows[i].won})
MCForecast(rows, values) ==
    (100 * HomeWins(rows)) \div Len(rows)
    + (IF values[3] = <<>> THEN 0 ELSE IF values[3][1] > 0 THEN 20 ELSE IF values[3][1] < 0 THEN -20 ELSE 0)
Error(forecast) == IF forecast[2] THEN 100 - forecast[1] ELSE forecast[1]
Missed(forecast) == (forecast[1] >= 50) # forecast[2]
MCMeasures(forecasts) ==
    LET n == Len(forecasts)
        loss == FoldSeq(LAMBDA f, sum : sum + Error(f), 0, forecasts)
        squares == FoldSeq(LAMBDA f, sum : sum + Error(f) * Error(f), 0, forecasts)
        missed == Cardinality({i \in DOMAIN forecasts : Missed(forecasts[i])})
    IN  <<loss \div n, squares \div n, squares \div n, (100 * missed) \div n>>

MCDevelopmentFolds == <<<<21, 22>>, <<22, 23>>, <<23, 24>>>>
MCEarlyFolds == <<<<23, 24>>>>
MCPolicies == <<0, 1, 2>>
MCEvidenceFolds ==
    {[route |-> "mature", last |-> l, score |-> l + 1] : l \in 21 .. 23}
    \cup {[route |-> "early", last |-> 23, score |-> 24]}
MCResearchOf == [r \in Researchers |->
    IF r \in {"x1", "x2"} THEN "export" ELSE r]
MCFolderOf == [r \in Researchers |-> "evidence"]

(* Nothing in the research reads the clock.                                *)
OnForwardSeason == {
    {"p1", "p2", "future"}, {"p1", "p3", "backfill"}, {"p1", "future", "backfill"},
    {"p1", "c1", "e1", "e2"}, {"p1", "c1", "future", "e1"}, {"c1", "c2", "future"}, {"c1", "c3"}}
OnAllSeasons == {
    {"develop", "early", "backfill"}, {"holdout", "rebuild", "backfill"}, {"freeze", "backfill"},
    {"x1", "x2", "backfill"}, {"x1", "rebuild", "backfill"}}
MCCrews ==
    {[who |-> w, since |-> 25, until |-> 5] : w \in OnForwardSeason}
    \cup {[who |-> w, since |-> 21, until |-> 1] : w \in OnAllSeasons}
    \cup {[who |-> {"x1", "p1"}, since |-> 21, until |-> 3]}
MCRaceCrews == {[who |-> {"future", "backfill"}, since |-> 25, until |-> 5]}
=============================================================================
