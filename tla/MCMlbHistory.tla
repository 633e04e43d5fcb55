---------------------------- MODULE MCMlbHistory ----------------------------
(* Six games of the past, and a day with two games of the same teams, of   *)
(* which the first has been played.  A tick is six hours.                  *)
EXTENDS MlbHistory

MCToday(t) == (t + 1) \div DayTicks

Past == <<[orient |-> <<"A", "B">>, start |-> 4, score |-> <<2, 1>>],
          [orient |-> <<"B", "A">>, start |-> 8, score |-> <<2, 3>>],
          [orient |-> <<"C", "D">>, start |-> 8, score |-> <<0, 1>>],
          [orient |-> <<"A", "B">>, start |-> 12, score |-> <<1, 0>>],
          [orient |-> <<"D", "C">>, start |-> 12, score |-> <<1, 2>>],
          [orient |-> <<"C", "D">>, start |-> 16, score |-> <<2, 0>>]>>
First == [orient |-> <<"A", "B">>, start |-> 24]
Second == [orient |-> <<"A", "B">>, start |-> 26]

MCStoredGames ==
    [g \in 1 .. 8 |-> IF g = 7 THEN First ELSE IF g = 8 THEN Second
                      ELSE [orient |-> Past[g].orient, start |-> Past[g].start]]
MCStoredSources == {[source |-> Mlb, ext |-> g, game |-> g] : g \in 1 .. 8}

Ace == [A |-> 1, B |-> 2, C |-> 3, D |-> 4]
MCStoredHistory == [
    results |-> [g \in 1 .. 6 |-> [game |-> g, date |-> Day(Past[g].start), score |-> Past[g].score, by |-> "past"]],
    teamStats |-> {[game |-> g, team |-> Past[g].orient[s], home |-> s = 1, runs |-> Past[g].score[s],
                    allowed |-> Past[g].score[3 - s], created |-> Past[g].start + 1, by |-> "past"] :
                       <<g, s>> \in (1 .. 6) \X {1, 2}},
    pitching |-> {[game |-> g, team |-> Past[g].orient[s], player |-> Ace[Past[g].orient[s]], order |-> 1,
                   allowed |-> Past[g].score[3 - s], created |-> Past[g].start + 1, by |-> "past"] :
                       <<g, s>> \in (1 .. 6) \X {1, 2}}]
MCKnownPlayers == 1 .. 4
MCStoredAssignments == {[player |-> 1, team |-> "A", from |-> 5, through |-> NoDay]}

Event(ext, game, final, score, probable) ==
    [ext |-> ext, orient |-> game.orient, start |-> game.start, final |-> final,
     score |-> score, probable |-> probable]
Played == Event(7, First, TRUE, <<2, 1>>, <<0, 0>>)
ToPlay == Event(8, Second, FALSE, <<0, 0>>, <<5, 2>>)
Delayed == Event(7, [First EXCEPT !.start = 25], FALSE, <<0, 0>>, <<1, 2>>)

MCSchedulesOf(date) == {
    <<Played, ToPlay>>, <<[Played EXCEPT !.final = FALSE], ToPlay>>,
    <<[Played EXCEPT !.orient = <<"B", "A">>], ToPlay>>}
MCSlatesOf(date) == {<<Played, ToPlay>>, <<Delayed, ToPlay>>}

Pitched(ext, allowed) == [ext |-> ext, allowed |-> allowed]
Side(team, runs, allowed, pitchers) == [team |-> team, runs |-> runs, allowed |-> allowed, pitchers |-> pitchers]
Box(runs, homePitchers) ==
    [ext |-> 7, sides |-> <<Side("A", runs, 1, homePitchers), Side("B", 1, runs, <<Pitched(2, runs)>>)>>]
MCBoxScores == {Box(2, <<Pitched(1, 1)>>), Box(3, <<Pitched(1, 1)>>),
                Box(2, <<Pitched(5, 0), Pitched(1, 1)>>)}

MCRosterAnswers == {
    [entries |-> {<<"A", 1>>}, whole |-> TRUE], [entries |-> {<<"B", 1>>, <<"A", 5>>}, whole |-> TRUE],
    [entries |-> {<<"B", 1>>}, whole |-> FALSE], [entries |-> {}, whole |-> TRUE]}

MCDate == [x \in Ingesters \cup Recoveries |-> 6]
MCAllowList == [r \in Recoveries |-> {7}]
MCBuildOf == [t \in Trainers |-> 2]
MCCrews == {{"i1", "i2"}, {"i1", "r1"}, {"i1", "p1"}, {"s1", "s2"}, {"s1", "i1"}, {"p1", "r1"},
            {"p1", "p2"}, {"t1", "p1"}, {"t1", "i1"}}
=============================================================================
