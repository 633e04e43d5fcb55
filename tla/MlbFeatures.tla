---------------------------- MODULE MlbFeatures ----------------------------
(***************************************************************************)
(* The features of one game as of a cutoff (features/provider.py,          *)
(* features/generation_service.py, features/builders/*, the three          *)
(* statistics repositories).  A feature is a total over the rows of its    *)
(* window and the number of rows it is taken over; the vector also keeps   *)
(* the games it was drawn from.                                            *)
(***************************************************************************)
EXTENDS MlbCompleteness

CONSTANTS
    ShortWindow,    \* LAST_5_WINDOW_SIZE, LAST_10_WINDOW_SIZE
    Scale,          \* averages are kept in units of 1 / Scale
    SeasonTicks,    \* ticks of a season: the calendar year of a time
    Missing         \* the value of a feature that is not there

ASSUME FeaturesAssumption == {ShortWindow, Scale, SeasonTicks} \subseteq Nat \ {0}

NoStarter == 0
SameSeason(t, u) == t \div SeasonTicks = u \div SeasonTicks

(* What the queries of the repositories let through: games that had begun, *)
(* rows that were stored, by the cutoff.                                   *)
Visible(rows, cutoff) ==
    {r \in rows : games[r.game].start < cutoff /\ Plays(r.team, r.game) /\ r.created <= cutoff}

GamesOf(rows) == {r.game : r \in rows}
Within(rows, n) == {r \in rows : r.game \in Newest(GamesOf(rows), n)}

(* get_completed_games_before, get_completed_starts_before and             *)
(* get_completed_relief_appearances_before.                                *)
TeamGames(team, cutoff) ==
    Within({t \in Visible(teamStats, cutoff) : t.team = team}, TeamGameLimit)
Starts(player, cutoff) ==
    Within({p \in Visible(pitching, cutoff) : p.player = player /\ p.order = 1}, StartLimit)
Relief(team, cutoff) ==
    {p \in Visible(pitching, cutoff) :
        p.team = team /\ p.order # 1 /\ SameSeason(games[p.game].start, cutoff)}

Runs(rows) == MapThenSumSet(LAMBDA t : t.runs, rows)
Allowed(rows) == MapThenSumSet(LAMBDA t : t.allowed, rows)
Total(count, sum) == [count |-> count, sum |-> sum]

Batting(team, cutoff) ==
    LET all == TeamGames(team, cutoff)
        last == Within(all, ShortWindow)
    IN  [season |-> Total(Cardinality(all), Runs(all)), last |-> Total(Cardinality(last), Runs(last))]

TeamPitching(team, cutoff) ==
    LET all == TeamGames(team, cutoff)
        last == Within(all, ShortWindow)
    IN  [season |-> Total(Cardinality(all), Allowed(all)), last |-> Total(Cardinality(last), Allowed(last))]

(* Relievers of the last games, of yesterday, and of both of the last two. *)
Bullpen(team, cutoff) ==
    LET relief == Relief(team, cutoff)
        history == GamesOf(TeamGames(team, cutoff))
        last == {p \in relief : p.game \in Newest(history, ShortWindow)}
        used(n) == {p.player : p \in {x \in relief :
                       x.game \in Newest(history, n) \ Newest(history, n - 1)}}
    IN  [season |-> Total(Cardinality(relief), Allowed(relief)),
         last |-> Total(Cardinality(last), Allowed(last)),
         recent |-> Allowed({p \in relief : games[p.game].start >= cutoff - DayTicks}),
         previous |-> Cardinality(used(1)),
         backToBack |-> Cardinality(used(1) \cap used(2))]

(* The days between two games, without the days of the games.              *)
DaysBetween(first, second) ==
    IF Today(second) > Today(first) THEN Today(second) - Today(first) - 1 ELSE 0

(* A starter nobody has named has features of his own: none. *)
Starter(player, start, cutoff) ==
    LET starts == Starts(player, cutoff)
        season == {p \in starts : SameSeason(games[p.game].start, start)}
        last == Within(starts, ShortWindow)
    IN  IF player = NoStarter THEN [available |-> FALSE]
        ELSE [available |-> TRUE,
              season |-> Total(Cardinality(season), Allowed(season)),
              last |-> Total(Cardinality(last), Allowed(last)),
              rest |-> {DaysBetween(games[p.game].start, start) : p \in Within(starts, 1)}]

(* A cutoff after the start of the game is refused. *)
ValidContext(start, cutoff) == cutoff <= start

(* generate_for_game_record for a game at its start, as the caller read it.*)
FeatureVector(orient, start, cutoff, starters) ==
    [home |-> [batting |-> Batting(orient[1], cutoff), pitching |-> TeamPitching(orient[1], cutoff),
               bullpen |-> Bullpen(orient[1], cutoff), starter |-> Starter(starters[1], start, cutoff)],
     away |-> [batting |-> Batting(orient[2], cutoff), pitching |-> TeamPitching(orient[2], cutoff),
               bullpen |-> Bullpen(orient[2], cutoff), starter |-> Starter(starters[2], start, cutoff)],
     drawn |-> [n \in {1, 2} |-> GamesOf(TeamGames(orient[n], cutoff))]]

(* flatten_game_feature_vector: a value of each name for each side; an     *)
(* average over nothing is missing.                                        *)
Average(total) == IF total.count = 0 THEN Missing ELSE (total.sum * Scale) \div total.count

FlatSide(side) ==
    [runs |-> Average(side.batting.season), runsLast |-> Average(side.batting.last),
     allowed |-> Average(side.pitching.season), allowedLast |-> Average(side.pitching.last),
     bullpen |-> Average(side.bullpen.season), bullpenLast |-> Average(side.bullpen.last),
     recent |-> side.bullpen.recent, previous |-> side.bullpen.previous,
     backToBack |-> side.bullpen.backToBack,
     starter |-> IF side.starter.available THEN Average(side.starter.season) ELSE Missing,
     starterLast |-> IF side.starter.available THEN Average(side.starter.last) ELSE Missing,
     rest |-> IF side.starter.available /\ side.starter.rest # {}
              THEN CHOOSE n \in side.starter.rest : TRUE ELSE Missing]

Flatten(vector) == [home |-> FlatSide(vector.home), away |-> FlatSide(vector.away)]
=============================================================================
