-------------------------- MODULE MlbCompleteness --------------------------
(***************************************************************************)
(* Whether the history the features of a game are taken from is complete   *)
(* (database/mlb_completeness_repository.py): fail closed, as of a cutoff. *)
(* Operators on one read of the database.                                  *)
(***************************************************************************)
EXTENDS MlbResults

CONSTANTS
    TeamGameLimit,  \* FEATURE_TEAM_GAME_LIMIT
    StartLimit      \* FEATURE_START_LIMIT

ASSUME CompletenessAssumption == TeamGameLimit \in Nat \ {0} /\ StartLimit \in Nat \ {0}

(* The order of every history: newest first, then by id. *)
Later(g, h) == games[g].start > games[h].start \/ (games[g].start = games[h].start /\ g > h)
Newest(set, n) == {g \in set : Cardinality({h \in set : Later(h, g)}) < n}

Plays(team, g) == team \in {games[g].orient[1], games[g].orient[2]}
Begun(cutoff) == {g \in DOMAIN games : games[g].start < cutoff}

(* A target, or a required game, has one mapping and is mapped by it alone.*)
IdentityIssue(ext) ==
    ~ /\ Cardinality(MappedTo(sources, Mlb, ext)) = 1
      /\ \A g \in MappedTo(sources, Mlb, ext) : \A s \in sources :
            s.game = g /\ s.source = Mlb => s.ext = ext

TotalAllowed(rows) == MapThenSumSet(LAMBDA p : p.allowed, rows)

(* Both sides, each with the runs the result gives it and its opponent.    *)
TeamsComplete(g, rows, scores) ==
    /\ Cardinality(rows) = 2
    /\ {<<t.team, t.home>> : t \in rows} = {<<games[g].orient[1], TRUE>>, <<games[g].orient[2], FALSE>>}
    /\ \A score \in scores, t \in rows :
          IF t.home THEN t.runs = score[1] /\ t.allowed = score[2]
          ELSE t.runs = score[2] /\ t.allowed = score[1]

(* Each side has one starter, no gap among those who followed him, and     *)
(* pitchers who add up to the team.                                        *)
PitchingComplete(g, teams, rows) ==
    /\ {p.team : p \in rows} \subseteq {games[g].orient[1], games[g].orient[2]}
    /\ \A n \in {1, 2} :
          LET own == {p \in rows : p.team = games[g].orient[n]}
          IN  /\ own # {}
              /\ {p.order : p \in own} = 1 .. Cardinality(own)
              /\ \A t \in teams : t.team = games[g].orient[n] => t.allowed = TotalAllowed(own)

(* Mutant: rows count whenever they were stored. *)
GameCompleteByNow(ext, asOf) ==
    /\ ~IdentityIssue(ext)
    /\ LET g == CHOOSE x \in MappedTo(sources, Mlb, ext) : TRUE
           teams == {t \in teamStats : t.game = g}
       IN  /\ {x \in DOMAIN results : x = ext \/ results[x].game = g} = {ext} /\ results[ext].game = g
           /\ TeamsComplete(g, teams, {results[ext].score})
           /\ PitchingComplete(g, teams, {p \in pitching : p.game = g})

(* What was stored after the cutoff does not count. *)
GameComplete(ext, asOf) ==
    /\ ~IdentityIssue(ext)
    /\ LET g == CHOOSE x \in MappedTo(sources, Mlb, ext) : TRUE
           about == {x \in DOMAIN results : x = ext \/ results[x].game = g}
           teams == {t \in teamStats : t.game = g /\ t.created <= asOf}
           pitchers == {p \in pitching : p.game = g /\ p.created <= asOf}
       IN  /\ about = {ext} /\ results[ext].game = g
           /\ TeamsComplete(g, teams, {results[ext].score})
           /\ PitchingComplete(g, teams, pitchers)

(* The games of the league the features may reach: the newest of each team *)
(* and the newest starts of each starter, whatever became of them.         *)
RequiredGames(teams, starters, cutoff) ==
    LET league == {g \in Begun(cutoff) : MappedBy(sources, g, Mlb)}
        started(p) == {g \in league : \E x \in pitching : x.game = g /\ x.player = p /\ x.order = 1}
    IN  UNION {Newest({g \in league : Plays(t, g)}, TeamGameLimit) : t \in teams} \cup
        UNION {Newest(started(p), StartLimit) : p \in starters}

RequiredExts(teams, starters, cutoff) ==
    {s.ext : s \in {x \in sources :
        x.source = Mlb /\ x.game \in RequiredGames(teams, starters, cutoff)}}

(* assert_mlb_feature_history_complete: the targets have identities, and   *)
(* every game that is required of them is complete.                        *)
TargetTeams(targets) ==
    UNION {{games[g].orient[1], games[g].orient[2]} :
              g \in UNION {MappedTo(sources, Mlb, x) : x \in targets}}

HistoryComplete(targets, starters, cutoff) ==
    /\ \A x \in targets : ~IdentityIssue(x)
    /\ \A x, y \in targets : MappedTo(sources, Mlb, x) = MappedTo(sources, Mlb, y) => x = y
    /\ \A x \in RequiredExts(TargetTeams(targets), starters, cutoff) : GameComplete(x, cutoff)
=============================================================================
