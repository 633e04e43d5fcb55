----------------------------- MODULE MlbResults -----------------------------
(***************************************************************************)
(* Results and box scores of one schedule date: the results of the date    *)
(* are stored in one transaction, then every box score is fetched and      *)
(* stored in one of its own (ingest/mlb_stats.py,                          *)
(* ingest/boxscore_ingestion.py, database/boxscore_repository.py).         *)
(*                                                                         *)
(* An event is [ext, orient, start, final, score, probable]; a box score   *)
(* is [ext, sides], sides = the home and the away side, each               *)
(* [team, runs, allowed, pitchers], and a pitcher is [ext, allowed], with  *)
(* allowed = NoLine when the provider lists him without statistics.        *)
(***************************************************************************)
EXTENDS MlbRosters, CanonicalGames, SequencesExt

CONSTANTS
    Ingesters,      \* processes that backfill one date of results
    DateOfIngest,   \* Ingesters -> the schedule date
    Reingest,       \* those that ingest complete box scores again
    SchedulesOf(_), \* date -> the answers the schedule may have: Seq(event)
    BoxScores,      \* the box scores the provider may answer with
    StoredGames,    \* the games there are at the start,
    StoredSources,  \* their identities
    StoredHistory   \* and what is known of them: [results, teamStats, pitching]

IsSeq(s) == s \in Seq({s[n] : n \in DOMAIN s})

ASSUME ResultsAssumption ==
    /\ Ingesters \subseteq Syncers /\ Reingest \subseteq Ingesters
    /\ \A i \in Ingesters : \A a \in SchedulesOf(DateOfIngest[i]) :
          IsSeq(a) /\ \A n \in DOMAIN a : a[n].start \in Int
    /\ \A b \in BoxScores, s \in {1, 2} : IsSeq(b.sides[s].pitchers)

(* Games are numbered as they are inserted and have a time; an identity    *)
(* and a row of statistics is of a game that is there, and a team has one  *)
(* row in a game (the keys of the tables).                                 *)
ASSUME StoredAssumption ==
    /\ IsFiniteSet(DOMAIN StoredGames) /\ DOMAIN StoredGames = 1 .. Cardinality(DOMAIN StoredGames)
    /\ \A g \in DOMAIN StoredGames : StoredGames[g].start \in Int
    /\ \A s \in StoredSources : s.game \in DOMAIN StoredGames
    /\ \A t \in StoredHistory.teamStats : t.game \in DOMAIN StoredGames
    /\ \A t, u \in StoredHistory.teamStats : t.game = u.game /\ t.team = u.team => t = u

NoLine == -1
NoBox == [ext |-> 0, sides |-> <<>>]

VARIABLES
    games, sources, \* as in CanonicalGames
    results,        \* historical_games: ext -> [game, date, score, by]
    teamStats,      \* [game, team, home, runs, allowed, created, by]
    pitching,       \* [game, team, player, order, allowed, created, by]
    locked,         \* games whose rows a recovery has locked
    ingest          \* [at, answer, refs, box, retryable, permanent]

historyVars == <<games, sources, results, teamStats, pitching>>
resultsVars == <<historyVars, ingest>>

Idle == [at |-> "idle", answer |-> <<>>, refs |-> <<>>, box |-> NoBox,
         retryable |-> FALSE, permanent |-> FALSE]

ResultsInit ==
    /\ games = StoredGames /\ sources = StoredSources
    /\ results = StoredHistory.results
    /\ teamStats = StoredHistory.teamStats
    /\ pitching = StoredHistory.pitching
    /\ locked = {}
    /\ ingest = [i \in Ingesters |-> Idle]

ExtOf(g) == {s.ext : s \in {x \in sources : x.game = g /\ x.source = Mlb}}
Fresh(all) == 1 + Cardinality(DOMAIN all)

(***************************************************************************)
(* The transaction of a date.                                              *)
(***************************************************************************)
(* One result: its canonical game is resolved, or created, under the       *)
(* authority of the provider; a game has one result and a provider's event *)
(* has one.                                                                *)
SaveHistoricalResult(tx, e) ==
    LET found == ResolveAuthoritative(tx.games, tx.sources, Mlb, e, Fresh(tx.games))
        g == CHOOSE x \in found : TRUE
        taken == \E x \in DOMAIN tx.results : x # e.ext /\ tx.results[x].game = g
        row == [game |-> g, date |-> tx.date, score |-> e.score, by |-> tx.by]
    IN  IF found = {} \/ taken THEN [tx EXCEPT !.ok = FALSE]
        ELSE [tx EXCEPT
              !.games = [x \in DOMAIN tx.games \cup {g} |->
                  IF x \in DOMAIN tx.games THEN tx.games[x]
                  ELSE [orient |-> e.orient, start |-> e.start]],
              !.sources = @ \cup {[source |-> Mlb, ext |-> e.ext, game |-> g]},
              !.results = [x \in DOMAIN tx.results \cup {e.ext} |->
                  IF x = e.ext THEN row ELSE tx.results[x]],
              !.refs = Append(@, <<g, e.ext>>)]

(* Games that are not final are passed over; the first that fails ends it. *)
Finalized(e) == e.final
ProcessGame(tx, e) == IF tx.ok /\ Finalized(e) THEN SaveHistoricalResult(tx, e) ELSE tx

DateTransaction(i) ==
    FoldLeft(ProcessGame,
             [ok |-> TRUE, games |-> games, sources |-> sources, results |-> results,
              refs |-> <<>>, date |-> DateOfIngest[i], by |-> i],
             ingest[i].answer)

(***************************************************************************)
(* The steps of a date.                                                    *)
(***************************************************************************)
SetIngest(i, changes) ==
    ingest' = [ingest EXCEPT ![i] = [f \in DOMAIN @ |-> IF f \in DOMAIN changes THEN changes[f] ELSE @[f]]]

(* The provider calls no game final before it has begun. *)
Answers(date) ==
    {a \in SchedulesOf(date) : \A n \in DOMAIN a : a[n].final => a[n].start < clock}

FetchSchedule(i) ==
    /\ ingest[i].at = "idle"
    /\ \/ \E a \in Answers(DateOfIngest[i]) : SetIngest(i, [at |-> "store", answer |-> a])
       \/ SetIngest(i, [at |-> "done", retryable |-> TRUE])
       \/ SetIngest(i, [at |-> "done", permanent |-> TRUE])
    /\ UNCHANGED <<historyVars, locked, playerVars>>

(* All results of the date, or none; a row a recovery has locked is waited *)
(* for.                                                                    *)
StoreResults(i) ==
    /\ ingest[i].at = "store"
    /\ LET tx == DateTransaction(i)
       IN  IF tx.ok
           THEN /\ {r[1] : r \in {tx.refs[n] : n \in DOMAIN tx.refs}} \cap locked = {}
                /\ games' = tx.games /\ sources' = tx.sources /\ results' = tx.results
                /\ SetIngest(i, [at |-> "check", refs |-> tx.refs])
           ELSE /\ SetIngest(i, [at |-> "done", permanent |-> TRUE])
                /\ UNCHANGED <<games, sources, results>>
    /\ UNCHANGED <<teamStats, pitching, locked, playerVars>>

(* A box score counts as stored when the game has two team rows and two    *)
(* starters; what they say is not compared with anything.                  *)
BoxScoreComplete(g) ==
    /\ g \in DOMAIN games
    /\ Cardinality({t \in teamStats : t.game = g}) = 2
    /\ Cardinality({p \in pitching : p.game = g /\ p.order = 1}) = 2

SkipComplete(i) ==
    /\ ingest[i].at = "check"
    /\ \/ SetIngest(i, [at |-> "boxes",
              refs |-> IF i \in Reingest THEN ingest[i].refs
                       ELSE SelectSeq(ingest[i].refs, LAMBDA r : ~BoxScoreComplete(r[1]))])
       \/ /\ i \notin Reingest /\ ingest[i].refs # <<>>
          /\ SetIngest(i, [at |-> "done", permanent |-> TRUE])
    /\ UNCHANGED <<historyVars, locked, playerVars>>

PlayersOf(box) == UNION {{p.ext : p \in ToSet(box.sides[s].pitchers)} : s \in {1, 2}}

(* The box score is fetched, and the players it names that are not known   *)
(* are to be synchronized first.                                           *)
FetchBoxScore(i) ==
    /\ ingest[i].at = "boxes" /\ ingest[i].refs # <<>>
    /\ \/ \E b \in BoxScores :
             /\ b.ext = Head(ingest[i].refs)[2]
             /\ SetIngest(i, [at |-> "players", box |-> b])
             /\ toSync' = [toSync EXCEPT ![i] = PlayersOf(b) \ Known(PlayersOf(b))]
       \/ \E retry \in BOOLEAN :
             /\ SetIngest(i, [refs |-> Tail(ingest[i].refs),
                              retryable |-> ingest[i].retryable \/ retry,
                              permanent |-> ingest[i].permanent \/ ~retry])
             /\ UNCHANGED toSync
    /\ UNCHANGED <<historyVars, locked, players, playerIds, unlinked>>

SyncBoxPlayer(i) ==
    /\ ingest[i].at = "players" /\ SyncPlayer(i)
    /\ UNCHANGED <<resultsVars, locked>>

(* ON CONFLICT DO UPDATE keeps the time a row was created.                 *)
Upsert(rows, new, key) ==
    LET Stored(n) == {r \in rows : r.game = n.game /\ r[key] = n[key]}
    IN  (rows \ UNION {Stored(n) : n \in new}) \cup
        {[n EXCEPT !.created = IF Stored(n) = {} THEN @ ELSE (CHOOSE r \in Stored(n) : TRUE).created] :
            n \in new}

TeamRows(box, g, by, at) ==
    {[game |-> g, team |-> box.sides[s].team, home |-> s = 1, runs |-> box.sides[s].runs,
      allowed |-> box.sides[s].allowed, created |-> at, by |-> by] : s \in {1, 2}}

(* The pitchers of the away side, then those of the home side, each in his *)
(* place; one without statistics keeps his place, and has no row.          *)
PitchingLines(box, g, ids, by, at) ==
    LET lines(s) == [n \in DOMAIN box.sides[s].pitchers |->
            [game |-> g, team |-> box.sides[s].team, player |-> ids[box.sides[s].pitchers[n].ext],
             order |-> n, allowed |-> box.sides[s].pitchers[n].allowed, created |-> at, by |-> by]]
    IN  lines(2) \o lines(1)

PitchingRows(box, g, ids, by, at) ==
    {n \in ToSet(PitchingLines(box, g, ids, by, at)) : n.allowed # NoLine}

(* One after another: two pitchers of a team cannot have one place in a    *)
(* game, not even until the second is updated.                             *)
SavePitcher(saved, n) ==
    IF n.allowed = NoLine THEN saved
    ELSE IF \E r \in saved.rows : r.game = n.game /\ r.team = n.team /\ r.order = n.order
                                  /\ r.player # n.player
    THEN [saved EXCEPT !.ok = FALSE]
    ELSE [saved EXCEPT !.rows = Upsert(@, {n}, "player")]

SavePitchers(lines) == FoldLeft(SavePitcher, [ok |-> TRUE, rows |-> pitching], lines)

(* The rows of a game that is there are inserted or updated in one         *)
(* transaction; a pitcher an earlier box score named and this one does not *)
(* keeps his row.                                                          *)
SaveBoxScore(i) ==
    /\ ingest[i].at = "players" /\ PlayersSynced(i)
    /\ LET b == ingest[i].box
           g == Head(ingest[i].refs)[1]
           saved == SavePitchers(PitchingLines(b, g, playerIds, i, clock))
       IN  IF PlayersOf(b) \subseteq DOMAIN playerIds /\ g \in DOMAIN games /\ saved.ok
           THEN /\ g \notin locked
                /\ teamStats' = Upsert(teamStats, TeamRows(b, g, i, clock), "team")
                /\ pitching' = saved.rows
                /\ SetIngest(i, [at |-> "boxes", box |-> NoBox, refs |-> Tail(ingest[i].refs)])
           ELSE /\ SetIngest(i, [at |-> "boxes", box |-> NoBox, refs |-> Tail(ingest[i].refs),
                                 permanent |-> TRUE])
                /\ UNCHANGED <<teamStats, pitching>>
    /\ UNCHANGED <<games, sources, results, locked, playerVars>>

(* A player somebody else has linked in between fails the box score.       *)
BoxScoreFails(i) ==
    /\ ingest[i].at = "players" /\ LinkRaises(i)
    /\ SetIngest(i, [at |-> "boxes", box |-> NoBox, refs |-> Tail(ingest[i].refs), permanent |-> TRUE])
    /\ ForgetPlayers(i)
    /\ UNCHANGED <<historyVars, locked>>

DateEnds(i) ==
    /\ ingest[i].at = "boxes" /\ ingest[i].refs = <<>>
    /\ SetIngest(i, [at |-> "done", answer |-> <<>>])
    /\ UNCHANGED <<historyVars, locked, playerVars>>

IngesterDies(i) ==
    /\ ingest[i].at \notin {"idle", "done"}
    /\ ingest' = [ingest EXCEPT ![i] = [Idle EXCEPT !.at = "done"]]
    /\ ForgetPlayers(i)
    /\ UNCHANGED <<historyVars, locked>>

(* The exit code a scheduled backfill is retried for.                      *)
FailuresAreRetryable(i) == ingest[i].retryable /\ ~ingest[i].permanent

IngestStep(i) ==
    \/ FetchSchedule(i) \/ StoreResults(i) \/ SkipComplete(i) \/ FetchBoxScore(i)
    \/ SyncBoxPlayer(i) \/ SaveBoxScore(i) \/ BoxScoreFails(i) \/ DateEnds(i) \/ IngesterDies(i)
=============================================================================
