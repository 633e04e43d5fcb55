-------------------------- MODULE CanonicalGames --------------------------
(***************************************************************************)
(* Canonical game identity: which row of "games" an event of a provider    *)
(* belongs to (ingest/game_matching.py), and which shared sportsbook a     *)
(* provider's bookmaker key belongs to (ingest/odds_provenance.py).        *)
(*                                                                         *)
(* These are operators on the rows a transaction sees:                     *)
(*   games   - a function from game ids to [orient, start]; "orient" is    *)
(*             the ordered pair (home, away), "start" a time in ticks;     *)
(*   sources - the rows [source, ext, game] of game_sources.               *)
(* A resolution is a set: the one game found or to be inserted, or {} when *)
(* the code raises CanonicalGameIdentityConflictError and changes nothing. *)
(***************************************************************************)
EXTENDS Integers, FiniteSets

CONSTANTS
    DayTicks,       \* ticks of a Pacific day
    Tolerance       \* DEFAULT_GAME_TIME_TOLERANCE, in ticks

ASSUME CanonicalAssumption == /\ DayTicks \in Nat \ {0}
                              /\ Tolerance \in Nat

Day(t) == t \div DayTicks

(* The provider of odds, and the authority on the schedule and results. *)
Odds == "odds_api"
Mlb == "mlb_stats"
Sources == {Odds, Mlb}

MappedTo(sources, source, ext) ==
    {s.game : s \in {x \in sources : x.source = source /\ x.ext = ext}}

MappedBy(sources, g, source) ==
    \E s \in sources : s.game = g /\ s.source = source

SameOrientation(games, orient) == {g \in DOMAIN games : games[g].orient = orient}

Nearby(games, ev) ==
    {g \in SameOrientation(games, ev.orient) :
        ev.start - Tolerance <= games[g].start /\ games[g].start <= ev.start + Tolerance}

SameDate(games, sources, ev, source) ==
    {g \in SameOrientation(games, ev.orient) :
        /\ Day(games[g].start) = Day(ev.start)
        /\ \E s \in sources : s.game = g
        /\ ~MappedBy(sources, g, source)}

(* Mutant: the orientation of a mapped game is not compared. *)
KeepMappingAnyOrientation(games, mapped, ev) == {g \in mapped : Nearby(games, ev) \subseteq {g}}

(* A mapping that exists is kept, unless the event has become the event of *)
(* another orientation or another game stands at its time.                 *)
KeepMapping(games, mapped, ev) ==
    {g \in mapped : /\ games[g].orient = ev.orient
                    /\ Nearby(games, ev) \subseteq {g}}

(* The candidates of an unmapped event, from the first rule that has any.  *)
Candidates(games, sources, source, ev) ==
    LET authoritative == IF source = Odds
                         THEN {g \in Nearby(games, ev) : MappedBy(sources, g, Mlb)}
                         ELSE {}
        unmapped == {g \in Nearby(games, ev) : ~MappedBy(sources, g, source)}
    IN  IF authoritative # {} THEN authoritative
        ELSE IF unmapped # {} THEN unmapped
        ELSE SameDate(games, sources, ev, source)

(* get_or_create_canonical_game; "fresh" is the id of the row it inserts   *)
(* when no game qualifies.                                                 *)
Resolve(games, sources, source, ev, fresh) ==
    LET mapped == MappedTo(sources, source, ev.ext)
        found == Candidates(games, sources, source, ev)
    IN  IF mapped # {} THEN KeepMapping(games, mapped, ev)
        ELSE IF found = {} THEN {fresh}
        ELSE IF Cardinality(found) = 1 THEN found
        ELSE {}

(* get_or_create_authoritative_source_game: an identity the authority has  *)
(* issued is trusted as it stands, whatever stands near it.                *)
ResolveAuthoritative(games, sources, source, ev, fresh) ==
    LET mapped == MappedTo(sources, source, ev.ext)
    IN  IF mapped = {} THEN Resolve(games, sources, source, ev, fresh)
        ELSE IF Cardinality(mapped) > 1 THEN {}
        ELSE {g \in mapped : games[g].orient = ev.orient}

(* The schedule's feed overwrites the time of the game it resolved.        *)
UpdateCanonicalGame(games, g, ev) ==
    [x \in DOMAIN games \cup {g} |->
        IF x = g THEN [orient |-> ev.orient, start |-> ev.start] ELSE games[x]]

(* resolve_provider_sportsbook on the rows [key, book] of the identities:  *)
(* a key that is known keeps its sportsbook whatever its title is now; a   *)
(* new key takes the sportsbook of that title unless another key has it.   *)
ResolveBook(identities, key, title) ==
    LET known == {i.book : i \in {x \in identities : x.key = key}}
    IN  IF known # {} THEN known
        ELSE IF \E i \in identities : i.book = title THEN {}
        ELSE {title}
=============================================================================
