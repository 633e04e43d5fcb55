----------------------------- MODULE NflCapture -----------------------------
(***************************************************************************)
(* The manual capture of NFL odds (nfl/manual_odds_capture.py), the        *)
(* identity of a provider's event (nfl/odds_identity.py, migration 029)    *)
(* and the qualification of quotes as official pregame evidence            *)
(* (nfl/official_pregame_evidence.py, migration 030).                      *)
(*                                                                         *)
(* A capture reserves its date, asks the provider once, records the        *)
(* answer, stores the quotes in one transaction and qualifies them in      *)
(* another.  An event is [id, home, away, start, books]; a member of       *)
(* "books" is [book, updated, home, away] with the two prices.             *)
(***************************************************************************)
EXTENDS NflGames

CONSTANTS
    Captures,       \* invocations of the capture command
    DateOf,         \* capture -> [from, until], the ticks of its target date
    Answers,        \* what the provider may answer: sets of events
    Drift           \* NFL_ODDS_KICKOFF_TOLERANCE, in ticks

(* An answer names finitely many bookmakers; the parser of the answer      *)
(* (ingest/odds_api_parser.py) refuses a price that is not a non-zero      *)
(* integer.                                                                *)
ASSUME NflCaptureAssumption ==
    /\ Drift \in Nat
    /\ \A events \in Answers :
          LET books == UNION {ev.books : ev \in events}
          IN  /\ IsFiniteSet({b.book : b \in books})
              /\ \A b \in books : b.book \in Int /\ {b.home, b.away} \subseteq Int \ {0}

VARIABLES
    captureRuns,    \* odds_ingestion_runs of the sport, by capture
    mappings,       \* nfl_odds_provider_event_mappings, by event id
    quotes,         \* odds_market_snapshots
    evidence,       \* nfl_official_pregame_evidence
    capturing,      \* where each capture is
    answer,         \* the events it holds in memory
    calls           \* how often it has called the provider

captureVars == <<captureRuns, mappings, quotes, evidence, capturing, answer, calls>>

NoCapture == [date |-> <<>>, status |-> "none", requested |-> 0, received |-> 0, completed |-> 0]

CaptureInit ==
    /\ captureRuns = [c \in Captures |-> NoCapture]
    /\ mappings = <<>> /\ quotes = {} /\ evidence = {}
    /\ capturing = [c \in Captures |-> "idle"]
    /\ answer = [c \in Captures |-> {}]
    /\ calls = [c \in Captures |-> 0]

CaptureGoto(c, label) == capturing' = [capturing EXCEPT ![c] = label]

(* The date must have future games, all of them of the forward season and  *)
(* none of the preseason.                                                  *)
CaptureTargets(c) ==
    {g \in DOMAIN games : /\ ~Final(games[g]) /\ clock < games[g].kickoff
                          /\ DateOf[c].from <= games[g].kickoff
                          /\ games[g].kickoff < DateOf[c].until}
ScheduleAllows(c) ==
    /\ CaptureTargets(c) # {}
    /\ \A g \in CaptureTargets(c) :
          games[g].season >= ForwardSeason /\ games[g].type \in {"REG", "POST"}

(* The partial unique index over (sport, date) of the entry runs.          *)
Reserved(date) ==
    \E d \in Captures : /\ captureRuns[d].date = date
                        /\ captureRuns[d].status \in {"running", "completed"}

ReserveCapture(c) ==
    /\ capturing[c] = "idle"
    /\ IF ScheduleAllows(c) /\ ~Reserved(DateOf[c])
       THEN /\ captureRuns' = [captureRuns EXCEPT ![c] =
                   [NoCapture EXCEPT !.date = DateOf[c], !.status = "running", !.requested = clock]]
            /\ CaptureGoto(c, "call")
       ELSE CaptureGoto(c, "refused") /\ UNCHANGED captureRuns
    /\ UNCHANGED <<mappings, quotes, evidence, answer, calls>>

(* call_odds_api_once: an exception, or some answer.                       *)
CallProvider(c) ==
    /\ capturing[c] = "call"
    /\ calls' = [calls EXCEPT ![c] = @ + 1]
    /\ \/ CaptureGoto(c, "failing") /\ UNCHANGED answer
       \/ \E events \in Answers :
            answer' = [answer EXCEPT ![c] = events] /\ CaptureGoto(c, "record")
    /\ UNCHANGED <<captureRuns, mappings, quotes, evidence>>

InRequestedWindow(c) ==
    \A ev \in answer[c] : DateOf[c].from <= ev.start /\ ev.start < DateOf[c].until

(* The receipt is committed by itself, whatever was answered; then the     *)
(* status, the body and the window of the answer are checked.              *)
RecordReceipt(c) ==
    /\ capturing[c] = "record"
    /\ \/ /\ captureRuns' = [captureRuns EXCEPT ![c].received = clock]
          /\ \/ InRequestedWindow(c) /\ CaptureGoto(c, "store")
             \/ CaptureGoto(c, "failing")
       \/ CaptureGoto(c, "failing") /\ UNCHANGED captureRuns
    /\ UNCHANGED <<mappings, quotes, evidence, answer, calls>>

(***************************************************************************)
(* The identity of an event.                                               *)
(***************************************************************************)
Within(a, b) == a - b <= Drift /\ b - a <= Drift

(* _choose_canonical_game: one unplayed game of this orientation near its  *)
(* time, or an error.                                                      *)
ChosenGame(db, ev) ==
    LET accepted == {g \in DOMAIN db : /\ db[g].home = ev.home /\ db[g].away = ev.away
                                       /\ ~Final(db[g]) /\ Within(ev.start, db[g].kickoff)}
    IN  IF Cardinality(accepted) = 1 THEN accepted ELSE {}

(* _resolve_existing_mapping: the teams are those of the mapping and of    *)
(* the game, which is unplayed and has not moved away.                     *)
MappedGame(db, maps, ev) ==
    LET m == maps[ev.id]
        row == db[m.game]
    IN  IF /\ m.home = ev.home /\ m.away = ev.away
           /\ row.home = ev.home /\ row.away = ev.away
           /\ ~Final(row) /\ Within(ev.start, row.kickoff)
        THEN {m.game} ELSE {}

ResolveNflEvent(db, maps, ev) ==
    IF ev.home = ev.away \/ ev.books = {} THEN {}
    ELSE IF ev.id \in DOMAIN maps THEN MappedGame(db, maps, ev)
    ELSE ChosenGame(db, ev)

Map(db, maps, events) ==
    [id \in DOMAIN maps \cup {ev.id : ev \in events} |->
        IF id \in DOMAIN maps THEN maps[id]
        ELSE LET ev == CHOOSE x \in events : x.id = id
                 g == CHOOSE x \in ChosenGame(db, ev) : TRUE
             IN  [game |-> g, home |-> ev.home, away |-> ev.away, kickoff |-> db[g].kickoff]]

(* The two selections of each bookmaker of an event, under its game.       *)
Selections(c, ev, g) ==
    UNION {{[capture |-> c, event |-> ev.id, game |-> g, book |-> b.book, team |-> s[1],
             price |-> s[2], updated |-> b.updated, observed |-> captureRuns[c].received] :
               s \in {<<ev.home, b.home>>, <<ev.away, b.away>>}} : b \in ev.books}

(* Every event of the answer is resolved, mapped and stored, and the run   *)
(* completed, in one transaction.                                          *)
StoreQuotes(c) ==
    /\ capturing[c] = "store"
    /\ \A ev \in answer[c] : ResolveNflEvent(games, mappings, ev) # {}
    /\ mappings' = Map(games, mappings, answer[c])
    /\ quotes' = quotes \cup
          UNION {Selections(c, ev, CHOOSE g \in ResolveNflEvent(games, mappings, ev) : TRUE) :
                    ev \in answer[c]}
    /\ captureRuns' = [captureRuns EXCEPT ![c].status = "completed", ![c].completed = clock]
    /\ CaptureGoto(c, "qualify")
    /\ UNCHANGED <<evidence, answer, calls>>

(* Mutant: the events that were stored before the error are committed with *)
(* the failure. *)
StoreFailsHalfway(c) ==
    /\ capturing[c] = "store"
    /\ \E ev \in answer[c] :
          /\ ResolveNflEvent(games, mappings, ev) # {}
          /\ mappings' = Map(games, mappings, {ev})
          /\ quotes' = quotes \cup
                Selections(c, ev, CHOOSE g \in ResolveNflEvent(games, mappings, ev) : TRUE)
    /\ CaptureGoto(c, "failing")
    /\ UNCHANGED <<captureRuns, evidence, answer, calls>>

(* An event that cannot be resolved, or any other error: all is rolled     *)
(* back.                                                                   *)
StoreFails(c) ==
    /\ capturing[c] = "store"
    /\ CaptureGoto(c, "failing")
    /\ UNCHANGED <<captureRuns, mappings, quotes, evidence, answer, calls>>

(* _mark_run_failed; when the update fails the run stays running.          *)
MarkCaptureFailed(c) ==
    /\ capturing[c] = "failing"
    /\ \/ captureRuns' = [captureRuns EXCEPT ![c].status = "failed", ![c].completed = clock]
       \/ UNCHANGED captureRuns
    /\ answer' = [answer EXCEPT ![c] = {}]
    /\ CaptureGoto(c, "failed")
    /\ UNCHANGED <<mappings, quotes, evidence, calls>>

(***************************************************************************)
(* Qualification.                                                          *)
(***************************************************************************)
(* Mutant: a quote observed after the kickoff is not told from another. *)
ObservedPregameAlways(q, row) == TRUE

(* The observation is strictly before the kickoff the game has now.        *)
ObservedPregame(q, row) == q.observed < row.kickoff

(* The rest of validate_official_nfl_quote_source: an error of the whole   *)
(* qualification.                                                          *)
CoherentSource(q) ==
    LET m == mappings[q.event]
    IN  /\ captureRuns[q.capture].status = "completed"
        /\ captureRuns[q.capture].received = q.observed
        /\ m.game = q.game /\ games[q.game].home = m.home /\ games[q.game].away = m.away
        /\ q.team \in {m.home, m.away}

Evidence(q) == [quote |-> q, team |-> q.team, kickoff |-> games[q.game].kickoff]
QuotesOf(c) == {q \in quotes : q.capture = c}

(* The quotes of the run that are pregame become evidence together; the    *)
(* others are skipped.                                                     *)
Qualify(c) ==
    /\ capturing[c] = "qualify"
    /\ \A q \in QuotesOf(c) : CoherentSource(q)
    /\ evidence' = evidence \cup
          {Evidence(q) : q \in {x \in QuotesOf(c) : ObservedPregame(x, games[x.game])}}
    /\ answer' = [answer EXCEPT ![c] = {}]
    /\ CaptureGoto(c, "done")
    /\ UNCHANGED <<captureRuns, mappings, quotes, calls>>

(* Any error rolls the qualification back and leaves a completed run that  *)
(* nothing qualifies again.                                                *)
QualificationFails(c) ==
    /\ capturing[c] = "qualify"
    /\ answer' = [answer EXCEPT ![c] = {}]
    /\ CaptureGoto(c, "unqualified")
    /\ UNCHANGED <<captureRuns, mappings, quotes, evidence, calls>>

CaptureCrash(c) ==
    /\ capturing[c] \in {"call", "record", "store", "qualify", "failing"}
    /\ answer' = [answer EXCEPT ![c] = {}]
    /\ CaptureGoto(c, "dead")
    /\ UNCHANGED <<captureRuns, mappings, quotes, evidence, calls>>

CaptureStep(c) ==
    \/ ReserveCapture(c) \/ CallProvider(c) \/ RecordReceipt(c) \/ StoreQuotes(c) \/ StoreFails(c)
    \/ MarkCaptureFailed(c) \/ Qualify(c) \/ QualificationFails(c) \/ CaptureCrash(c)
=============================================================================
