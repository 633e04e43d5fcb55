----------------------------- MODULE MlbRosters -----------------------------
(***************************************************************************)
(* Players and their teams: the synchronization of player identities       *)
(* (ingest/mlb_players.py), which box scores, predictions and rosters all  *)
(* call, and the synchronization of the active rosters                     *)
(* (ingest/mlb_rosters.py).  Every repository call opens a connection and  *)
(* commits by itself.                                                      *)
(*                                                                         *)
(* A player is known to the provider by an "ext" and here by an id; an     *)
(* assignment is [player, team, from, through], with through = NoDay while *)
(* it is current.                                                          *)
(***************************************************************************)
EXTENDS Integers, FiniteSets

CONSTANTS
    Syncers,        \* processes that synchronize players
    Rosters,        \* those of them that synchronize rosters
    RosterAnswers,  \* snapshots: [entries : sets of <<team, ext>>, whole]
    KnownPlayers,   \* the players that are there at the start: exts
    StoredAssignments, \* and the assignments
    Today(_)        \* the calendar day of a time

ASSUME RostersAssumption == Rosters \subseteq Syncers

NoDay == -1
NoPlayer == 0

VARIABLES
    clock,
    players,        \* baseball_players: the highest id
    playerIds,      \* baseball_player_sources: ext -> id
    toSync,         \* exts a process has yet to synchronize
    unlinked,       \* the player it has created and not yet linked
    assignments,    \* baseball_player_team_assignments
    roster,         \* where each roster synchronization is
    snapshot        \* [entries, whole, day, beside, active, skipped, entry, current]

playerVars == <<players, playerIds, toSync, unlinked>>
rosterVars == <<assignments, roster, snapshot>>

NoSnapshot == [entries |-> {}, whole |-> FALSE, day |-> NoDay, beside |-> {}, active |-> {},
               skipped |-> FALSE, entry |-> <<>>, current |-> {}]

RostersInit ==
    /\ players = Cardinality(KnownPlayers)
    /\ playerIds \in {f \in [KnownPlayers -> 1 .. Cardinality(KnownPlayers)] :
                         \A x, y \in KnownPlayers : f[x] = f[y] => x = y}
    /\ \A x, y \in KnownPlayers : x < y => playerIds[x] < playerIds[y]
    /\ toSync = [p \in Syncers |-> {}]
    /\ unlinked = [p \in Syncers |-> NoPlayer]
    /\ assignments = StoredAssignments
    /\ roster = [s \in Rosters |-> "idle"]
    /\ snapshot = [s \in Rosters |-> NoSnapshot]

(***************************************************************************)
(* sync_mlb_players: every player the provider describes is created and    *)
(* then linked, or updated; a payload it does not send, or that cannot be  *)
(* read, is skipped.                                                       *)
(***************************************************************************)
Known(exts) == exts \cap DOMAIN playerIds

SkipPlayer(p) ==
    /\ unlinked[p] = NoPlayer
    /\ \E x \in toSync[p] : toSync' = [toSync EXCEPT ![p] = @ \ {x}]
    /\ UNCHANGED <<players, playerIds, unlinked>>

CreatePlayer(p) ==
    /\ unlinked[p] = NoPlayer
    /\ toSync[p] \ DOMAIN playerIds # {}
    /\ players' = players + 1
    /\ unlinked' = [unlinked EXCEPT ![p] = players + 1]
    /\ UNCHANGED <<playerIds, toSync>>

(* The link is unique: a player another process has linked in between      *)
(* raises, and what was created stays without a link.                      *)
LinkPlayer(p) ==
    /\ unlinked[p] # NoPlayer
    /\ \E x \in toSync[p] \ DOMAIN playerIds :
          /\ playerIds' = [y \in DOMAIN playerIds \cup {x} |->
                              IF y = x THEN unlinked[p] ELSE playerIds[y]]
          /\ toSync' = [toSync EXCEPT ![p] = @ \ {x}]
    /\ unlinked' = [unlinked EXCEPT ![p] = NoPlayer]
    /\ UNCHANGED players

LinkRaises(p) == unlinked[p] # NoPlayer /\ toSync[p] \subseteq DOMAIN playerIds

SyncPlayer(p) == SkipPlayer(p) \/ CreatePlayer(p) \/ LinkPlayer(p)
PlayersSynced(p) == toSync[p] = {} /\ unlinked[p] = NoPlayer

ForgetPlayers(p) ==
    /\ toSync' = [toSync EXCEPT ![p] = {}]
    /\ unlinked' = [unlinked EXCEPT ![p] = NoPlayer]
    /\ UNCHANGED <<players, playerIds>>

(***************************************************************************)
(* sync_active_mlb_rosters.                                                *)
(***************************************************************************)
RosterGoto(s, label) == roster' = [roster EXCEPT ![s] = label]

(* The teams one after another; a team that fails, or an entry that cannot *)
(* be read, leaves the snapshot incomplete.                                *)
Discover(s) ==
    /\ roster[s] = "idle"
    /\ \E a \in RosterAnswers :
          /\ snapshot' = [snapshot EXCEPT ![s] =
                 [NoSnapshot EXCEPT !.entries = a.entries, !.whole = a.whole]]
          /\ toSync' = [toSync EXCEPT ![s] = {e[2] : e \in a.entries}]
    /\ RosterGoto(s, "players")
    /\ UNCHANGED <<players, playerIds, unlinked, assignments>>

RosterPlayer(s) ==
    /\ roster[s] = "players" /\ SyncPlayer(s)
    /\ UNCHANGED rosterVars

(* The date of the run, and the players it found active; "beside" has the  *)
(* others that are under way at that moment, and serves the properties.    *)
Underway == {s \in Rosters : roster[s] \notin {"idle", "done", "dead"}}

ResolveActive(s) ==
    /\ roster[s] = "players" /\ PlayersSynced(s)
    /\ LET exts == {e[2] : e \in snapshot[s].entries}
       IN  snapshot' = [snapshot EXCEPT ![s].day = Today(clock),
                            ![s].beside = Underway \ {s},
                            ![s].active = {playerIds[x] : x \in Known(exts)},
                            ![s].whole = @ /\ Known(exts) = exts]
    /\ RosterGoto(s, "entries")
    /\ UNCHANGED <<playerVars, assignments>>

Current(player) == {a \in assignments : a.player = player /\ a.through = NoDay}

(* sync_roster_assignment reads the player and its current assignment, and *)
(* decides from what it has read.                                          *)
ReadEntry(s) ==
    /\ roster[s] = "entries"
    /\ \E e \in snapshot[s].entries :
          IF e[2] \in DOMAIN playerIds
          THEN /\ snapshot' = [snapshot EXCEPT ![s].entry = e,
                                   ![s].current = Current(playerIds[e[2]])]
               /\ RosterGoto(s, IF Current(playerIds[e[2]]) = {} THEN "create"
                                ELSE IF \A a \in Current(playerIds[e[2]]) : a.team = e[1]
                                THEN "update" ELSE "close")
          ELSE /\ snapshot' = [snapshot EXCEPT ![s].entries = @ \ {e}, ![s].skipped = TRUE]
               /\ UNCHANGED roster
    /\ UNCHANGED <<playerVars, assignments>>

NextEntry(s, skipped) ==
    /\ snapshot' = [snapshot EXCEPT ![s].entries = @ \ {snapshot[s].entry}, ![s].entry = <<>>,
                        ![s].current = {}, ![s].skipped = @ \/ skipped]
    /\ RosterGoto(s, "entries")

(* An update of an assignment that is no longer current raises LookupError,*)
(* which skips the entry.                                                  *)
UpdateAssignment(s) ==
    /\ roster[s] = "update"
    /\ NextEntry(s, ~(snapshot[s].current \subseteq assignments))
    /\ UNCHANGED <<playerVars, assignments>>

(* The CHECK of the table: no assignment ends before it begins.            *)
MayClose(player, day) == \A a \in Current(player) : a.from <= day

Closed(player, day) ==
    {IF a \in Current(player) THEN [a EXCEPT !.through = day] ELSE a : a \in assignments}

CloseAssignment(s) ==
    /\ roster[s] = "close"
    /\ LET player == playerIds[snapshot[s].entry[2]]
       IN  /\ MayClose(player, snapshot[s].day)
           /\ assignments' = Closed(player, snapshot[s].day)
    /\ RosterGoto(s, "create")
    /\ UNCHANGED <<playerVars, snapshot>>

NewAssignment(s) ==
    [player |-> playerIds[snapshot[s].entry[2]], team |-> snapshot[s].entry[1],
     from |-> snapshot[s].day, through |-> NoDay]

(* Mutant: a transfer keeps the first day of the assignment it ends. *)
CreateAssignmentSince(s) ==
    /\ roster[s] = "create"
    /\ Current(NewAssignment(s).player) = {}
    /\ assignments' = assignments \cup
          {IF snapshot[s].current = {} THEN NewAssignment(s)
           ELSE [NewAssignment(s) EXCEPT !.from = (CHOOSE a \in snapshot[s].current : TRUE).from]}
    /\ NextEntry(s, FALSE)
    /\ UNCHANGED playerVars

(* A player has one current assignment: the unique index.                  *)
CreateAssignment(s) ==
    /\ roster[s] = "create"
    /\ Current(NewAssignment(s).player) = {}
    /\ assignments' = assignments \cup {NewAssignment(s)}
    /\ NextEntry(s, FALSE)
    /\ UNCHANGED playerVars

(* Nothing of a synchronization is left but, for the properties, its date. *)
Ended(s) == [NoSnapshot EXCEPT !.day = snapshot[s].day, !.beside = snapshot[s].beside]

(* Players missing from the snapshot are closed only when all of it was    *)
(* read, resolved and stored.                                              *)
CleanUp(s) ==
    /\ roster[s] = "entries" /\ snapshot[s].entries = {}
    /\ IF snapshot[s].whole /\ ~snapshot[s].skipped
       THEN /\ snapshot' = [snapshot EXCEPT ![s].current =
                   {a \in assignments : a.through = NoDay /\ a.player \notin snapshot[s].active}]
            /\ RosterGoto(s, "clean")
       ELSE /\ snapshot' = [snapshot EXCEPT ![s] = Ended(s)]
            /\ RosterGoto(s, "done")
    /\ UNCHANGED <<playerVars, assignments>>

CloseMissing(s) ==
    /\ roster[s] = "clean"
    /\ \/ /\ snapshot[s].current = {}
          /\ RosterGoto(s, "done")
          /\ snapshot' = [snapshot EXCEPT ![s] = Ended(s)]
          /\ UNCHANGED assignments
       \/ \E a \in snapshot[s].current :
             /\ MayClose(a.player, snapshot[s].day)
             /\ assignments' = Closed(a.player, snapshot[s].day)
             /\ snapshot' = [snapshot EXCEPT ![s].current = @ \ {a}]
             /\ UNCHANGED roster
    /\ UNCHANGED playerVars

(* An error nothing catches, or the end of the process.                    *)
RosterDies(s) ==
    /\ roster[s] \notin {"idle", "done", "dead"}
    /\ RosterGoto(s, "dead")
    /\ snapshot' = [snapshot EXCEPT ![s] = Ended(s)]
    /\ ForgetPlayers(s)
    /\ UNCHANGED assignments

RosterStep(s) ==
    \/ Discover(s) \/ RosterPlayer(s) \/ ResolveActive(s) \/ ReadEntry(s) \/ UpdateAssignment(s)
    \/ CloseAssignment(s) \/ CreateAssignment(s) \/ CleanUp(s) \/ CloseMissing(s) \/ RosterDies(s)
=============================================================================
