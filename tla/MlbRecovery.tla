---------------------------- MODULE MlbRecovery ----------------------------
(***************************************************************************)
(* The guarded recovery of results (ingest/mlb_recovery.py,                *)
(* ingest/mlb_recovery_cli.py, database/mlb_recovery_repository.py): an    *)
(* operator names the games of one date, a preview gathers what the        *)
(* provider says and what the database holds, the manifest made of both is *)
(* approved by its hash, and an execution inserts exactly that manifest in *)
(* one SERIALIZABLE transaction, or nothing.                               *)
(***************************************************************************)
EXTENDS MlbResults

CONSTANTS
    Recoveries,     \* recoveries, each of one preview and one execution
    DateOfRecovery, \* Recoveries -> the schedule date
    AllowList       \* Recoveries -> the exts that may be written

(* What is stored at the start was written by none of them. *)
ASSUME RecoveryAssumption ==
    /\ Recoveries \cap Syncers = {}
    /\ \A x \in DOMAIN StoredHistory.results : StoredHistory.results[x].by \notin Recoveries
    /\ \A t \in StoredHistory.teamStats : t.by \notin Recoveries
    /\ \A p \in StoredHistory.pitching : p.by \notin Recoveries

VARIABLE recovery   \* [at, answer, boxes, people, manifest, players, began, status]

NoManifest == [games |-> <<>>, players |-> <<>>]
NoRecovery == [at |-> "idle", answer |-> <<>>, boxes |-> {}, people |-> {},
               manifest |-> NoManifest, players |-> <<>>, began |-> 0, status |-> "none"]

RecoveryInit == recovery = [r \in Recoveries |-> NoRecovery]

SetRecovery(r, changes) ==
    recovery' = [recovery EXCEPT
        ![r] = [f \in DOMAIN @ |-> IF f \in DOMAIN changes THEN changes[f] ELSE @[f]]]

(***************************************************************************)
(* The preview.                                                            *)
(***************************************************************************)
Listed(answer) == {answer[n] : n \in DOMAIN answer}
Eligible(r, answer) == {e \in Listed(answer) : e.ext \in AllowList[r] /\ e.final}

(* Every game of the list has one raw mapping, the schedule names all of   *)
(* them, and nothing that could be written is left off the list.           *)
Mapped(exts) == \A x \in exts : \E g \in DOMAIN games : MappedTo(sources, Mlb, x) = {g}
InScope(r, answer) ==
    /\ AllowList[r] \subseteq {e.ext : e \in Listed(answer)}
    /\ \A e \in Listed(answer) : e.final => e.ext \in AllowList[r]

GameOf(ext) == CHOOSE g \in MappedTo(sources, Mlb, ext) : TRUE

(* What a snapshot says of an identity, and of the players of a box score. *)
Identity(ext) ==
    LET g == GameOf(ext) IN [game |-> g, row |-> games[g], sources |-> {s \in sources : s.game = g}]
Identities(exts) == [x \in exts |-> Identity(x)]
AllPlayers(boxes) == UNION {PlayersOf(b) : b \in boxes}
Snapshot(exts) == [x \in exts |-> IF x \in DOMAIN playerIds THEN playerIds[x] ELSE NoPlayer]
MissingIn(found) == {x \in DOMAIN found : found[x] = NoPlayer}

(* A box score agrees with the schedule: teams, scores, and a starter with *)
(* a line of his own on each side.                                         *)
ValidBox(b, e) ==
    /\ b.sides[1].team = e.orient[1] /\ b.sides[2].team = e.orient[2]
    /\ \A s \in {1, 2} :
          /\ b.sides[s].runs = e.score[s] /\ b.sides[s].allowed = e.score[3 - s]
          /\ b.sides[s].pitchers # <<>> /\ b.sides[s].pitchers[1].allowed # NoLine
    /\ Cardinality(PlayersOf(b)) = Len(b.sides[1].pitchers) + Len(b.sides[2].pitchers)

(* The manifest can be built: canonical date, orientation, box scores, and *)
(* the people that were fetched are exactly those that are missing.        *)
Plannable(r) ==
    LET answer == recovery[r].answer
    IN  /\ Mapped(AllowList[r])
        /\ \A e \in Listed(answer) : e.ext \in AllowList[r] =>
              /\ games[GameOf(e.ext)].orient = e.orient
              /\ e.final => Day(games[GameOf(e.ext)].start) = DateOfRecovery[r]
              /\ \A f \in Listed(answer) :
                    f.ext \in AllowList[r] /\ GameOf(f.ext) = GameOf(e.ext) => f = e
        /\ \A e \in Eligible(r, answer), b \in recovery[r].boxes : b.ext = e.ext => ValidBox(b, e)
        /\ recovery[r].people = MissingIn(Snapshot(AllPlayers(recovery[r].boxes)))

Acquire(r) ==
    /\ recovery[r].at = "idle" /\ Mapped(AllowList[r])
    /\ \E answer \in Answers(DateOfRecovery[r]) :
          /\ InScope(r, answer)
          /\ \E boxes \in SUBSET BoxScores :
                /\ {b.ext : b \in boxes} = {e.ext : e \in Eligible(r, answer)}
                /\ \A b, c \in boxes : b.ext = c.ext => b = c
                /\ SetRecovery(r, [at |-> "people", answer |-> answer, boxes |-> boxes])

(* The people that are missing now; the provider may not know them all.    *)
AcquirePeople(r) ==
    /\ recovery[r].at = "people"
    /\ \E known \in SUBSET MissingIn(Snapshot(AllPlayers(recovery[r].boxes))) :
          SetRecovery(r, [at |-> "plan", people |-> known])

Plan(r) ==
    /\ recovery[r].at = "plan" /\ Plannable(r)
    /\ SetRecovery(r, [at |-> "approval",
           manifest |-> [games |-> Identities(AllowList[r]),
                         players |-> Snapshot(AllPlayers(recovery[r].boxes))]])

(* A preview that fails leaves no manifest, and nothing was written.       *)
PreviewFails(r) ==
    /\ recovery[r].at \in {"idle", "people", "plan"}
    /\ SetRecovery(r, [at |-> "done"])

Approve(r) == recovery[r].at = "approval" /\ SetRecovery(r, [at |-> "execute"])

(***************************************************************************)
(* The execution.                                                          *)
(***************************************************************************)
Targets(r) == {recovery[r].manifest.games[e.ext].game : e \in Eligible(r, recovery[r].answer)}

(* Mutant: only the games are compared, as the order of a start and a      *)
(* second source were of no account.                                       *)
SameGameOnly(r) ==
    /\ Mapped(AllowList[r])
    /\ \A x \in AllowList[r] : Identity(x).game = recovery[r].manifest.games[x].game
    /\ \A x \in DOMAIN recovery[r].manifest.players :
          recovery[r].manifest.players[x] \in {NoPlayer, Snapshot({x})[x]}

(* _revalidate: every identity is what was approved, to the last source,   *)
(* and so is every player that was there.                                  *)
Revalidated(r) ==
    /\ Mapped(AllowList[r])
    /\ Identities(AllowList[r]) = recovery[r].manifest.games
    /\ \A x \in DOMAIN recovery[r].manifest.players :
          recovery[r].manifest.players[x] \in {NoPlayer, Snapshot({x})[x]}

TargetsAbsent(r) ==
    /\ \A x \in DOMAIN results : results[x].game \notin Targets(r) /\ x \notin AllowList[r]
    /\ \A t \in teamStats : t.game \notin Targets(r)
    /\ \A p \in pitching : p.game \notin Targets(r)

LockedBy(r) == {recovery[r].manifest.games[x].game : x \in AllowList[r]}

(* The first statements of the transaction take its snapshot and lock its  *)
(* games; what they find out of order ends it before any write.            *)
Begin(r) ==
    /\ recovery[r].at = "execute"
    /\ LockedBy(r) \cap locked = {}
    /\ \/ /\ Revalidated(r) /\ TargetsAbsent(r)
          /\ locked' = locked \cup LockedBy(r)
          /\ SetRecovery(r, [at |-> "commit", began |-> clock,
                              players |-> Snapshot(AllPlayers(recovery[r].boxes))])
       \/ /\ SetRecovery(r, [at |-> "done", status |-> "failed-before-write"])
          /\ UNCHANGED locked

(* A player somebody else has linked since the snapshot cannot be inserted.*)
PlayersConflict(r) == MissingIn(recovery[r].players) \cap DOMAIN playerIds # {}

(* The players that are missing are numbered one after another.            *)
Synchronized(r) ==
    LET new == SetToSortSeq(MissingIn(recovery[r].players), <)
    IN  [x \in DOMAIN playerIds \cup Range(new) |->
            IF x \in DOMAIN playerIds THEN playerIds[x]
            ELSE players + (CHOOSE n \in DOMAIN new : new[n] = x)]

(* Results, players and box scores, in one commit; a row is created when   *)
(* its transaction began.                                                  *)
Insert(r) ==
    LET eligible == Eligible(r, recovery[r].answer)
        game(ext) == recovery[r].manifest.games[ext].game
        byExt == [x \in {e.ext : e \in eligible} |-> CHOOSE e \in eligible : e.ext = x]
    IN  /\ results' = [x \in DOMAIN results \cup DOMAIN byExt |->
               IF x \in DOMAIN results THEN results[x]
               ELSE [game |-> game(x), date |-> DateOfRecovery[r], score |-> byExt[x].score, by |-> r]]
        /\ playerIds' = Synchronized(r)
        /\ players' = players + Cardinality(MissingIn(recovery[r].players))
        /\ teamStats' = teamStats \cup UNION {TeamRows(b, game(b.ext), r, recovery[r].began) : b \in recovery[r].boxes}
        /\ pitching' = pitching \cup
               UNION {PitchingRows(b, game(b.ext), Synchronized(r), r, recovery[r].began) : b \in recovery[r].boxes}

Unlock(r) == locked' = locked \ LockedBy(r)

(* The commit is acknowledged, or the acknowledgement is lost.             *)
CommitRecovery(r) ==
    /\ recovery[r].at = "commit" /\ ~PlayersConflict(r)
    /\ Insert(r) /\ Unlock(r)
    /\ \E status \in {"complete", "unknown-commit-state"} :
          SetRecovery(r, [at |-> "done", status |-> status])
    /\ UNCHANGED <<games, sources, toSync, unlinked>>

(* A write fails, or the commit, or the process dies: the transaction is   *)
(* rolled back and the locks are gone.                                     *)
RecoveryFails(r) ==
    /\ recovery[r].at = "commit"
    /\ Unlock(r)
    /\ \E status \in {"rolled-back", "unknown-commit-state", "none"} :
          SetRecovery(r, [at |-> "done", status |-> status])
    /\ UNCHANGED <<historyVars, playerVars>>

RecoveryStep(r) ==
    \/ /\ Acquire(r) \/ AcquirePeople(r) \/ Plan(r) \/ PreviewFails(r) \/ Approve(r)
       /\ UNCHANGED <<historyVars, locked, playerVars>>
    \/ Begin(r) /\ UNCHANGED <<historyVars, playerVars>>
    \/ CommitRecovery(r) \/ RecoveryFails(r)
=============================================================================
