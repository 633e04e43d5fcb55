-------------------------- MODULE MlbHistoryProofs --------------------------
(***************************************************************************)
(* Proofs about the history of the season, for any processes that run      *)
(* together and any answers: assignments that follow each other, model     *)
(* files that belong together, recoveries that write what was approved,    *)
(* predictions drawn from the whole history that was checked, and folds    *)
(* that look only back.                                                    *)
(***************************************************************************)
EXTENDS MlbHistory, OrderFacts

-----------------------------------------------------------------------------
(* Rosters.  A synchronization takes its date once, while it is under way, *)
(* and one that takes a later date knows it was.                           *)

Dated == {"entries", "update", "close", "create", "clean"}

DatesTaken ==
    /\ clock \in FirstTick .. Horizon
    /\ DOMAIN roster = Rosters /\ DOMAIN snapshot = Rosters
    /\ \A s \in Rosters :
          /\ DOMAIN snapshot[s] = {"entries", "whole", "day", "beside", "active", "skipped",
                                   "entry", "current"}
          /\ snapshot[s].day # NoDay => snapshot[s].day \in Today(FirstTick) .. Today(clock)
          /\ roster[s] \in Dated => snapshot[s].day # NoDay
          /\ roster[s] \in {"idle", "players"} => snapshot[s].day = NoDay /\ snapshot[s].beside = {}
          /\ roster[s] \in Dated \cup {"idle", "players", "done", "dead"}
    /\ \A s, t \in Rosters :
          s \in Underway /\ snapshot[s].day # NoDay /\ snapshot[s].day < snapshot[t].day =>
              s \in snapshot[t].beside

Assigned(a) ==
    /\ DOMAIN a = {"player", "team", "from", "through"}
    /\ a.from \in Nat /\ a.through \in Nat \cup {NoDay}

(* An assignment ends on the date of a synchronization, or before today.   *)
EndsOnDate(a) ==
    a.through = NoDay \/ a.through <= Today(FirstTick) \/ \E t \in Rosters : snapshot[t].day = a.through

Follows(a, b) ==
    /\ a.through # NoDay
    /\ \/ a.through <= Today(FirstTick)
       \/ a.through <= b.from
       \/ \E s, t \in Rosters : /\ s \in snapshot[t].beside
                                /\ snapshot[s].day = b.from /\ snapshot[t].day = a.through

AssignmentsFollow ==
    /\ \A a \in assignments : Assigned(a) /\ EndsOnDate(a)
    /\ \A a, b \in assignments : a.player = b.player /\ a # b => Follows(a, b) \/ Follows(b, a)

RosterInv == DatesTaken /\ AssignmentsFollow

LEMMA Days ==
    /\ \A t \in FirstTick .. Horizon : Today(t) \in Nat /\ Today(FirstTick) <= Today(t)
    /\ FirstTick \in FirstTick .. Horizon /\ FirstTick \in Nat /\ Horizon \in Nat
    /\ NoDay \notin Nat
BY CalendarAssumption DEF NoDay

LEMMA InitRosterInv == Init => RosterInv
<1> SUFFICES ASSUME Init PROVE RosterInv
  OBVIOUS
<1>1. DatesTaken
  BY Days DEF Init, RostersInit, DatesTaken, NoSnapshot, Underway, Dated
<1>2. ASSUME NEW a \in assignments PROVE Assigned(a) /\ EndsOnDate(a)
  BY <1>2, CalendarAssumption, Days DEF Init, RostersInit, Assigned, EndsOnDate
<1>3. ASSUME NEW a \in assignments, NEW b \in assignments, a.player = b.player, a # b
      PROVE  Follows(a, b) \/ Follows(b, a)
  <2>1. a.through \in {NoDay} \cup (0 .. Today(FirstTick)) /\ b.through \in {NoDay} \cup (0 .. Today(FirstTick))
    BY CalendarAssumption DEF Init, RostersInit
  <2>2. a.through # NoDay \/ b.through # NoDay
    BY <1>3, CalendarAssumption DEF Init, RostersInit
  <2> QED BY <2>1, <2>2, Days DEF Follows
<1> QED BY <1>1, <1>2, <1>3 DEF RosterInv, AssignmentsFollow

(* Nobody else writes a roster, and nobody else than the clock the time.   *)
RostersStay == UNCHANGED <<assignments, roster, snapshot>> /\ clock' \in {clock, clock + 1}

LEMMA OthersLeaveRosters ==
    ASSUME [Next]_vars, ~ \E s \in Rosters : Roster(s)
    PROVE  RostersStay /\ (clock' # clock => clock < Horizon)
<1>1. CASE \E i \in Ingesters \cap crew : Ingest(i)
  BY <1>1 DEF Ingest, rosterVars, RostersStay
<1>2. CASE \E r \in Recoveries \cap crew : Recover(r)
  BY <1>2 DEF Recover, rosterVars, RostersStay
<1>3. CASE \E p \in Predictors \cap crew : Predict(p)
  BY <1>3 DEF Predict, rosterVars, RostersStay
<1>4. CASE \E t \in Trainers \cap crew : Train(t)
  BY <1>4 DEF Train, rosterVars, RostersStay
<1>5. CASE Tick
  BY <1>5 DEF Tick, rosterVars, RostersStay
<1>6. CASE UNCHANGED vars
  BY <1>6 DEF vars, rosterVars, RostersStay
<1> QED BY <1>1, <1>2, <1>3, <1>4, <1>5, <1>6 DEF Next

LEMMA RostersStayInv ==
    ASSUME RosterInv, RostersStay, clock' # clock => clock < Horizon
    PROVE  RosterInv'
<1>1. clock' \in FirstTick .. Horizon /\ clock <= clock'
  BY Days DEF RosterInv, DatesTaken, RostersStay
<1>2. Today(clock) \in Nat /\ Today(clock') \in Nat /\ Today(clock) <= Today(clock')
  BY <1>1, CalendarAssumption DEF RosterInv, DatesTaken
<1>3. \A day : day \in Today(FirstTick) .. Today(clock) => day \in Today(FirstTick) .. Today(clock')
  BY <1>2, Days
<1>4. DatesTaken'
  BY <1>1, <1>3 DEF RosterInv, DatesTaken, RostersStay, Underway
<1>5. AssignmentsFollow'
  BY DEF RosterInv, AssignmentsFollow, RostersStay, EndsOnDate, Follows
<1> QED BY <1>4, <1>5 DEF RosterInv

-----------------------------------------------------------------------------
(* The steps of a synchronization: all but one keep its date. *)

DatesStay(s) ==
    /\ DOMAIN roster' = Rosters /\ DOMAIN snapshot' = Rosters
    /\ clock' = clock
    /\ \A t \in Rosters : t # s => roster'[t] = roster[t] /\ snapshot'[t] = snapshot[t]
    /\ DOMAIN snapshot'[s] = DOMAIN snapshot[s]
    /\ snapshot'[s].day = snapshot[s].day /\ snapshot'[s].beside = snapshot[s].beside
    /\ roster[s] \in Dated \cup {"idle", "players"}
    /\ roster'[s] \in Dated => roster[s] \in Dated
    /\ roster'[s] \in {"idle", "players"} => roster[s] \in {"idle", "players"}
    /\ roster'[s] \in Dated \cup {"idle", "players", "done", "dead"}

LEMMA DatesStayTaken ==
    ASSUME RosterInv, NEW s \in Rosters, DatesStay(s), roster[s] # "idle" \/ snapshot[s].day = NoDay
    PROVE  /\ DatesTaken'
           /\ \A a : EndsOnDate(a) => EndsOnDate(a)'
           /\ \A a, b : Follows(a, b) => Follows(a, b)'
<1>1. \A t \in Rosters : snapshot'[t].day = snapshot[t].day /\ snapshot'[t].beside = snapshot[t].beside
  BY DEF DatesStay
<1>2. \A t \in Rosters : t \in Underway' => t \in Underway \/ snapshot[t].day = NoDay
  BY DEF DatesStay, Underway, RosterInv, DatesTaken, Dated
<1>3. DatesTaken'
  <2>1. \A t \in Rosters :
          /\ DOMAIN snapshot'[t] = {"entries", "whole", "day", "beside", "active", "skipped",
                                   "entry", "current"}
          /\ roster'[t] \in Dated => snapshot[t].day # NoDay
          /\ roster'[t] \in {"idle", "players"} => snapshot[t].day = NoDay /\ snapshot[t].beside = {}
          /\ roster'[t] \in Dated \cup {"idle", "players", "done", "dead"}
    BY DEF DatesStay, RosterInv, DatesTaken
  <2> QED BY <1>1, <1>2, <2>1 DEF DatesStay, RosterInv, DatesTaken
<1>4. \A a : EndsOnDate(a) => EndsOnDate(a)'
  BY <1>1 DEF EndsOnDate
<1>5. \A a, b : Follows(a, b) => Follows(a, b)'
  BY <1>1 DEF Follows
<1> QED BY <1>3, <1>4, <1>5

(* Ending the current assignment of a player on a date, and adding one.    *)
LEMMA CloseFollows ==
    ASSUME RosterInv, NEW s \in Rosters, NEW player, roster[s] \in Dated,
           assignments' = Closed(player, snapshot[s].day)
    PROVE  /\ \A a \in assignments' : Assigned(a) /\ EndsOnDate(a)
           /\ \A a, b \in assignments' : a.player = b.player /\ a # b => Follows(a, b) \/ Follows(b, a)
<1> DEFINE day == snapshot[s].day
           Close(a) == IF a \in Current(player) THEN [a EXCEPT !.through = day] ELSE a
<1>1. day \in Nat /\ day # NoDay
  BY Days, CalendarAssumption DEF RosterInv, DatesTaken
<1>2. ASSUME NEW a \in assignments
      PROVE  /\ Assigned(Close(a)) /\ EndsOnDate(Close(a))
             /\ Close(a).player = a.player /\ Close(a).from = a.from
             /\ a.through # NoDay => Close(a) = a
  <2>1. Assigned(a) /\ EndsOnDate(a)
    BY DEF RosterInv, AssignmentsFollow
  <2>2. CASE a \in Current(player)
    <3>1. /\ DOMAIN Close(a) = DOMAIN a
          /\ Close(a).player = a.player /\ Close(a).from = a.from /\ Close(a).through = day
      BY <2>1, <2>2 DEF Assigned
    <3>2. a.through = NoDay
      BY <2>2 DEF Current
    <3> QED BY <2>1, <1>1, <3>1, <3>2 DEF Assigned, EndsOnDate
  <2>3. CASE a \notin Current(player)
    BY <2>1, <2>3
  <2> QED BY <2>2, <2>3
<1>3. assignments' = {Close(a) : a \in assignments}
  BY DEF Closed
<1>4. ASSUME NEW a \in assignments, NEW b \in assignments, Close(a) # Close(b),
             Close(a).player = Close(b).player
      PROVE  Follows(Close(a), Close(b)) \/ Follows(Close(b), Close(a))
  <2>1. Follows(a, b) \/ Follows(b, a)
    BY <1>2, <1>4 DEF RosterInv, AssignmentsFollow
  <2>2. Follows(a, b) => Follows(Close(a), Close(b))
    BY <1>2 DEF Follows
  <2>3. Follows(b, a) => Follows(Close(b), Close(a))
    BY <1>2 DEF Follows
  <2> QED BY <2>1, <2>2, <2>3
<1> HIDE DEF Close
<1> QED BY <1>2, <1>3, <1>4

LEMMA CreateFollows ==
    ASSUME RosterInv, NEW s \in Rosters, roster[s] \in Dated,
           Current(NewAssignment(s).player) = {},
           assignments' = assignments \cup {NewAssignment(s)}
    PROVE  /\ \A a \in assignments' : Assigned(a) /\ EndsOnDate(a)
           /\ \A a, b \in assignments' : a.player = b.player /\ a # b => Follows(a, b) \/ Follows(b, a)
<1> DEFINE new == NewAssignment(s)
<1>1. /\ DOMAIN new = {"player", "team", "from", "through"}
      /\ new.from = snapshot[s].day /\ new.through = NoDay
  BY DEF NewAssignment
<1>2. snapshot[s].day \in Nat /\ snapshot[s].day # NoDay /\ s \in Underway
  BY Days, CalendarAssumption DEF RosterInv, DatesTaken, Underway, Dated
<1>3. Assigned(new) /\ EndsOnDate(new)
  BY <1>1, <1>2 DEF Assigned, EndsOnDate
<1>4. ASSUME NEW a \in assignments, a.player = new.player PROVE Follows(a, new)
  <2>1. a.through # NoDay
    BY <1>4 DEF Current
  <2>2. Assigned(a) /\ EndsOnDate(a)
    BY DEF RosterInv, AssignmentsFollow
  <2>3. CASE a.through <= Today(FirstTick) \/ a.through <= snapshot[s].day
    BY <2>1, <2>3, <1>1 DEF Follows
  <2>4. CASE ~ (a.through <= Today(FirstTick) \/ a.through <= snapshot[s].day)
    <3>1. PICK t \in Rosters : snapshot[t].day = a.through
      BY <2>1, <2>2, <2>4 DEF EndsOnDate
    <3>2. snapshot[s].day < snapshot[t].day
      BY <3>1, <2>1, <2>2, <2>4, <1>2 DEF Assigned
    <3>3. s \in snapshot[t].beside
      BY <3>2, <1>2 DEF RosterInv, DatesTaken
    <3> QED BY <3>1, <3>3, <2>1, <1>1 DEF Follows
  <2> QED BY <2>3, <2>4
<1>5. \A a \in assignments : Assigned(a) /\ EndsOnDate(a)
  BY DEF RosterInv, AssignmentsFollow
<1>6. \A a, b \in assignments : a.player = b.player /\ a # b => Follows(a, b) \/ Follows(b, a)
  BY DEF RosterInv, AssignmentsFollow
<1> HIDE DEF new
<1>7. assignments' = assignments \cup {new}
  BY DEF new
<1> QED BY <1>3, <1>4, <1>5, <1>6, <1>7

(* Every step of a synchronization but the one that takes its date. *)
LEMMA StepKeepsDates ==
    ASSUME RosterInv, NEW s \in Rosters, clock' = clock,
           DatesStay(s), roster[s] # "idle" \/ snapshot[s].day = NoDay,
           \/ assignments' = assignments
           \/ /\ \A a \in assignments' : Assigned(a) /\ EndsOnDate(a)
              /\ \A a, b \in assignments' : a.player = b.player /\ a # b => Follows(a, b) \/ Follows(b, a)
    PROVE  RosterInv'
<1>1. /\ DatesTaken'
      /\ \A a : EndsOnDate(a) => EndsOnDate(a)'
      /\ \A a, b : Follows(a, b) => Follows(a, b)'
  BY DatesStayTaken
<1>2. /\ \A a \in assignments' : Assigned(a) /\ EndsOnDate(a)
      /\ \A a, b \in assignments' : a.player = b.player /\ a # b => Follows(a, b) \/ Follows(b, a)
  BY DEF RosterInv, AssignmentsFollow
<1>3. AssignmentsFollow'
  BY <1>1, <1>2 DEF AssignmentsFollow, Assigned
<1> QED BY <1>1, <1>3 DEF RosterInv

LEMMA DateIsTaken ==
    ASSUME RosterInv, NEW s \in Rosters, ResolveActive(s), clock' = clock
    PROVE  RosterInv'
<1>1. /\ roster[s] = "players" /\ roster' = [roster EXCEPT ![s] = "entries"]
      /\ assignments' = assignments /\ snapshot[s].day = NoDay
  BY DEF ResolveActive, RosterGoto, RosterInv, DatesTaken
<1>2. /\ DOMAIN snapshot' = Rosters /\ DOMAIN snapshot'[s] = DOMAIN snapshot[s]
      /\ snapshot'[s].day = Today(clock) /\ snapshot'[s].beside = Underway \ {s}
      /\ \A t \in Rosters : t # s => snapshot'[t] = snapshot[t]
  BY DEF ResolveActive, RosterInv, DatesTaken
<1>3. Today(clock) \in Nat /\ Today(FirstTick) <= Today(clock) /\ Today(FirstTick) \in Nat
  BY Days DEF RosterInv, DatesTaken
<1>4. \A t \in Rosters :
        /\ DOMAIN snapshot'[t] = {"entries", "whole", "day", "beside", "active", "skipped",
                                  "entry", "current"}
        /\ snapshot'[t].day # NoDay => snapshot'[t].day \in Today(FirstTick) .. Today(clock)
        /\ roster'[t] \in Dated => snapshot'[t].day # NoDay
        /\ roster'[t] \in {"idle", "players"} => snapshot'[t].day = NoDay /\ snapshot'[t].beside = {}
        /\ roster'[t] \in Dated \cup {"idle", "players", "done", "dead"}
  <2> TAKE t \in Rosters
  <2>1. CASE t = s
    BY <2>1, <1>1, <1>2, <1>3, Days DEF RosterInv, DatesTaken, Dated
  <2>2. CASE t # s
    BY <2>2, <1>1, <1>2 DEF RosterInv, DatesTaken
  <2> QED BY <2>1, <2>2
<1>5. ASSUME NEW u \in Rosters, NEW t \in Rosters, u \in Underway', snapshot'[u].day # NoDay,
             snapshot'[u].day < snapshot'[t].day
      PROVE  u \in snapshot'[t].beside
  <2>1. \A v \in Rosters : v # s => roster'[v] = roster[v]
    BY <1>1 DEF RosterInv, DatesTaken
  <2>2. CASE u = s
    <3>1. t # s
      BY <2>2, <1>5, <1>2, <1>3
    <3>2. snapshot[t].day # NoDay
      BY <3>1, <2>2, <1>5, <1>2, <1>3, Days DEF NoDay
    <3>3. snapshot[t].day \in Today(FirstTick) .. Today(clock)
      BY <3>2 DEF RosterInv, DatesTaken
    <3>4. Today(clock) < snapshot[t].day
      BY <2>2, <3>1, <1>5, <1>2
    <3> QED BY <3>3, <3>4, <1>3
  <2>3. CASE u # s /\ t = s
    BY <2>1, <2>3, <1>2, <1>5 DEF Underway
  <2>4. CASE u # s /\ t # s
    BY <2>1, <2>4, <1>2, <1>5 DEF Underway, RosterInv, DatesTaken
  <2> QED BY <2>2, <2>3, <2>4
<1>6. DatesTaken'
  <2>1. clock' \in FirstTick .. Horizon /\ DOMAIN roster' = Rosters /\ DOMAIN snapshot' = Rosters
    BY <1>1, <1>2 DEF RosterInv, DatesTaken
  <2> QED BY <2>1, <1>4, <1>5 DEF DatesTaken
<1>7. ASSUME NEW t \in Rosters, snapshot[t].day \in Nat PROVE snapshot'[t] = snapshot[t]
  BY <1>1, <1>2, <1>7, Days
<1>8. ASSUME NEW a \in assignments PROVE Assigned(a) /\ EndsOnDate(a)'
  <2>1. Assigned(a) /\ EndsOnDate(a)
    BY DEF RosterInv, AssignmentsFollow
  <2> QED BY <2>1, <1>7 DEF Assigned, EndsOnDate
<1>9. ASSUME NEW a \in assignments, NEW b \in assignments, Follows(a, b) PROVE Follows(a, b)'
  <2>1. Assigned(a) /\ Assigned(b)
    BY DEF RosterInv, AssignmentsFollow
  <2> QED BY <2>1, <1>7, <1>9 DEF Assigned, Follows
<1>10. AssignmentsFollow'
  BY <1>1, <1>8, <1>9 DEF RosterInv, AssignmentsFollow
<1> QED BY <1>6, <1>10 DEF RosterInv

LEMMA RosterStepKeepsInv ==
    ASSUME RosterInv, NEW s \in Rosters, Roster(s)
    PROVE  RosterInv'
<1> USE DEF RosterGoto
<1>0. /\ clock' = clock /\ DOMAIN roster = Rosters /\ DOMAIN snapshot = Rosters
      /\ DOMAIN snapshot[s] = {"entries", "whole", "day", "beside", "active", "skipped",
                               "entry", "current"}
      /\ roster[s] = "idle" => snapshot[s].day = NoDay /\ snapshot[s].beside = {}
  BY DEF Roster, RosterInv, DatesTaken
<1>a. /\ DOMAIN Ended(s) = DOMAIN snapshot[s] /\ DOMAIN NoSnapshot = DOMAIN snapshot[s]
      /\ Ended(s).day = snapshot[s].day /\ Ended(s).beside = snapshot[s].beside
      /\ NoSnapshot.day = NoDay /\ NoSnapshot.beside = {}
  BY <1>0 DEF Ended, NoSnapshot
<1>1. CASE Discover(s)
  <2>1. DatesStay(s) /\ assignments' = assignments
    <3>1. PICK x \in RosterAnswers :
            snapshot' = [snapshot EXCEPT ![s] = [NoSnapshot EXCEPT !.entries = x.entries, !.whole = x.whole]]
      BY <1>1 DEF Discover
    <3>2. /\ DOMAIN snapshot'[s] = DOMAIN snapshot[s]
          /\ snapshot'[s].day = NoDay /\ snapshot'[s].beside = {}
      BY <3>1, <1>0, <1>a
    <3>3. roster[s] = "idle" /\ roster' = [roster EXCEPT ![s] = "players"] /\ assignments' = assignments
      BY <1>1 DEF Discover
    <3> QED BY <3>1, <3>2, <3>3, <1>0 DEF DatesStay, Dated
  <2> QED BY <2>1, <1>0, StepKeepsDates
<1>2. CASE RosterPlayer(s)
  <2>1. DatesStay(s) /\ assignments' = assignments
    BY <1>0, <1>2 DEF RosterPlayer, rosterVars, DatesStay, Dated
  <2> QED BY <2>1, <1>0, StepKeepsDates
<1>3. CASE ResolveActive(s)
  BY <1>0, <1>3, DateIsTaken
<1>4. CASE ReadEntry(s)
  <2>1. DatesStay(s) /\ assignments' = assignments
    BY <1>0, <1>4 DEF ReadEntry, DatesStay, Dated
  <2> QED BY <2>1, <1>0, StepKeepsDates
<1>5. CASE UpdateAssignment(s)
  <2>1. DatesStay(s) /\ assignments' = assignments
    BY <1>0, <1>5 DEF UpdateAssignment, NextEntry, DatesStay, Dated
  <2> QED BY <2>1, <1>0, StepKeepsDates
<1>6. CASE CloseAssignment(s)
  <2>1. DatesStay(s) /\ roster[s] \in Dated
    BY <1>0, <1>6 DEF CloseAssignment, DatesStay, Dated
  <2>2. assignments' = Closed(playerIds[snapshot[s].entry[2]], snapshot[s].day)
    BY <1>6 DEF CloseAssignment
  <2> QED BY <2>1, <2>2, <1>0, CloseFollows, StepKeepsDates
<1>7. CASE CreateAssignment(s)
  <2>1. DatesStay(s) /\ roster[s] \in Dated
    BY <1>0, <1>7 DEF CreateAssignment, NextEntry, DatesStay, Dated
  <2>2. /\ Current(NewAssignment(s).player) = {}
        /\ assignments' = assignments \cup {NewAssignment(s)}
    BY <1>7 DEF CreateAssignment
  <2> QED BY <2>1, <2>2, <1>0, CreateFollows, StepKeepsDates
<1>8. CASE CleanUp(s)
  <2>1. DatesStay(s) /\ assignments' = assignments
    <3>1. CASE snapshot' = [snapshot EXCEPT ![s] = Ended(s)] /\ roster' = [roster EXCEPT ![s] = "done"]
      BY <3>1, <1>0, <1>8, <1>a DEF CleanUp, DatesStay, Dated
    <3>2. CASE ~ (snapshot' = [snapshot EXCEPT ![s] = Ended(s)] /\ roster' = [roster EXCEPT ![s] = "done"])
      BY <3>2, <1>0, <1>8 DEF CleanUp, DatesStay, Dated
    <3> QED BY <3>1, <3>2
  <2> QED BY <2>1, <1>0, StepKeepsDates
<1>9. CASE CloseMissing(s)
  <2>1. DatesStay(s) /\ roster[s] \in Dated
    BY <1>0, <1>9 DEF CloseMissing, Ended, NoSnapshot, DatesStay, Dated
  <2>2. assignments' = assignments \/ \E a : assignments' = Closed(a.player, snapshot[s].day)
    BY <1>9 DEF CloseMissing
  <2> QED BY <2>1, <2>2, <1>0, CloseFollows, StepKeepsDates
<1>10. CASE RosterDies(s)
  <2>1. DatesStay(s) /\ assignments' = assignments
    BY <1>0, <1>10 DEF RosterDies, Ended, NoSnapshot, DatesStay, Dated, RosterInv, DatesTaken
  <2> QED BY <2>1, <1>0, StepKeepsDates
<1> QED BY <1>1, <1>2, <1>3, <1>4, <1>5, <1>6, <1>7, <1>8, <1>9, <1>10 DEF Roster, RosterStep

(* The dates synchronizations have taken, and how the assignments they     *)
(* close and create follow each other (mlb_rosters.py).                    *)
THEOREM RostersInvariant == Spec => []RosterInv
<1>1. RosterInv /\ [Next]_vars => RosterInv'
  <2> SUFFICES ASSUME RosterInv, [Next]_vars PROVE RosterInv'
    OBVIOUS
  <2>1. CASE \E s \in Rosters : Roster(s)
    BY <2>1, RosterStepKeepsInv
  <2>2. CASE ~ \E s \in Rosters : Roster(s)
    BY <2>2, OthersLeaveRosters, RostersStayInv
  <2> QED BY <2>1, <2>2
<1> QED BY <1>1, InitRosterInv, PTL DEF Spec

(* A player has one team at a time, however many synchronizations of any   *)
(* rosters interleave, but for the days between the dates of two of them.  *)
THEOREM PlayerHasOneTeam == Spec => []OneTeamAtATime
<1>1. RosterInv => OneTeamAtATime
  <2> SUFFICES ASSUME RosterInv, NEW a \in assignments, NEW b \in assignments,
                      a.player = b.player, a # b
               PROVE  /\ a.through # NoDay \/ b.through # NoDay
                      /\ \A day \in Today(FirstTick) .. Today(Horizon) :
                            OnDay(a, day) /\ OnDay(b, day) => Overtaken(day)
    BY DEF OneTeamAtATime
  <2>1. Follows(a, b) \/ Follows(b, a)
    BY DEF RosterInv, AssignmentsFollow
  <2>2. Assigned(a) /\ Assigned(b)
    BY DEF RosterInv, AssignmentsFollow
  <2>3. ASSUME NEW c, NEW d, Follows(c, d), Assigned(c), Assigned(d),
               NEW day \in Today(FirstTick) .. Today(Horizon), OnDay(c, day), OnDay(d, day)
        PROVE  Overtaken(day)
    <3>1. Today(FirstTick) \in Nat /\ day \in Int /\ day >= Today(FirstTick) /\ d.from \in Nat
      BY <2>3, Days, CalendarAssumption DEF Assigned
    <3>2. c.through \in Nat /\ c.through # NoDay /\ day < c.through /\ d.from <= day
      BY <2>3 DEF Follows, Assigned, OnDay
    <3>3. PICK s, t \in Rosters : /\ s \in snapshot[t].beside
                                  /\ snapshot[s].day = d.from /\ snapshot[t].day = c.through
      BY <2>3, <3>1, <3>2 DEF Follows
    <3>4. d.from # NoDay
      BY <3>1, Days
    <3> QED BY <3>2, <3>3, <3>4 DEF Overtaken
  <2> QED BY <2>1, <2>2, <2>3 DEF Follows
<1> QED BY <1>1, RostersInvariant, PTL

-----------------------------------------------------------------------------
(* The model files.  What a run loads is what its manifest named when the  *)
(* run read it, or was written since.                                      *)

WrittenSince(build, time) == \E t \in Trainers : BuildOf[t] = build /\ training[t].saved >= time

Trained ==
    /\ clock \in Nat
    /\ DOMAIN package = {"model", "manifest", "evaluation"}
    /\ DOMAIN training = Trainers
    /\ \A t \in Trainers :
          /\ DOMAIN training[t] = {"at", "listed", "rows", "folds", "report", "saved"}
          /\ training[t].saved \in 0 .. clock

Loads(p) ==
    /\ DOMAIN predicting[p] = {"at", "time", "checksum", "build", "slate", "required", "rows", "status"}
    /\ predicting[p].time \in 0 .. clock
    /\ predicting[p].at \in {"idle", "model"} => predicting[p].build = NoBuild
    /\ predicting[p].at = "model" =>
          \/ package.model \in {predicting[p].checksum, NoBuild}
          \/ WrittenSince(package.model, predicting[p].time)
    /\ predicting[p].build \in {predicting[p].checksum, NoBuild}
          \/ WrittenSince(predicting[p].build, predicting[p].time)

PackageInv == Trained /\ DOMAIN predicting = Predictors /\ \A p \in Predictors : Loads(p)

LEMMA InitPackageInv == Init => PackageInv
<1> SUFFICES ASSUME Init PROVE PackageInv
  OBVIOUS
<1>1. Trained
  BY Days DEF Init, PredictionInit, TrainingInit, NotTraining, Trained
<1> QED BY <1>1, Days DEF Init, PredictionInit, NotPredicting, PackageInv, Trained, Loads

(* A step that leaves the files and what was trained alone.                *)
LEMMA PredictingKeepsPackage ==
    ASSUME PackageInv, UNCHANGED <<package, training>>, clock' \in {clock, clock + 1},
           DOMAIN predicting' = Predictors,
           \A p \in Predictors : predicting'[p] = predicting[p] \/ Loads(p)'
    PROVE  PackageInv'
<1>1. Trained'
  BY DEF PackageInv, Trained
<1>2. \A build, time : WrittenSince(build, time)' <=> WrittenSince(build, time)
  BY DEF WrittenSince
<1>3. ASSUME NEW p \in Predictors, predicting'[p] = predicting[p] PROVE Loads(p)'
  <2>1. Loads(p)
    BY DEF PackageInv
  <2> QED BY <1>2, <1>3, <2>1 DEF PackageInv, Trained, Loads
<1> QED BY <1>1, <1>3 DEF PackageInv

LEMMA PredictorKeepsPackage ==
    ASSUME PackageInv, NEW p \in Predictors, Predict(p)
    PROVE  PackageInv'
<1>1. /\ UNCHANGED <<clock, package, training>> /\ DOMAIN predicting = Predictors /\ Loads(p)
      /\ clock \in Nat
  BY DEF Predict, PackageInv, Trained
<1>2. ASSUME NEW changes, SetPredicting(p, changes)
      PROVE  /\ DOMAIN predicting' = Predictors
             /\ \A q \in Predictors : q # p => predicting'[q] = predicting[q]
             /\ DOMAIN predicting'[p] = DOMAIN predicting[p]
             /\ \A f \in DOMAIN predicting[p] :
                   predicting'[p][f] = IF f \in DOMAIN changes THEN changes[f] ELSE predicting[p][f]
  BY <1>1, <1>2 DEF SetPredicting
<1>3. \A build, time : WrittenSince(build, time)' <=> WrittenSince(build, time)
  BY <1>1 DEF WrittenSince
<1>4. CASE ReadManifest(p)
  <2>1. CASE PackageIsSound
    <3>1. SetPredicting(p, [at |-> "model", time |-> clock, checksum |-> package.manifest.model])
      BY <1>4, <2>1 DEF ReadManifest
    <3>2. Loads(p)'
      BY <1>1, <1>2, <1>4, <2>1, <3>1 DEF ReadManifest, PackageIsSound, Loads
    <3> QED BY <1>1, <1>2, <3>1, <3>2, PredictingKeepsPackage
  <2>2. CASE ~PackageIsSound
    <3>1. SetPredicting(p, [at |-> "done", status |-> "refused"])
      BY <1>4, <2>2 DEF ReadManifest
    <3>2. Loads(p)'
      BY <1>1, <1>2, <1>3, <3>1 DEF Loads
    <3> QED BY <1>1, <1>2, <3>1, <3>2, PredictingKeepsPackage
  <2> QED BY <2>1, <2>2
<1>5. CASE CreateRun(p)
  <2>1. CASE package.model = NoBuild
    <3>1. SetPredicting(p, [at |-> "done", status |-> "refused"])
      BY <1>5, <2>1 DEF CreateRun
    <3>2. Loads(p)'
      BY <1>1, <1>2, <1>3, <3>1 DEF Loads
    <3> QED BY <1>1, <1>2, <3>1, <3>2, PredictingKeepsPackage
  <2>2. CASE package.model # NoBuild
    <3>1. /\ predicting[p].at = "model"
          /\ SetPredicting(p, [at |-> "fetch", build |-> package.model, status |-> "running"])
      BY <1>5, <2>2 DEF CreateRun
    <3>2. Loads(p)'
      BY <1>1, <1>2, <1>3, <3>1 DEF Loads
    <3> QED BY <1>1, <1>2, <3>1, <3>2, PredictingKeepsPackage
  <2> QED BY <2>1, <2>2
(* What follows changes neither the model of the run nor its time. *)
<1>6. ASSUME NEW changes, SetPredicting(p, changes), changes.at \notin {"idle", "model"},
             "at" \in DOMAIN changes,
             DOMAIN changes \cap {"time", "checksum", "build"} = {}
      PROVE  PackageInv'
  <2>1. Loads(p)'
    BY <1>1, <1>2, <1>3, <1>6 DEF Loads
  <2> QED BY <1>1, <1>2, <1>6, <2>1, PredictingKeepsPackage
<1>7. CASE FetchSlate(p)
  <2>1. PICK slate \in SlatesOf(SlateDate) : SetPredicting(p, [at |-> "sync", slate |-> slate])
    BY <1>7 DEF FetchSlate
  <2> QED BY <1>6, <2>1
<1>8. CASE CheckHistory(p)
  <2>1. PICK required : SetPredicting(p, [at |-> "predict", required |-> required])
    BY <1>8 DEF CheckHistory
  <2> QED BY <1>6, <2>1
<1>9. CASE PredictGame(p)
  <2>1. PICK rows : SetPredicting(p, [rows |-> rows])
    BY <1>9 DEF PredictGame
  <2>2. predicting[p].at = "predict"
    BY <1>9 DEF PredictGame
  <2>3. Loads(p)'
    BY <1>1, <1>2, <1>3, <2>1, <2>2 DEF Loads
  <2> QED BY <1>1, <1>2, <2>1, <2>3, PredictingKeepsPackage
<1>10. CASE SyncSlate(p)
  <2>1. SetPredicting(p, [at |-> "players"])
    BY <1>10 DEF SyncSlate
  <2> QED BY <1>6, <2>1
<1>11. CASE SyncStarter(p)
  <2>1. predicting' = predicting
    BY <1>11 DEF SyncStarter
  <2> QED BY <1>1, <2>1, PredictingKeepsPackage
<1>12. CASE CompleteRun(p)
  <2>1. SetPredicting(p, [at |-> "done", rows |-> {}, required |-> {}, slate |-> <<>>,
                          status |-> "completed"])
    BY <1>12 DEF CompleteRun
  <2> QED BY <1>6, <2>1
<1>13. CASE RunFails(p)
  <2>1. PICK status \in {"failed", "running"} :
          predicting' = [predicting EXCEPT ![p] =
              [NotPredicting EXCEPT !.at = "done", !.time = predicting[p].time, !.status = status]]
    BY <1>13 DEF RunFails
  <2>2. /\ DOMAIN predicting' = Predictors
        /\ \A q \in Predictors : q # p => predicting'[q] = predicting[q]
        /\ DOMAIN predicting'[p] = DOMAIN predicting[p]
        /\ predicting'[p].at = "done" /\ predicting'[p].time = predicting[p].time
        /\ predicting'[p].build = NoBuild /\ predicting'[p].checksum = NoBuild
    BY <1>1, <2>1 DEF NotPredicting, Loads
  <2>3. Loads(p)'
    BY <1>1, <2>2 DEF Loads
  <2> QED BY <1>1, <2>2, <2>3, PredictingKeepsPackage
<1> QED BY <1>4, <1>5, <1>7, <1>8, <1>9, <1>10, <1>11, <1>12, <1>13 DEF Predict, PredictorStep

(* A build that writes a model writes it now, and before it writes nothing *)
(* can be loaded.                                                          *)
LEMMA TrainerKeepsPackage ==
    ASSUME PackageInv, NEW t \in Trainers, Train(t)
    PROVE  PackageInv'
<1>1. UNCHANGED <<clock, predicting>> /\ Trained
  BY DEF Train, predictionVars, PackageInv
<1>2. ASSUME NEW changes, SetTraining(t, changes),
             "saved" \in DOMAIN changes => changes.saved = clock
      PROVE  /\ DOMAIN training' = Trainers
             /\ \A u \in Trainers : DOMAIN training'[u] = DOMAIN training[u]
             /\ \A u \in Trainers : u # t => training'[u] = training[u]
             /\ training'[t].saved \in {training[t].saved, clock}
             /\ "saved" \in DOMAIN changes => training'[t].saved = clock
  <2>1. DOMAIN training = Trainers /\ "saved" \in DOMAIN training[t]
    BY <1>1 DEF Trained
  <2> QED BY <1>2, <2>1 DEF SetTraining
<1>3. ASSUME NEW changes, SetTraining(t, changes),
             "saved" \in DOMAIN changes => changes.saved = clock,
             DOMAIN package' = DOMAIN package,
             \/ package'.model \in {package.model, NoBuild}
             \/ package'.model = BuildOf[t] /\ "saved" \in DOMAIN changes
      PROVE  PackageInv'
  <2>1. Trained'
    BY <1>1, <1>2, <1>3 DEF Trained
  <2>2. \A build : \A time \in Nat : WrittenSince(build, time) => WrittenSince(build, time)'
    <3> SUFFICES ASSUME NEW build, NEW time \in Nat,
                        NEW u \in Trainers, BuildOf[u] = build, training[u].saved >= time
                 PROVE  training'[u].saved >= time
      BY DEF WrittenSince
    <3>1. training[u].saved \in 0 .. clock /\ clock \in Nat
      BY <1>1 DEF Trained
    <3> QED BY <1>2, <1>3, <3>1
  <2>3. ASSUME NEW p \in Predictors PROVE Loads(p)'
    <3>1. Loads(p) /\ clock \in Nat
      BY <1>1 DEF PackageInv, Trained
    <3>2. CASE package'.model \in {package.model, NoBuild}
      BY <1>1, <2>2, <3>1, <3>2 DEF Loads
    <3>3. CASE package'.model = BuildOf[t] /\ "saved" \in DOMAIN changes
      <4>1. training'[t].saved >= predicting[p].time
        BY <1>2, <1>3, <3>1, <3>3 DEF Loads
      <4>2. WrittenSince(package.model, predicting[p].time)'
        BY <4>1, <3>3, <1>1 DEF WrittenSince
      <4> QED BY <1>1, <2>2, <3>1, <4>2 DEF Loads
    <3> QED BY <1>3, <3>2, <3>3
  <2> QED BY <2>1, <2>3, <1>1 DEF PackageInv
<1>4. CASE ListCompleted(t)
  <2>1. PICK listed : SetTraining(t, [at |-> "rows", listed |-> listed])
    BY <1>4 DEF ListCompleted
  <2>2. package' = package
    BY <1>4 DEF ListCompleted
  <2> QED BY <1>3, <2>1, <2>2
<1>5. CASE AddRow(t)
  <2>1. PICK listed, rows : SetTraining(t, [listed |-> listed, rows |-> rows])
    BY <1>5 DEF AddRow
  <2>2. package' = package
    BY <1>5 DEF AddRow
  <2> QED BY <1>3, <2>1, <2>2
<1>6. CASE Evaluate(t)
  <2>1. package' = package
    BY <1>6 DEF Evaluate
  <2>2. CASE CanEvaluate(training[t].rows)
    <3>1. SetTraining(t, [at |-> "fit", folds |-> Evaluation(training[t].rows), report |-> BuildOf[t]])
      BY <1>6, <2>2 DEF Evaluate
    <3> QED BY <1>3, <2>1, <3>1
  <2>3. CASE ~CanEvaluate(training[t].rows)
    <3>1. SetTraining(t, [at |-> "done"])
      BY <1>6, <2>3 DEF Evaluate
    <3> QED BY <1>3, <2>1, <3>1
  <2> QED BY <2>2, <2>3
<1>p. DOMAIN package = {"model", "manifest", "evaluation"}
  BY <1>1 DEF Trained
<1>7. CASE BeginModel(t)
  <2>1. SetTraining(t, [at |-> "model"]) /\ package' = [package EXCEPT !.model = NoBuild]
    BY <1>7 DEF BeginModel
  <2> QED BY <1>3, <1>p, <2>1
<1>8. CASE SaveModel(t)
  <2>1. SetTraining(t, [at |-> "evaluation", saved |-> clock])
        /\ package' = [package EXCEPT !.model = BuildOf[t]]
    BY <1>8 DEF SaveModel
  <2> QED BY <1>3, <1>p, <2>1
<1>9. CASE CopyEvaluation(t)
  <2>1. SetTraining(t, [at |-> "reload"])
        /\ package' = [package EXCEPT !.evaluation = training[t].report]
    BY <1>9 DEF CopyEvaluation
  <2> QED BY <1>3, <1>p, <2>1
<1>10. CASE BeginManifest(t)
  <2>1. SetTraining(t, [at |-> "manifest"])
        /\ package' = [package EXCEPT !.manifest = [model |-> NoBuild, evaluation |-> NoBuild]]
    BY <1>10 DEF BeginManifest
  <2> QED BY <1>3, <1>p, <2>1
<1>11. CASE WriteManifest(t)
  <2>1. SetTraining(t, [at |-> "done"])
        /\ package' = [package EXCEPT !.manifest = [model |-> package.model, evaluation |-> package.evaluation]]
    BY <1>11 DEF WriteManifest
  <2> QED BY <1>3, <1>p, <2>1
<1>12. CASE TrainerDies(t)
  <2>1. SetTraining(t, [at |-> "done", listed |-> <<>>]) /\ package' = package
    BY <1>12 DEF TrainerDies
  <2> QED BY <1>3, <2>1
<1> QED BY <1>4, <1>5, <1>6, <1>7, <1>8, <1>9, <1>10, <1>11, <1>12 DEF Train, TrainerStep

LEMMA OthersLeavePackage ==
    ASSUME [Next]_vars, ~ \E p \in Predictors : Predict(p), ~ \E t \in Trainers : Train(t)
    PROVE  UNCHANGED <<package, training, predicting, predictions>> /\ clock' \in {clock, clock + 1}
<1> USE DEF predictionVars
<1>1. CASE \E s \in Rosters \cap crew : Roster(s)
  BY <1>1 DEF Roster
<1>2. CASE \E i \in Ingesters \cap crew : Ingest(i)
  BY <1>2 DEF Ingest
<1>3. CASE \E r \in Recoveries \cap crew : Recover(r)
  BY <1>3 DEF Recover
<1>4. CASE Tick
  BY <1>4 DEF Tick
<1>5. CASE UNCHANGED vars
  BY <1>5 DEF vars
<1> QED BY <1>1, <1>2, <1>3, <1>4, <1>5 DEF Next

(* A run uses the model its manifest describes, or one that was written    *)
(* while it was loading: never what a build that died has left             *)
(* (moneyline_candidate.py, predictions/moneyline_service.py).             *)
THEOREM RunsUseWholePackages == Spec => []PackageIsWhole
<1>1. PackageInv /\ [Next]_vars => PackageInv'
  <2> SUFFICES ASSUME PackageInv, [Next]_vars PROVE PackageInv'
    OBVIOUS
  <2>1. CASE \E p \in Predictors : Predict(p)
    BY <2>1, PredictorKeepsPackage
  <2>2. CASE \E t \in Trainers : Train(t)
    BY <2>2, TrainerKeepsPackage
  <2>3. CASE ~ (\E p \in Predictors : Predict(p)) /\ ~ (\E t \in Trainers : Train(t))
    <3>1. UNCHANGED <<package, training, predicting>> /\ clock' \in {clock, clock + 1}
      BY <2>3, OthersLeavePackage
    <3>2. DOMAIN predicting' = Predictors
      BY <3>1 DEF PackageInv
    <3> QED BY <3>1, <3>2, PredictingKeepsPackage
  <2> QED BY <2>1, <2>2, <2>3
<1>2. PackageInv => PackageIsWhole
  BY DEF PackageInv, Loads, WrittenSince, PackageIsWhole
<1> QED BY <1>1, <1>2, InitPackageInv, PTL DEF Spec

-----------------------------------------------------------------------------
(* The folds of the transactions, step by step. *)

Date == INSTANCE FoldFacts WITH Op <- ProcessGame, Largest <- Max
Lines == INSTANCE FoldFacts WITH Op <- SavePitcher, Largest <- Max
Slate == INSTANCE FoldFacts WITH Op <- SyncGame, Largest <- Max

LEMMA MaxPicks ==
    ASSUME NEW n \in Nat
    PROVE  Date!Picks(n) /\ Lines!Picks(n) /\ Slate!Picks(n)
<1>1. \A S \in SUBSET (1 .. n) : S # {} => Max(S) \in S /\ \A k \in S : Max(S) >= k
  BY LargestOf DEF Max
<1> QED BY <1>1 DEF Date!Picks, Lines!Picks, Slate!Picks

LEMMA SeqDomain ==
    ASSUME NEW s, IsSeq(s)
    PROVE  Len(s) \in Nat /\ DOMAIN s = 1 .. Len(s)
BY DEF IsSeq

LEMMA DateSteps ==
    ASSUME NEW base, NEW seq, NEW n \in Nat, DOMAIN seq = 1 .. n
    PROVE  \E g : Date!StepByStep(base, seq, n, g) /\ FoldLeft(ProcessGame, base, seq) = g[n]
<1> DEFINE it == CHOOSE g : Date!Is(base, seq, n, g)
<1>0. Date!Picks(n)
  BY MaxPicks
<1>1. Date!Is(base, seq, n, it)
  BY <1>0, Date!Exists
<1>2. FoldLeft(ProcessGame, base, seq) = it[1 .. n]
  BY DEF FoldLeft, MapThenFoldSet, Date!Is
<1> HIDE DEF it
<1>3. \E g : Date!StepByStep(base, seq, n, g) /\ it[1 .. n] = g[n]
  BY <1>0, <1>1, Date!Steps
<1> QED BY <1>2, <1>3

LEMMA LinesSteps ==
    ASSUME NEW base, NEW seq, NEW n \in Nat, DOMAIN seq = 1 .. n
    PROVE  \E g : Lines!StepByStep(base, seq, n, g) /\ FoldLeft(SavePitcher, base, seq) = g[n]
<1> DEFINE it == CHOOSE g : Lines!Is(base, seq, n, g)
<1>0. Lines!Picks(n)
  BY MaxPicks
<1>1. Lines!Is(base, seq, n, it)
  BY <1>0, Lines!Exists
<1>2. FoldLeft(SavePitcher, base, seq) = it[1 .. n]
  BY DEF FoldLeft, MapThenFoldSet, Lines!Is
<1> HIDE DEF it
<1>3. \E g : Lines!StepByStep(base, seq, n, g) /\ it[1 .. n] = g[n]
  BY <1>0, <1>1, Lines!Steps
<1> QED BY <1>2, <1>3

LEMMA SlateSteps ==
    ASSUME NEW base, NEW seq, NEW n \in Nat, DOMAIN seq = 1 .. n
    PROVE  \E g : Slate!StepByStep(base, seq, n, g) /\ FoldLeft(SyncGame, base, seq) = g[n]
<1> DEFINE it == CHOOSE g : Slate!Is(base, seq, n, g)
<1>0. Slate!Picks(n)
  BY MaxPicks
<1>1. Slate!Is(base, seq, n, it)
  BY <1>0, Slate!Exists
<1>2. FoldLeft(SyncGame, base, seq) = it[1 .. n]
  BY DEF FoldLeft, MapThenFoldSet, Slate!Is
<1> HIDE DEF it
<1>3. \E g : Slate!StepByStep(base, seq, n, g) /\ it[1 .. n] = g[n]
  BY <1>0, <1>1, Slate!Steps
<1> QED BY <1>2, <1>3

LEMMA AppendRef ==
    ASSUME NEW s, IsSeq(s), NEW e
    PROVE  /\ IsSeq(Append(s, e)) /\ DOMAIN s \subseteq DOMAIN Append(s, e)
           /\ \A n \in DOMAIN s : Append(s, e)[n] = s[n]
           /\ \A n \in DOMAIN Append(s, e) : n \in DOMAIN s \/ Append(s, e)[n] = e
           /\ \E n \in DOMAIN Append(s, e) : Append(s, e)[n] = e
<1> DEFINE S == {s[n] : n \in DOMAIN s} \cup {e}
           a == Append(s, e)
<1>1. s \in Seq(S)
  BY DEF IsSeq
<1>2. /\ a \in Seq(S) /\ Len(a) = Len(s) + 1 /\ DOMAIN a = 1 .. Len(a) /\ DOMAIN s = 1 .. Len(s)
      /\ Len(s) \in Nat
      /\ \A n \in 1 .. Len(s) : a[n] = s[n]
      /\ a[Len(s) + 1] = e
  BY <1>1
<1> HIDE DEF a, S
<1>3. IsSeq(a)
  <2> DEFINE T == {a[n] : n \in DOMAIN a}
  <2>1. \A n \in 1 .. Len(a) : a[n] \in T
    BY <1>2
  <2> HIDE DEF T
  <2>2. a \in Seq(T)
    BY <1>2, <2>1
  <2> QED BY <2>2 DEF IsSeq, T
<1> QED BY <1>2, <1>3 DEF a

(***************************************************************************)
(* What a transaction of another process does to the history: its rows are *)
(* of games it touches, and an identity that is there keeps its game.      *)
(***************************************************************************)
KeepsMapping(x, g) == MappedTo(sources, Mlb, x) # {} => g \in MappedTo(sources, Mlb, x)

Writes(by, touched) ==
    /\ sources \subseteq sources'
    /\ \A s \in sources' \ sources : s.game \in touched /\ (s.source = Mlb => KeepsMapping(s.ext, s.game))
    /\ \A g \in DOMAIN games : g \in DOMAIN games' /\ (g \notin touched => games'[g] = games[g])
    /\ \A x \in DOMAIN results' :
          \/ x \in DOMAIN results /\ results'[x] = results[x]
          \/ /\ results'[x].by = by /\ results'[x].game \in touched
             /\ KeepsMapping(x, results'[x].game)
    /\ \A t \in teamStats' \ teamStats : t.by = by /\ t.game \in touched
    /\ \A p \in pitching' \ pitching : p.by = by /\ p.game \in touched

Touched(refs) == {t[1] : t \in {refs[n] : n \in DOMAIN refs}}

DateSoFar(tx, i) ==
    /\ DOMAIN tx = {"ok", "games", "sources", "results", "refs", "date", "by"} /\ tx.by = i
    /\ tx.ok =>
          /\ IsSeq(tx.refs)
          /\ \A n \in DOMAIN tx.refs : KeepsMapping(tx.refs[n][2], tx.refs[n][1])
          /\ sources \subseteq tx.sources
          /\ \A s \in tx.sources \ sources : \E n \in DOMAIN tx.refs : tx.refs[n] = <<s.game, s.ext>>
          /\ \A g \in DOMAIN games : g \in DOMAIN tx.games /\ tx.games[g] = games[g]
          /\ \A x \in DOMAIN tx.results :
                \/ x \in DOMAIN results /\ tx.results[x] = results[x]
                \/ /\ tx.results[x].by = i
                   /\ \E n \in DOMAIN tx.refs : tx.refs[n] = <<tx.results[x].game, x>>

LEMMA DateStep ==
    ASSUME NEW tx, NEW i, NEW e, DateSoFar(tx, i)
    PROVE  DateSoFar(ProcessGame(tx, e), i)
<1> DEFINE found == ResolveAuthoritative(tx.games, tx.sources, Mlb, e, Fresh(tx.games))
           g == CHOOSE x \in found : TRUE
           taken == \E x \in DOMAIN tx.results : x # e.ext /\ tx.results[x].game = g
           row == [game |-> g, date |-> tx.date, score |-> e.score, by |-> tx.by]
           new == ProcessGame(tx, e)
<1>1. CASE ~ (tx.ok /\ Finalized(e))
  BY <1>1 DEF ProcessGame
<1>2. CASE tx.ok /\ Finalized(e) /\ (found = {} \/ taken)
  <2>1. new = [tx EXCEPT !.ok = FALSE]
    BY <1>2 DEF ProcessGame, SaveHistoricalResult
  <2> QED BY <2>1 DEF DateSoFar
<1>3. CASE tx.ok /\ Finalized(e) /\ ~ (found = {} \/ taken)
  <2>1. new = [tx EXCEPT
              !.games = [x \in DOMAIN tx.games \cup {g} |->
                  IF x \in DOMAIN tx.games THEN tx.games[x]
                  ELSE [orient |-> e.orient, start |-> e.start]],
              !.sources = @ \cup {[source |-> Mlb, ext |-> e.ext, game |-> g]},
              !.results = [x \in DOMAIN tx.results \cup {e.ext} |->
                  IF x = e.ext THEN row ELSE tx.results[x]],
              !.refs = Append(@, <<g, e.ext>>)]
    BY <1>3 DEF ProcessGame, SaveHistoricalResult
  <2>2. g \in found
    BY <1>3
  <2>3. MappedTo(tx.sources, Mlb, e.ext) # {} => g \in MappedTo(tx.sources, Mlb, e.ext)
    BY <2>2 DEF ResolveAuthoritative
  <2> HIDE DEF found, g, taken
  <2>4. /\ DOMAIN new = DOMAIN tx /\ new.by = i /\ new.ok = tx.ok
        /\ new.sources = tx.sources \cup {[source |-> Mlb, ext |-> e.ext, game |-> g]}
        /\ new.refs = Append(tx.refs, <<g, e.ext>>)
        /\ DOMAIN new.results = DOMAIN tx.results \cup {e.ext}
        /\ new.results[e.ext] = row
        /\ \A x \in DOMAIN tx.results : x # e.ext => new.results[x] = tx.results[x]
        /\ \A x \in DOMAIN tx.games : x \in DOMAIN new.games /\ new.games[x] = tx.games[x]
    BY <2>1 DEF DateSoFar
  <2>5. row.by = i /\ row.game = g
    BY DEF DateSoFar
  <2> HIDE DEF row, new
  <2>6. KeepsMapping(e.ext, g)
    <3> SUFFICES ASSUME MappedTo(sources, Mlb, e.ext) # {} PROVE g \in MappedTo(sources, Mlb, e.ext)
      BY DEF KeepsMapping
    <3>1. MappedTo(sources, Mlb, e.ext) \subseteq MappedTo(tx.sources, Mlb, e.ext)
      BY <1>3 DEF MappedTo, DateSoFar
    <3>2. PICK s \in tx.sources : s.source = Mlb /\ s.ext = e.ext /\ s.game = g
      BY <2>3, <3>1 DEF MappedTo
    <3>3. CASE s \in sources
      BY <3>2, <3>3 DEF MappedTo
    <3>4. CASE s \notin sources
      <4>1. PICK n \in DOMAIN tx.refs : tx.refs[n] = <<g, e.ext>>
        BY <1>3, <3>2, <3>4 DEF DateSoFar
      <4>2. KeepsMapping(tx.refs[n][2], tx.refs[n][1])
        BY <1>3 DEF DateSoFar
      <4> QED BY <4>1, <4>2 DEF KeepsMapping
    <3> QED BY <3>3, <3>4
  <2>7. IsSeq(tx.refs)
    BY <1>3 DEF DateSoFar
  <2>8. /\ IsSeq(new.refs) /\ DOMAIN tx.refs \subseteq DOMAIN new.refs
        /\ \A n \in DOMAIN tx.refs : new.refs[n] = tx.refs[n]
        /\ \A n \in DOMAIN new.refs : n \in DOMAIN tx.refs \/ new.refs[n] = <<g, e.ext>>
        /\ \E n \in DOMAIN new.refs : new.refs[n] = <<g, e.ext>>
    BY <2>4, <2>7, AppendRef
  <2>9. \A n \in DOMAIN new.refs : KeepsMapping(new.refs[n][2], new.refs[n][1])
    BY <1>3, <2>6, <2>8 DEF DateSoFar
  <2>10. \A s \in new.sources \ sources : \E n \in DOMAIN new.refs : new.refs[n] = <<s.game, s.ext>>
    <3> TAKE s \in new.sources \ sources
    <3>1. CASE s \in tx.sources
      BY <1>3, <2>8, <3>1 DEF DateSoFar
    <3>2. CASE s = [source |-> Mlb, ext |-> e.ext, game |-> g]
      BY <2>8, <3>2
    <3> QED BY <2>4, <3>1, <3>2
  <2>11. \A x \in DOMAIN new.results :
            \/ x \in DOMAIN results /\ new.results[x] = results[x]
            \/ /\ new.results[x].by = i
               /\ \E n \in DOMAIN new.refs : new.refs[n] = <<new.results[x].game, x>>
    <3> TAKE x \in DOMAIN new.results
    <3>1. CASE x = e.ext
      BY <2>4, <2>5, <2>8, <3>1
    <3>2. CASE x # e.ext
      <4>1. x \in DOMAIN tx.results /\ new.results[x] = tx.results[x]
        BY <2>4, <3>2
      <4>2. \/ x \in DOMAIN results /\ tx.results[x] = results[x]
            \/ /\ tx.results[x].by = i
               /\ \E n \in DOMAIN tx.refs : tx.refs[n] = <<tx.results[x].game, x>>
        BY <1>3, <4>1 DEF DateSoFar
      <4> QED BY <2>8, <4>1, <4>2
    <3> QED BY <3>1, <3>2
  <2>12. /\ sources \subseteq new.sources
         /\ \A h \in DOMAIN games : h \in DOMAIN new.games /\ new.games[h] = games[h]
    BY <1>3, <2>4 DEF DateSoFar
  <2>13. DOMAIN new = {"ok", "games", "sources", "results", "refs", "date", "by"} /\ new.by = i
    BY <2>4 DEF DateSoFar
  <2> QED BY <2>8, <2>9, <2>10, <2>11, <2>12, <2>13 DEF DateSoFar, new
<1> QED BY <1>1, <1>2, <1>3

LEMMA DateDone ==
    ASSUME NEW i, IsSeq(ingest[i].answer)
    PROVE  DateSoFar(DateTransaction(i), i)
<1> DEFINE base == [ok |-> TRUE, games |-> games, sources |-> sources, results |-> results,
                    refs |-> <<>>, date |-> DateOfIngest[i], by |-> i]
           seq == ingest[i].answer
           n == Len(seq)
<1>1. n \in Nat /\ DOMAIN seq = 1 .. n
  BY SeqDomain
<1>2. DateSoFar(base, i)
  BY DEF DateSoFar, IsSeq
<1>3. DateTransaction(i) = FoldLeft(ProcessGame, base, seq)
  BY DEF DateTransaction
<1> HIDE DEF base, seq, n
<1>4. PICK g : Date!StepByStep(base, seq, n, g) /\ FoldLeft(ProcessGame, base, seq) = g[n]
  BY <1>1, DateSteps
<1> DEFINE T == {m \in 0 .. n : DateSoFar(g[m], i)}
<1>5. 0 \in T
  BY <1>1, <1>2, <1>4 DEF Date!StepByStep
<1>6. \A m \in 1 .. n : m - 1 \in T => m \in T
  BY <1>1, <1>4, DateStep DEF Date!StepByStep
<1>7. 0 .. n \subseteq T
  <2> HIDE DEF T
  <2> QED BY <1>1, <1>5, <1>6, UpTo
<1> QED BY <1>1, <1>3, <1>4, <1>7

(* The slate of a prediction run.                                          *)
SlateSoFar(tx) ==
    /\ DOMAIN tx = {"ok", "touched", "games", "sources"}
    /\ tx.ok =>
          /\ sources \subseteq tx.sources
          /\ \A s \in tx.sources \ sources :
                s.source = Mlb /\ s.game \in tx.touched /\ KeepsMapping(s.ext, s.game)
          /\ \A g \in DOMAIN games :
                g \in DOMAIN tx.games /\ (g \notin tx.touched => tx.games[g] = games[g])

LEMMA SlateStep ==
    ASSUME NEW tx, NEW e, SlateSoFar(tx)
    PROVE  SlateSoFar(SyncGame(tx, e))
<1> DEFINE found == Resolve(tx.games, tx.sources, Mlb, e, Fresh(tx.games))
           g == CHOOSE x \in found : TRUE
           new == SyncGame(tx, e)
           source == [source |-> Mlb, ext |-> e.ext, game |-> g]
           moved == UpdateCanonicalGame(tx.games, g, e)
<1>1. CASE ~tx.ok \/ found = {}
  <2>1. new = [tx EXCEPT !.ok = FALSE]
    BY <1>1 DEF SyncGame
  <2> QED BY <2>1 DEF SlateSoFar
<1>2. CASE tx.ok /\ found # {}
  <2>1. new = [ok |-> \A s \in tx.sources : s.game = g /\ s.source = Mlb => s.ext = e.ext,
               touched |-> tx.touched \cup {g},
               games |-> moved,
               sources |-> tx.sources \cup {source}]
    BY <1>2 DEF SyncGame
  <2>2. g \in found
    BY <1>2
  <2>3. MappedTo(tx.sources, Mlb, e.ext) # {} => g \in MappedTo(tx.sources, Mlb, e.ext)
    BY <2>2 DEF Resolve, KeepMapping
  <2> HIDE DEF found, g
  <2>4. \A x \in DOMAIN tx.games : x \in DOMAIN moved /\ (x # g => moved[x] = tx.games[x])
    BY DEF UpdateCanonicalGame
  <2>5. source.source = Mlb /\ source.ext = e.ext /\ source.game = g
    OBVIOUS
  <2> HIDE DEF source, moved
  <2>6. /\ DOMAIN new = {"ok", "touched", "games", "sources"}
        /\ new.touched = tx.touched \cup {g} /\ new.games = moved
        /\ new.sources = tx.sources \cup {source}
    BY <2>1
  <2> HIDE DEF new
  <2>7. KeepsMapping(e.ext, g)
    <3> SUFFICES ASSUME MappedTo(sources, Mlb, e.ext) # {} PROVE g \in MappedTo(sources, Mlb, e.ext)
      BY DEF KeepsMapping
    <3>1. MappedTo(sources, Mlb, e.ext) \subseteq MappedTo(tx.sources, Mlb, e.ext)
      BY <1>2 DEF MappedTo, SlateSoFar
    <3>2. PICK s \in tx.sources : s.source = Mlb /\ s.ext = e.ext /\ s.game = g
      BY <2>3, <3>1 DEF MappedTo
    <3>3. CASE s \in sources
      BY <3>2, <3>3 DEF MappedTo
    <3>4. CASE s \notin sources
      BY <1>2, <3>2, <3>4 DEF SlateSoFar, KeepsMapping
    <3> QED BY <3>3, <3>4
  <2>8. \A s \in new.sources \ sources :
           s.source = Mlb /\ s.game \in new.touched /\ KeepsMapping(s.ext, s.game)
    BY <1>2, <2>5, <2>6, <2>7 DEF SlateSoFar
  <2>9. /\ sources \subseteq new.sources
        /\ \A h \in DOMAIN games :
              h \in DOMAIN new.games /\ (h \notin new.touched => new.games[h] = games[h])
    BY <1>2, <2>4, <2>6 DEF SlateSoFar
  <2> QED BY <2>6, <2>8, <2>9 DEF SlateSoFar, new
<1> QED BY <1>1, <1>2

LEMMA SlateDone ==
    ASSUME NEW p, IsSeq(predicting[p].slate)
    PROVE  SlateSoFar(SlateTransaction(p))
<1> DEFINE base == [ok |-> TRUE, touched |-> {}, games |-> games, sources |-> sources]
           seq == predicting[p].slate
           n == Len(seq)
<1>1. n \in Nat /\ DOMAIN seq = 1 .. n
  BY SeqDomain
<1>2. SlateSoFar(base)
  BY DEF SlateSoFar
<1>3. SlateTransaction(p) = FoldLeft(SyncGame, base, seq)
  BY DEF SlateTransaction
<1> HIDE DEF base, seq, n
<1>4. PICK g : Slate!StepByStep(base, seq, n, g) /\ FoldLeft(SyncGame, base, seq) = g[n]
  BY <1>1, SlateSteps
<1> DEFINE T == {m \in 0 .. n : SlateSoFar(g[m])}
<1>5. 0 \in T
  BY <1>1, <1>2, <1>4 DEF Slate!StepByStep
<1>6. \A m \in 1 .. n : m - 1 \in T => m \in T
  BY <1>1, <1>4, SlateStep DEF Slate!StepByStep
<1>7. 0 .. n \subseteq T
  <2> HIDE DEF T
  <2> QED BY <1>1, <1>5, <1>6, UpTo
<1> QED BY <1>1, <1>3, <1>4, <1>7

(* The pitchers of a box score, and the rows that are put beside others.   *)
LineOf(n, g, by) == DOMAIN n = {"game", "team", "player", "order", "allowed", "created", "by"}
                    /\ n.game = g /\ n.by = by

LEMMA InSeq ==
    ASSUME NEW S, NEW k \in Nat, NEW s, s = [n \in 1 .. k |-> s[n]], \A n \in 1 .. k : s[n] \in S
    PROVE  s \in Seq(S)
<1>1. s \in [1 .. k -> S]
  OBVIOUS
<1> QED BY <1>1

(* Two sequences one after the other.                                      *)
LEMMA ConcatOf ==
    ASSUME NEW S, NEW s \in Seq(S), NEW t \in Seq(S)
    PROVE  IsSeq(s \o t) /\ \A n \in DOMAIN (s \o t) : (s \o t)[n] \in S
<1> DEFINE both == s \o t
<1>1. both \in Seq(S)
  OBVIOUS
<1> HIDE DEF both
<1>0. /\ DOMAIN both = 1 .. Len(both) /\ Len(both) \in Nat
      /\ \A n \in 1 .. Len(both) : both[n] \in S
      /\ both = [n \in 1 .. Len(both) |-> both[n]]
  BY <1>1
<1> DEFINE T == {both[n] : n \in DOMAIN both}
<1>2. \A n \in 1 .. Len(both) : both[n] \in T
  BY <1>0
<1> HIDE DEF T
<1>3. both \in Seq(T)
  BY <1>0, <1>2, InSeq
<1> QED BY <1>0, <1>3 DEF IsSeq, T, both

LEMMA PitchingLinesOf ==
    ASSUME NEW box \in BoxScores, NEW g, NEW ids, NEW by, NEW at
    PROVE  /\ IsSeq(PitchingLines(box, g, ids, by, at))
           /\ \A n \in DOMAIN PitchingLines(box, g, ids, by, at) :
                 LineOf(PitchingLines(box, g, ids, by, at)[n], g, by)
<1> DEFINE lines(s) == [n \in DOMAIN box.sides[s].pitchers |->
               [game |-> g, team |-> box.sides[s].team, player |-> ids[box.sides[s].pitchers[n].ext],
                order |-> n, allowed |-> box.sides[s].pitchers[n].allowed, created |-> at, by |-> by]]
           S == {lines(1)[n] : n \in DOMAIN lines(1)} \cup {lines(2)[n] : n \in DOMAIN lines(2)}
           both == lines(2) \o lines(1)
<1>1. \A s \in {1, 2} : \A n \in DOMAIN lines(s) : LineOf(lines(s)[n], g, by)
  BY DEF LineOf
<1>2. ASSUME NEW s \in {1, 2} PROVE \E k \in Nat : DOMAIN lines(s) = 1 .. k
  <2>1. IsSeq(box.sides[s].pitchers)
    BY ResultsAssumption
  <2>2. Len(box.sides[s].pitchers) \in Nat
        /\ DOMAIN box.sides[s].pitchers = 1 .. Len(box.sides[s].pitchers)
    BY <2>1, SeqDomain
  <2> QED BY <2>2
<1>3. PICK k \in Nat : DOMAIN lines(1) = 1 .. k
  BY <1>2
<1>4. PICK l \in Nat : DOMAIN lines(2) = 1 .. l
  BY <1>2
<1>5. /\ lines(1) = [n \in 1 .. k |-> lines(1)[n]] /\ lines(2) = [n \in 1 .. l |-> lines(2)[n]]
      /\ \A n \in 1 .. k : lines(1)[n] \in S
      /\ \A n \in 1 .. l : lines(2)[n] \in S
  BY <1>3, <1>4
<1>6. \A x \in S : LineOf(x, g, by)
  BY <1>1
<1>7. PitchingLines(box, g, ids, by, at) = both
  BY DEF PitchingLines
<1> DEFINE first == lines(1)
           second == lines(2)
<1>8. /\ DOMAIN first = 1 .. k /\ DOMAIN second = 1 .. l
      /\ first = [n \in 1 .. k |-> first[n]] /\ second = [n \in 1 .. l |-> second[n]]
      /\ \A n \in 1 .. k : first[n] \in S
      /\ \A n \in 1 .. l : second[n] \in S
      /\ both = second \o first
  BY <1>3, <1>4, <1>5
<1> HIDE DEF S, both, first, second, lines
<1>9. first \in Seq(S) /\ second \in Seq(S)
  BY <1>3, <1>4, <1>8, InSeq
<1>10. IsSeq(both) /\ \A n \in DOMAIN both : both[n] \in S
  BY <1>8, <1>9, ConcatOf
<1> QED BY <1>6, <1>7, <1>10

LEMMA UpsertAdds ==
    ASSUME NEW rows, NEW new, NEW key, NEW g, NEW by,
           \A n \in new : /\ "game" \in DOMAIN n /\ "by" \in DOMAIN n
                          /\ n.game = g /\ n.by = by
    PROVE  \A r \in Upsert(rows, new, key) \ rows : r.game = g /\ r.by = by
<1> DEFINE Stored(n) == {r \in rows : r.game = n.game /\ r[key] = n[key]}
           Kept(n) == [n EXCEPT !.created = IF Stored(n) = {} THEN @ ELSE (CHOOSE r \in Stored(n) : TRUE).created]
<1>1. \A r \in Upsert(rows, new, key) \ rows : \E n \in new : r = Kept(n)
  BY DEF Upsert
<1>2. \A n \in new : Kept(n).game = n.game /\ Kept(n).by = n.by
  OBVIOUS
<1> QED BY <1>1, <1>2

LinesSoFar(saved, g, by) ==
    /\ DOMAIN saved = {"ok", "rows"}
    /\ \A r \in saved.rows \ pitching : r.game = g /\ r.by = by

LEMMA LinesDone ==
    ASSUME NEW box \in BoxScores, NEW g, NEW ids, NEW by, NEW at
    PROVE  LinesSoFar(SavePitchers(PitchingLines(box, g, ids, by, at)), g, by)
<1> DEFINE base == [ok |-> TRUE, rows |-> pitching]
           seq == PitchingLines(box, g, ids, by, at)
           n == Len(seq)
<1>1. IsSeq(seq) /\ \A m \in DOMAIN seq : LineOf(seq[m], g, by)
  BY PitchingLinesOf
<1>2. n \in Nat /\ DOMAIN seq = 1 .. n
  BY <1>1, SeqDomain
<1>3. LinesSoFar(base, g, by)
  BY DEF LinesSoFar
<1>4. SavePitchers(seq) = FoldLeft(SavePitcher, base, seq)
  BY DEF SavePitchers
<1> HIDE DEF base, seq, n
<1>5. PICK f : Lines!StepByStep(base, seq, n, f) /\ FoldLeft(SavePitcher, base, seq) = f[n]
  BY <1>2, LinesSteps
<1>6. ASSUME NEW saved, LinesSoFar(saved, g, by), NEW line, LineOf(line, g, by)
      PROVE  LinesSoFar(SavePitcher(saved, line), g, by)
  <2>0. \A l \in {line} : /\ "game" \in DOMAIN l /\ "by" \in DOMAIN l
                          /\ l.game = g /\ l.by = by
    BY <1>6 DEF LineOf
  <2>1. \A r \in Upsert(saved.rows, {line}, "player") \ saved.rows : r.game = g /\ r.by = by
    BY <2>0, UpsertAdds
  <2> DEFINE more == [saved EXCEPT !.rows = Upsert(@, {line}, "player")]
             less == [saved EXCEPT !.ok = FALSE]
  <2>2. SavePitcher(saved, line) \in {saved, less, more}
    BY DEF SavePitcher
  <2>3. LinesSoFar(less, g, by)
    BY <1>6 DEF LinesSoFar
  <2>4. LinesSoFar(more, g, by)
    BY <1>6, <2>1 DEF LinesSoFar
  <2> QED BY <1>6, <2>2, <2>3, <2>4
<1> DEFINE T == {m \in 0 .. n : LinesSoFar(f[m], g, by)}
<1>7. 0 \in T
  BY <1>2, <1>3, <1>5 DEF Lines!StepByStep
<1>8. \A m \in 1 .. n : m - 1 \in T => m \in T
  BY <1>1, <1>2, <1>5, <1>6 DEF Lines!StepByStep
<1>9. 0 .. n \subseteq T
  <2> HIDE DEF T
  <2> QED BY <1>2, <1>7, <1>8, UpTo
<1> QED BY <1>2, <1>4, <1>5, <1>9 DEF seq

(***************************************************************************)
(* What the backfills and the prediction runs hold of the answers they     *)
(* were given.                                                             *)
(***************************************************************************)
IngestFields == {"at", "answer", "refs", "box", "retryable", "permanent"}

Holds(i) ==
    /\ DOMAIN ingest[i] = IngestFields
    /\ ingest[i].at = "store" => ingest[i].answer \in SchedulesOf(DateOfIngest[i])
    /\ ingest[i].at = "players" => ingest[i].box \in BoxScores

IngestInv == DOMAIN ingest = Ingesters /\ \A i \in Ingesters : Holds(i)

LEMMA InitIngestInv == Init => IngestInv
BY DEF Init, ResultsInit, Idle, IngestInv, Holds, IngestFields

LEMMA IngestChanges ==
    ASSUME IngestInv, NEW i \in Ingesters, NEW changes, SetIngest(i, changes)
    PROVE  /\ DOMAIN ingest' = Ingesters
           /\ \A j \in Ingesters : j # i => ingest'[j] = ingest[j]
           /\ DOMAIN ingest'[i] = IngestFields
           /\ \A f \in IngestFields :
                 ingest'[i][f] = IF f \in DOMAIN changes THEN changes[f] ELSE ingest[i][f]
BY DEF IngestInv, Holds, SetIngest

(* A step that leaves "at" where nothing is asked of the answers. *)
LEMMA IngestMovesOn ==
    ASSUME IngestInv, NEW i \in Ingesters, NEW changes, SetIngest(i, changes),
           "at" \in DOMAIN changes, changes["at"] \notin {"store", "players"}
    PROVE  IngestInv'
<1>1. ingest'[i].at = changes["at"]
  BY IngestChanges DEF IngestFields
<1> QED BY <1>1, IngestChanges DEF IngestInv, Holds

LEMMA IngestKeepsInv ==
    ASSUME IngestInv, NEW i \in Ingesters, Ingest(i)
    PROVE  IngestInv'
<1>1. CASE FetchSchedule(i)
  <2>1. ASSUME NEW a \in Answers(DateOfIngest[i]), SetIngest(i, [at |-> "store", answer |-> a])
        PROVE  IngestInv'
    <3>1. a \in SchedulesOf(DateOfIngest[i])
      BY <2>1 DEF Answers
    <3>2. ingest'[i].at = "store" /\ ingest'[i].answer = a
      BY <2>1, IngestChanges DEF IngestFields
    <3> QED BY <2>1, <3>1, <3>2, IngestChanges DEF IngestInv, Holds
  <2>2. CASE SetIngest(i, [at |-> "done", retryable |-> TRUE])
    BY <2>2, IngestMovesOn
  <2>3. CASE SetIngest(i, [at |-> "done", permanent |-> TRUE])
    BY <2>3, IngestMovesOn
  <2> QED BY <1>1, <2>1, <2>2, <2>3 DEF FetchSchedule
<1>2. CASE StoreResults(i)
  <2>1. CASE SetIngest(i, [at |-> "check", refs |-> DateTransaction(i).refs])
    BY <2>1, IngestMovesOn
  <2>2. CASE SetIngest(i, [at |-> "done", permanent |-> TRUE])
    BY <2>2, IngestMovesOn
  <2> QED BY <1>2, <2>1, <2>2 DEF StoreResults
<1>3. CASE SkipComplete(i)
  <2>1. ASSUME NEW refs, SetIngest(i, [at |-> "boxes", refs |-> refs]) PROVE IngestInv'
    BY <2>1, IngestMovesOn
  <2>2. CASE SetIngest(i, [at |-> "done", permanent |-> TRUE])
    BY <2>2, IngestMovesOn
  <2> QED BY <1>3, <2>1, <2>2 DEF SkipComplete
<1>4. CASE FetchBoxScore(i)
  <2>1. ASSUME NEW b \in BoxScores, SetIngest(i, [at |-> "players", box |-> b])
        PROVE  IngestInv'
    <3>1. ingest'[i].at = "players" /\ ingest'[i].box = b
      BY <2>1, IngestChanges DEF IngestFields
    <3> QED BY <2>1, <3>1, IngestChanges DEF IngestInv, Holds
  <2>2. ASSUME NEW refs, NEW retryable, NEW permanent, ingest[i].at = "boxes",
               SetIngest(i, [refs |-> refs, retryable |-> retryable, permanent |-> permanent])
        PROVE  IngestInv'
    <3>1. ingest'[i].at = "boxes"
      BY <2>2, IngestChanges DEF IngestFields
    <3> QED BY <2>2, <3>1, IngestChanges DEF IngestInv, Holds
  <2> QED BY <1>4, <2>1, <2>2 DEF FetchBoxScore
<1>5. CASE SyncBoxPlayer(i)
  BY <1>5 DEF SyncBoxPlayer, resultsVars, IngestInv, Holds
<1>6. ASSUME NEW refs, NEW permanent,
             \/ SetIngest(i, [at |-> "boxes", box |-> NoBox, refs |-> refs])
             \/ SetIngest(i, [at |-> "boxes", box |-> NoBox, refs |-> refs, permanent |-> permanent])
      PROVE  IngestInv'
  <2>1. CASE SetIngest(i, [at |-> "boxes", box |-> NoBox, refs |-> refs])
    BY <2>1, IngestMovesOn
  <2>2. CASE SetIngest(i, [at |-> "boxes", box |-> NoBox, refs |-> refs, permanent |-> permanent])
    BY <2>2, IngestMovesOn
  <2> QED BY <1>6, <2>1, <2>2
<1>7. CASE SaveBoxScore(i) \/ BoxScoreFails(i)
  BY <1>6, <1>7 DEF SaveBoxScore, BoxScoreFails
<1>8. CASE DateEnds(i)
  <2>1. SetIngest(i, [at |-> "done", answer |-> <<>>])
    BY <1>8 DEF DateEnds
  <2> QED BY <2>1, IngestMovesOn
<1>9. CASE IngesterDies(i)
  BY <1>9 DEF IngesterDies, Idle, IngestInv, Holds, IngestFields
<1> QED BY <1>1, <1>2, <1>3, <1>4, <1>5, <1>7, <1>8, <1>9 DEF Ingest, IngestStep

SlateInv ==
    /\ DOMAIN predicting = Predictors
    /\ \A p \in Predictors :
          /\ DOMAIN predicting[p] = DOMAIN NotPredicting
          /\ predicting[p].at = "sync" => predicting[p].slate \in SlatesOf(SlateDate)

LEMMA InitSlateInv == Init => SlateInv
BY DEF Init, PredictionInit, NotPredicting, SlateInv

LEMMA PredictKeepsSlateInv ==
    ASSUME SlateInv, NEW p \in Predictors, Predict(p)
    PROVE  SlateInv'
<1>1. ASSUME NEW changes, SetPredicting(p, changes)
      PROVE  /\ DOMAIN predicting' = Predictors
             /\ \A q \in Predictors : q # p => predicting'[q] = predicting[q]
             /\ DOMAIN predicting'[p] = DOMAIN predicting[p]
             /\ \A f \in DOMAIN predicting[p] :
                   predicting'[p][f] = IF f \in DOMAIN changes THEN changes[f] ELSE predicting[p][f]
  BY <1>1 DEF SlateInv, SetPredicting
<1>2. "at" \in DOMAIN predicting[p] /\ "slate" \in DOMAIN predicting[p]
  BY DEF SlateInv, NotPredicting
<1>3. ASSUME NEW changes, SetPredicting(p, changes),
             "at" \in DOMAIN changes, changes["at"] # "sync"
      PROVE  SlateInv'
  <2>1. predicting'[p].at # "sync"
    BY <1>1, <1>2, <1>3
  <2> QED BY <1>1, <1>3, <2>1 DEF SlateInv
<1>4. CASE ReadManifest(p)
  BY <1>3, <1>4 DEF ReadManifest
<1>5. CASE CreateRun(p)
  BY <1>3, <1>5 DEF CreateRun
<1>6. CASE FetchSlate(p)
  <2>1. PICK slate \in SlatesOf(SlateDate) : SetPredicting(p, [at |-> "sync", slate |-> slate])
    BY <1>6 DEF FetchSlate
  <2>2. predicting'[p].slate = slate
    BY <1>1, <1>2, <2>1
  <2> QED BY <1>1, <2>1, <2>2 DEF SlateInv
<1>7. CASE SyncSlate(p) \/ CheckHistory(p)
  BY <1>3, <1>7 DEF SyncSlate, CheckHistory
<1>8. CASE PredictGame(p)
  <2>1. PICK rows : SetPredicting(p, [rows |-> rows])
    BY <1>8 DEF PredictGame
  <2>2. predicting'[p].at = "predict"
    BY <1>1, <1>2, <1>8, <2>1 DEF PredictGame
  <2> QED BY <1>1, <2>1, <2>2 DEF SlateInv
<1>9. CASE SyncStarter(p)
  BY <1>9 DEF SyncStarter, SlateInv
<1>10. CASE CompleteRun(p)
  BY <1>3, <1>10 DEF CompleteRun
<1>11. CASE RunFails(p)
  BY <1>11 DEF RunFails, SlateInv, NotPredicting
<1> QED BY <1>4, <1>5, <1>6, <1>7, <1>8, <1>9, <1>10, <1>11 DEF Predict, PredictorStep

(***************************************************************************)
(* What a step of each process writes.                                     *)
(***************************************************************************)
WritesFree(by) == \E touched : touched \cap locked = {} /\ Writes(by, touched)

LEMMA NothingWritten ==
    ASSUME UNCHANGED historyVars, NEW by
    PROVE  WritesFree(by)
<1>1. Writes(by, {})
  BY DEF historyVars, Writes
<1> QED BY <1>1 DEF WritesFree

LEMMA DateWrites ==
    ASSUME IngestInv, NEW i \in Ingesters, Ingest(i), StoreResults(i)
    PROVE  WritesFree(i)
<1> DEFINE tx == DateTransaction(i)
           touched == {r[1] : r \in {tx.refs[n] : n \in DOMAIN tx.refs}}
<1>1. CASE ~tx.ok
  BY <1>1, NothingWritten DEF StoreResults, historyVars
<1>2. CASE tx.ok
  <2>1. /\ touched \cap locked = {}
        /\ games' = tx.games /\ sources' = tx.sources /\ results' = tx.results
        /\ UNCHANGED <<teamStats, pitching>>
    BY <1>2 DEF StoreResults
  <2>2. DateSoFar(tx, i)
    BY ResultsAssumption, DateDone DEF StoreResults, IngestInv, Holds
  <2>3. \A n \in DOMAIN tx.refs : tx.refs[n][1] \in touched
    OBVIOUS
  <2> HIDE DEF tx, touched
  <2>4. ASSUME NEW g, NEW x, NEW n \in DOMAIN tx.refs, tx.refs[n] = <<g, x>>
        PROVE  g \in touched /\ KeepsMapping(x, g)
    <3>1. KeepsMapping(tx.refs[n][2], tx.refs[n][1])
      BY <1>2, <2>2 DEF DateSoFar
    <3> QED BY <2>3, <2>4, <3>1
  <2>5. \A s \in sources' \ sources : s.game \in touched /\ KeepsMapping(s.ext, s.game)
    BY <1>2, <2>1, <2>2, <2>4 DEF DateSoFar
  <2>6. \A x \in DOMAIN results' :
           \/ x \in DOMAIN results /\ results'[x] = results[x]
           \/ /\ results'[x].by = i /\ results'[x].game \in touched
              /\ KeepsMapping(x, results'[x].game)
    BY <1>2, <2>1, <2>2, <2>4 DEF DateSoFar
  <2>7. /\ sources \subseteq sources'
        /\ \A g \in DOMAIN games : g \in DOMAIN games' /\ games'[g] = games[g]
    BY <1>2, <2>1, <2>2 DEF DateSoFar
  <2>8. Writes(i, touched)
    BY <2>1, <2>5, <2>6, <2>7 DEF Writes
  <2> QED BY <2>1, <2>8 DEF WritesFree
<1> QED BY <1>1, <1>2

LEMMA BoxWrites ==
    ASSUME IngestInv, NEW i \in Ingesters, Ingest(i), SaveBoxScore(i)
    PROVE  WritesFree(i)
<1> DEFINE b == ingest[i].box
           g == Head(ingest[i].refs)[1]
           saved == SavePitchers(PitchingLines(b, g, playerIds, i, clock))
           teams == TeamRows(b, g, i, clock)
<1>1. UNCHANGED <<games, sources, results>>
  BY DEF SaveBoxScore
<1>2. CASE UNCHANGED <<teamStats, pitching>>
  BY <1>1, <1>2, NothingWritten DEF historyVars
<1>3. CASE g \notin locked /\ teamStats' = Upsert(teamStats, teams, "team") /\ pitching' = saved.rows
  <2>1. b \in BoxScores
    BY DEF SaveBoxScore, IngestInv, Holds
  <2>2. LinesSoFar(saved, g, i)
    BY <2>1, LinesDone
  <2>3. \A t \in teams : /\ "game" \in DOMAIN t /\ "by" \in DOMAIN t
                         /\ t.game = g /\ t.by = i
    BY DEF TeamRows
  <2> HIDE DEF b, g, saved, teams
  <2>4. \A t \in teamStats' \ teamStats : t.game = g /\ t.by = i
    BY <1>3, <2>3, UpsertAdds
  <2>5. \A p \in pitching' \ pitching : p.game = g /\ p.by = i
    BY <1>3, <2>2 DEF LinesSoFar
  <2>6. Writes(i, {g})
    BY <1>1, <2>4, <2>5 DEF Writes
  <2> QED BY <1>3, <2>6 DEF WritesFree
<1> QED BY <1>2, <1>3 DEF SaveBoxScore

LEMMA IngestWrites ==
    ASSUME IngestInv, NEW i \in Ingesters, Ingest(i)
    PROVE  WritesFree(i) /\ UNCHANGED <<locked, recovery>>
<1>1. CASE StoreResults(i)
  BY <1>1, DateWrites DEF StoreResults, Ingest
<1>2. CASE SaveBoxScore(i)
  BY <1>2, BoxWrites DEF SaveBoxScore, Ingest
<1>3. CASE FetchSchedule(i) \/ SkipComplete(i) \/ FetchBoxScore(i) \/ BoxScoreFails(i)
           \/ DateEnds(i) \/ IngesterDies(i)
  <2>1. UNCHANGED <<historyVars, locked>>
    BY <1>3 DEF FetchSchedule, SkipComplete, FetchBoxScore, BoxScoreFails, DateEnds, IngesterDies
  <2> QED BY <2>1, NothingWritten DEF Ingest
<1>4. CASE SyncBoxPlayer(i)
  <2>1. UNCHANGED historyVars /\ UNCHANGED locked
    BY <1>4 DEF SyncBoxPlayer, resultsVars
  <2> QED BY <2>1, NothingWritten DEF Ingest
<1> QED BY <1>1, <1>2, <1>3, <1>4 DEF Ingest, IngestStep

LEMMA PredictWrites ==
    ASSUME SlateInv, NEW p \in Predictors, Predict(p)
    PROVE  WritesFree(p) /\ UNCHANGED <<locked, recovery>>
<1>1. CASE SyncSlate(p)
  <2> DEFINE tx == SlateTransaction(p)
  <2>1. /\ tx.ok /\ tx.touched \cap locked = {}
        /\ games' = tx.games /\ sources' = tx.sources
        /\ UNCHANGED <<results, teamStats, pitching>>
    BY <1>1 DEF SyncSlate
  <2>2. SlateSoFar(tx)
    BY <1>1, PredictionAssumption, SlateDone DEF SyncSlate, SlateInv
  <2> HIDE DEF tx
  <2>3. Writes(p, tx.touched)
    BY <2>1, <2>2 DEF SlateSoFar, Writes
  <2> QED BY <2>1, <2>3 DEF WritesFree, Predict
<1>2. CASE ~SyncSlate(p)
  <2>1. UNCHANGED historyVars
    BY <1>2 DEF Predict, PredictorStep, SyncStarter
  <2> QED BY <2>1, NothingWritten DEF Predict
<1> QED BY <1>1, <1>2

(***************************************************************************)
(* The inductive invariant of the recoveries.  One that is about to commit *)
(* holds the locks of its games: nothing of what it has compared under     *)
(* them can change, and no two hold the same game.  A row of a recovery    *)
(* says that its commit was made.                                          *)
(***************************************************************************)
RecoveryFields == {"at", "answer", "boxes", "people", "manifest", "players", "began", "status"}

Gathered(r) ==
    recovery[r].at \in {"people", "plan", "approval", "execute", "commit"} =>
        /\ recovery[r].boxes \subseteq BoxScores
        /\ {b.ext : b \in recovery[r].boxes} = {e.ext : e \in Eligible(r, recovery[r].answer)}

Held(r) ==
    /\ LockedBy(r) \subseteq locked
    /\ Mapped(AllowList[r])
    /\ Identities(AllowList[r]) = recovery[r].manifest.games
    /\ TargetsAbsent(r)

RowsBy(r) ==
    \/ \E x \in DOMAIN results : results[x].by = r
    \/ \E t \in teamStats : t.by = r
    \/ \E p \in pitching : p.by = r

Guarded(r) ==
    /\ DOMAIN recovery[r] = RecoveryFields
    /\ Gathered(r)
    /\ recovery[r].at = "commit" => Held(r)
    /\ RowsBy(r) => recovery[r].at = "done"
                    /\ recovery[r].status \in {"complete", "unknown-commit-state"}

RecoveryInv ==
    /\ DOMAIN recovery = Recoveries
    /\ \A r \in Recoveries : Guarded(r)
    /\ \A q, r \in Recoveries : q # r /\ recovery[q].at = "commit" /\ recovery[r].at = "commit" =>
          LockedBy(q) \cap LockedBy(r) = {}

LEMMA InitRecoveryInv == Init => RecoveryInv
<1> SUFFICES ASSUME Init PROVE RecoveryInv
  OBVIOUS
<1>1. /\ DOMAIN recovery = Recoveries
      /\ \A r \in Recoveries : recovery[r].at = "idle" /\ DOMAIN recovery[r] = RecoveryFields
  BY DEF Init, RecoveryInit, NoRecovery, RecoveryFields
<1>2. \A r \in Recoveries : ~RowsBy(r)
  BY RecoveryAssumption DEF Init, ResultsInit, RowsBy
<1> QED BY <1>1, <1>2 DEF RecoveryInv, Guarded, Gathered

(* A game of the list is the one that was approved, and it is locked. *)
LEMMA HeldGame ==
    ASSUME NEW r \in Recoveries, Held(r), NEW x \in AllowList[r]
    PROVE  \E g \in DOMAIN games :
               /\ MappedTo(sources, Mlb, x) = {g}
               /\ recovery[r].manifest.games[x] =
                      [game |-> g, row |-> games[g], sources |-> {s \in sources : s.game = g}]
               /\ g \in LockedBy(r)
<1>1. PICK g \in DOMAIN games : MappedTo(sources, Mlb, x) = {g}
  BY DEF Held, Mapped
<1>2. GameOf(x) = g
  BY <1>1 DEF GameOf
<1>3. recovery[r].manifest.games[x] =
          [game |-> g, row |-> games[g], sources |-> {s \in sources : s.game = g}]
  BY <1>2 DEF Held, Identities, Identity
<1>4. g \in LockedBy(r)
  BY <1>3 DEF LockedBy
<1> QED BY <1>1, <1>3, <1>4

LEMMA TargetsAreLocked ==
    ASSUME NEW r \in Recoveries
    PROVE  Targets(r) \subseteq LockedBy(r)
BY DEF Targets, LockedBy, Eligible

LEMMA HeldStays ==
    ASSUME NEW r \in Recoveries, Held(r), recovery'[r] = recovery[r], LockedBy(r) \subseteq locked',
           NEW by, NEW touched, Writes(by, touched), touched \cap LockedBy(r) = {}
    PROVE  Held(r)'
<1>1. LockedBy(r)' = LockedBy(r) /\ Targets(r)' = Targets(r)
  BY DEF LockedBy, Targets, Eligible, Listed
<1>2. ASSUME NEW x \in AllowList[r]
      PROVE  /\ \E g \in DOMAIN games' : MappedTo(sources', Mlb, x) = {g}
             /\ Identity(x)' = recovery[r].manifest.games[x]
  <2>1. PICK g \in DOMAIN games :
            /\ MappedTo(sources, Mlb, x) = {g}
            /\ recovery[r].manifest.games[x] =
                   [game |-> g, row |-> games[g], sources |-> {s \in sources : s.game = g}]
            /\ g \in LockedBy(r)
    BY HeldGame
  <2>2. g \notin touched /\ g \in DOMAIN games' /\ games'[g] = games[g]
    BY <2>1 DEF Writes
  <2>3. MappedTo(sources', Mlb, x) = {g}
    <3>1. MappedTo(sources, Mlb, x) \subseteq MappedTo(sources', Mlb, x)
      BY DEF MappedTo, Writes
    <3>2. ASSUME NEW s \in sources', s.source = Mlb, s.ext = x PROVE s.game = g
      <4>1. CASE s \in sources
        BY <2>1, <3>2, <4>1 DEF MappedTo
      <4>2. CASE s \notin sources
        <5>1. KeepsMapping(x, s.game)
          BY <3>2, <4>2 DEF Writes
        <5> QED BY <2>1, <5>1 DEF KeepsMapping
      <4> QED BY <4>1, <4>2
    <3>3. MappedTo(sources', Mlb, x) \subseteq {g}
      BY <3>2 DEF MappedTo
    <3> QED BY <2>1, <3>1, <3>3
  <2>4. {s \in sources' : s.game = g} = {s \in sources : s.game = g}
    BY <2>2 DEF Writes
  <2>5. GameOf(x)' = g
    BY <2>3 DEF GameOf
  <2>6. Identity(x)' = [game |-> g, row |-> games'[g], sources |-> {s \in sources' : s.game = g}]
    BY <2>5 DEF Identity
  <2> QED BY <2>1, <2>2, <2>3, <2>4, <2>6
<1>3. Mapped(AllowList[r])'
  BY <1>2 DEF Mapped
<1>4. Identities(AllowList[r])' = recovery'[r].manifest.games
  <2>1. recovery[r].manifest.games = Identities(AllowList[r])
    BY DEF Held
  <2>2. DOMAIN recovery[r].manifest.games = AllowList[r]
        /\ recovery[r].manifest.games = [x \in AllowList[r] |-> recovery[r].manifest.games[x]]
    BY <2>1 DEF Identities
  <2>3. Identities(AllowList[r])' = [x \in AllowList[r] |-> recovery[r].manifest.games[x]]
    BY <1>2 DEF Identities
  <2> QED BY <2>2, <2>3
<1>5. TargetsAbsent(r)'
  <2>0. \A g \in touched : g \notin Targets(r)
    BY TargetsAreLocked
  <2>1. ASSUME NEW x \in DOMAIN results'
        PROVE  results'[x].game \notin Targets(r) /\ x \notin AllowList[r]
    <3>1. CASE x \in DOMAIN results /\ results'[x] = results[x]
      BY <3>1 DEF Held, TargetsAbsent
    <3>2. CASE results'[x].game \in touched /\ KeepsMapping(x, results'[x].game)
      <4>1. ASSUME x \in AllowList[r] PROVE FALSE
        <5>1. PICK g : MappedTo(sources, Mlb, x) = {g} /\ g \in LockedBy(r)
          BY <4>1, HeldGame
        <5> QED BY <3>2, <5>1 DEF KeepsMapping
      <4> QED BY <2>0, <3>2, <4>1
    <3> QED BY <3>1, <3>2 DEF Writes
  <2>2. \A t \in teamStats' : t.game \notin Targets(r)
    BY <2>0 DEF Writes, Held, TargetsAbsent
  <2>3. \A p \in pitching' : p.game \notin Targets(r)
    BY <2>0 DEF Writes, Held, TargetsAbsent
  <2> QED BY <1>1, <2>1, <2>2, <2>3 DEF TargetsAbsent
<1> QED BY <1>1, <1>3, <1>4, <1>5 DEF Held

(* A recovery that does not move, while another process writes. *)
LEMMA GuardedStays ==
    ASSUME NEW r \in Recoveries, Guarded(r), recovery'[r] = recovery[r],
           NEW by, by # r, NEW touched, Writes(by, touched),
           recovery[r].at = "commit" =>
               touched \cap LockedBy(r) = {} /\ LockedBy(r) \subseteq locked'
    PROVE  Guarded(r)' /\ ~RecoveryWrites(r)
<1>1. Gathered(r)'
  BY DEF Guarded, Gathered, Eligible, Listed
<1>2. recovery'[r].at = "commit" => Held(r)'
  BY HeldStays DEF Guarded
<1>3. ~RecoveryWrites(r) /\ (RowsBy(r)' => RowsBy(r))
  BY DEF Writes, RecoveryWrites, RowsBy
<1> QED BY <1>1, <1>2, <1>3 DEF Guarded

(* The commit writes rows of the games that were approved and final, and   *)
(* all of them.                                                            *)
LEMMA PitchingRowsOf ==
    ASSUME NEW box \in BoxScores, NEW g, NEW ids, NEW by, NEW at
    PROVE  \A p \in PitchingRows(box, g, ids, by, at) : p.game = g /\ p.by = by
BY PitchingLinesOf DEF PitchingRows, ToSet, LineOf

LEMMA CommitWrites ==
    ASSUME NEW r \in Recoveries, Held(r), Gathered(r), ~RowsBy(r), recovery[r].at = "commit",
           Insert(r), UNCHANGED <<games, sources>>
    PROVE  /\ Writes(r, Targets(r))
           /\ WrittenGames(r)' = Targets(r)
           /\ teamStats \subseteq teamStats' /\ pitching \subseteq pitching'
           /\ \A x \in DOMAIN results : x \in DOMAIN results' /\ results'[x] = results[x]
<1> DEFINE eligible == Eligible(r, recovery[r].answer)
           game(ext) == recovery[r].manifest.games[ext].game
           exts == {e.ext : e \in eligible}
           rows(b) == TeamRows(b, game(b.ext), r, recovery[r].began)
           lines(b) == PitchingRows(b, game(b.ext), Synchronized(r), r, recovery[r].began)
           byExt == [x \in exts |-> CHOOSE e \in eligible : e.ext = x]
<1>1. /\ results' = [x \in DOMAIN results \cup exts |->
             IF x \in DOMAIN results THEN results[x]
             ELSE [game |-> game(x), date |-> DateOfRecovery[r], score |-> byExt[x].score, by |-> r]]
      /\ teamStats' = teamStats \cup UNION {rows(b) : b \in recovery[r].boxes}
      /\ pitching' = pitching \cup UNION {lines(b) : b \in recovery[r].boxes}
  BY DEF Insert
<1>2. /\ recovery[r].boxes \subseteq BoxScores
      /\ \A b \in recovery[r].boxes : b.ext \in exts
  BY DEF Gathered
<1>3. /\ Targets(r) = {game(x) : x \in exts} /\ exts \subseteq AllowList[r]
      /\ \A x \in exts : game(x) \in Targets(r)
  BY DEF Targets, Eligible
<1>4. \A x \in exts : x \notin DOMAIN results
  BY <1>3 DEF Held, TargetsAbsent
<1>5. \A b \in recovery[r].boxes : \A t \in rows(b) : t.game \in Targets(r) /\ t.by = r
  BY <1>2, <1>3 DEF TeamRows
<1>6. \A b \in recovery[r].boxes : \A p \in lines(b) : p.game \in Targets(r) /\ p.by = r
  BY <1>2, <1>3, PitchingRowsOf
<1> HIDE DEF exts
<1>7. ASSUME NEW x \in exts PROVE KeepsMapping(x, game(x))
  <2>1. x \in AllowList[r]
    BY <1>3
  <2>2. PICK g \in DOMAIN games :
            /\ MappedTo(sources, Mlb, x) = {g}
            /\ recovery[r].manifest.games[x] =
                   [game |-> g, row |-> games[g], sources |-> {s \in sources : s.game = g}]
            /\ g \in LockedBy(r)
    BY <2>1, HeldGame
  <2> QED BY <2>2 DEF KeepsMapping
<1> HIDE DEF eligible, game, rows, lines, byExt
<1>8. /\ \A x \in DOMAIN results : x \in DOMAIN results' /\ results'[x] = results[x]
      /\ \A x \in exts : x \in DOMAIN results' /\ results'[x].game = game(x) /\ results'[x].by = r
      /\ \A x \in DOMAIN results' : x \in DOMAIN results \/ x \in exts
  BY <1>1, <1>4
<1>9. /\ \A t \in teamStats' \ teamStats : t.game \in Targets(r) /\ t.by = r
      /\ \A p \in pitching' \ pitching : p.game \in Targets(r) /\ p.by = r
      /\ teamStats \subseteq teamStats' /\ pitching \subseteq pitching'
  BY <1>1, <1>5, <1>6
<1>10. Writes(r, Targets(r))
  BY <1>3, <1>7, <1>8, <1>9 DEF Writes
<1>11. WrittenGames(r)' = Targets(r)
  <2>1. {results'[x].game : x \in {y \in DOMAIN results' : results'[y].by = r}} = {game(x) : x \in exts}
    BY <1>8 DEF RowsBy
  <2>2. \A t \in teamStats' : t.by = r => t.game \in Targets(r)
    BY <1>9 DEF RowsBy
  <2>3. {t.game : t \in {u \in teamStats' : u.by = r}} \subseteq Targets(r)
    BY <2>2
  <2> QED BY <1>3, <2>1, <2>3 DEF WrittenGames
<1> QED BY <1>8, <1>9, <1>10, <1>11

LEMMA RecoveryChanges ==
    ASSUME RecoveryInv, NEW r \in Recoveries, NEW changes, SetRecovery(r, changes)
    PROVE  /\ DOMAIN recovery' = Recoveries
           /\ \A q \in Recoveries : q # r => recovery'[q] = recovery[q]
           /\ DOMAIN recovery'[r] = RecoveryFields
           /\ \A f \in RecoveryFields :
                 recovery'[r][f] = IF f \in DOMAIN changes THEN changes[f] ELSE recovery[r][f]
BY DEF RecoveryInv, Guarded, SetRecovery

(* A step of one recovery, seen by the others. *)
LEMMA RecoverStays ==
    ASSUME RecoveryInv, NEW r \in Recoveries, DOMAIN recovery' = Recoveries,
           \A q \in Recoveries : q # r => recovery'[q] = recovery[q],
           NEW touched, Writes(r, touched), Guarded(r)',
           \/ touched = {} /\ locked \subseteq locked'
           \/ /\ recovery[r].at = "commit" /\ touched \subseteq LockedBy(r)
              /\ locked \ LockedBy(r) \subseteq locked',
           recovery'[r].at = "commit" => LockedBy(r)' \cap locked = {}
    PROVE  RecoveryInv' /\ \A q \in Recoveries : q # r => ~RecoveryWrites(q)
<1>1. ASSUME NEW q \in Recoveries, q # r
      PROVE  Guarded(q)' /\ ~RecoveryWrites(q) /\ LockedBy(q)' = LockedBy(q)
             /\ (recovery[q].at = "commit" => LockedBy(q) \subseteq locked)
  <2>1. Guarded(q) /\ recovery'[q] = recovery[q]
    BY <1>1 DEF RecoveryInv
  <2>2. ASSUME recovery[q].at = "commit"
        PROVE  touched \cap LockedBy(q) = {} /\ LockedBy(q) \subseteq locked'
    <3>1. LockedBy(q) \subseteq locked
      BY <2>1, <2>2 DEF Guarded, Held
    <3>2. recovery[r].at = "commit" => LockedBy(q) \cap LockedBy(r) = {}
      BY <1>1, <2>2 DEF RecoveryInv
    <3> QED BY <3>1, <3>2
  <2>3. Guarded(q)' /\ ~RecoveryWrites(q)
    BY <1>1, <2>1, <2>2, GuardedStays
  <2>4. LockedBy(q)' = LockedBy(q)
    BY <2>1 DEF LockedBy
  <2> QED BY <2>1, <2>3, <2>4 DEF Guarded, Held
<1>2. ASSUME NEW p \in Recoveries, NEW q \in Recoveries, p # q,
             recovery'[p].at = "commit", recovery'[q].at = "commit"
      PROVE  (LockedBy(p) \cap LockedBy(q) = {})'
  <2>1. CASE p # r /\ q # r
    BY <1>1, <1>2, <2>1 DEF RecoveryInv
  <2>2. CASE p = r
    BY <1>1, <1>2, <2>2
  <2>3. CASE q = r
    BY <1>1, <1>2, <2>3
  <2> QED BY <2>1, <2>2, <2>3
<1> QED BY <1>1, <1>2 DEF RecoveryInv

AsApproved(r) ==
    /\ Identities(AllowList[r]) = recovery[r].manifest.games
    /\ Targets(r) \cap GamesWithHistory = {}
    /\ WrittenGames(r)' = Targets(r)
    /\ teamStats \subseteq teamStats' /\ pitching \subseteq pitching'
    /\ \A x \in DOMAIN results : results'[x] = results[x]

Obeys(r) == RecoveryInv' /\ \A q \in Recoveries : RecoveryWrites(q) => AsApproved(q)

(* The preview and the approval read, and write nothing. *)
LEMMA PreviewObeys ==
    ASSUME RecoveryInv, NEW r \in Recoveries, UNCHANGED <<historyVars, locked>>,
           Acquire(r) \/ AcquirePeople(r) \/ Plan(r) \/ PreviewFails(r) \/ Approve(r)
    PROVE  Obeys(r)
<1>1. Guarded(r)
  BY DEF RecoveryInv
<1>2. /\ ~RowsBy(r)' /\ Writes(r, {}) /\ ~RecoveryWrites(r)
  <2>1. recovery[r].at # "done"
    BY DEF Acquire, AcquirePeople, Plan, PreviewFails, Approve
  <2>2. ~RowsBy(r)
    BY <1>1, <2>1 DEF Guarded
  <2> QED BY <2>2 DEF RowsBy, Writes, RecoveryWrites, historyVars
<1>3. ASSUME NEW changes, SetRecovery(r, changes), Gathered(r)', recovery'[r].at # "commit"
      PROVE  Obeys(r)
  <2>1. /\ DOMAIN recovery' = Recoveries
        /\ \A q \in Recoveries : q # r => recovery'[q] = recovery[q]
        /\ DOMAIN recovery'[r] = RecoveryFields
    BY <1>3, RecoveryChanges
  <2>2. Guarded(r)'
    BY <1>2, <1>3, <2>1 DEF Guarded
  <2>3. RecoveryInv' /\ \A q \in Recoveries : q # r => ~RecoveryWrites(q)
    BY <1>2, <1>3, <2>1, <2>2, RecoverStays
  <2> QED BY <1>2, <2>3 DEF Obeys
<1>4. CASE Acquire(r)
  <2>1. PICK answer \in Answers(DateOfRecovery[r]), boxes \in SUBSET BoxScores :
            /\ {b.ext : b \in boxes} = {e.ext : e \in Eligible(r, answer)}
            /\ SetRecovery(r, [at |-> "people", answer |-> answer, boxes |-> boxes])
    BY <1>4 DEF Acquire
  <2>2. recovery'[r].at = "people" /\ recovery'[r].answer = answer /\ recovery'[r].boxes = boxes
    BY <2>1, RecoveryChanges DEF RecoveryFields
  <2>3. Gathered(r)'
    BY <2>1, <2>2 DEF Gathered, Eligible, Listed
  <2> QED BY <1>3, <2>1, <2>2, <2>3
<1>5. ASSUME NEW changes, SetRecovery(r, changes),
             "answer" \notin DOMAIN changes, "boxes" \notin DOMAIN changes, "at" \in DOMAIN changes,
             recovery[r].at \in {"people", "plan", "approval"} \/ changes["at"] = "done",
             changes["at"] # "commit"
      PROVE  Obeys(r)
  <2>1. /\ recovery'[r].at = changes["at"] /\ recovery'[r].answer = recovery[r].answer
        /\ recovery'[r].boxes = recovery[r].boxes
    BY <1>5, RecoveryChanges DEF RecoveryFields
  <2>2. Gathered(r)'
    BY <1>1, <1>5, <2>1 DEF Guarded, Gathered, Eligible, Listed
  <2> QED BY <1>3, <1>5, <2>1, <2>2
<1>6. CASE AcquirePeople(r)
  BY <1>5, <1>6 DEF AcquirePeople
<1>7. CASE Plan(r)
  BY <1>5, <1>7 DEF Plan
<1>8. CASE PreviewFails(r)
  BY <1>5, <1>8 DEF PreviewFails
<1>9. CASE Approve(r)
  BY <1>5, <1>9 DEF Approve
<1> QED BY <1>4, <1>6, <1>7, <1>8, <1>9

LEMMA BeginObeys ==
    ASSUME RecoveryInv, NEW r \in Recoveries, Begin(r), UNCHANGED historyVars
    PROVE  Obeys(r)
<1>1. Guarded(r) /\ recovery[r].at = "execute" /\ ~RowsBy(r) /\ Gathered(r)
  BY DEF RecoveryInv, Guarded, Begin
<1>2. Writes(r, {}) /\ ~RecoveryWrites(r) /\ ~RowsBy(r)'
  BY <1>1 DEF historyVars, Writes, RecoveryWrites, RowsBy
<1>3. CASE /\ Revalidated(r) /\ TargetsAbsent(r)
           /\ locked' = locked \cup LockedBy(r)
           /\ SetRecovery(r, [at |-> "commit", began |-> clock,
                              players |-> Snapshot(AllPlayers(recovery[r].boxes))])
  <2>1. /\ DOMAIN recovery' = Recoveries
        /\ \A q \in Recoveries : q # r => recovery'[q] = recovery[q]
        /\ DOMAIN recovery'[r] = RecoveryFields /\ recovery'[r].at = "commit"
        /\ recovery'[r].answer = recovery[r].answer /\ recovery'[r].boxes = recovery[r].boxes
        /\ recovery'[r].manifest = recovery[r].manifest
    BY <1>3, RecoveryChanges DEF RecoveryFields
  <2>2. LockedBy(r)' = LockedBy(r) /\ Targets(r)' = Targets(r) /\ LockedBy(r) \cap locked = {}
    BY <2>1 DEF LockedBy, Targets, Eligible, Listed, Begin
  <2>3. Gathered(r)'
    BY <1>1, <2>1 DEF Gathered, Eligible, Listed
  <2>4. Held(r)'
    <3>1. LockedBy(r)' \subseteq locked'
      BY <1>3, <2>2
    <3>2. Mapped(AllowList[r])'
      BY <1>3 DEF Revalidated, Mapped, historyVars
    <3>3. (Identities(AllowList[r]) = recovery[r].manifest.games)'
      <4>1. Identities(AllowList[r])' = Identities(AllowList[r])
        BY DEF Identities, Identity, GameOf, historyVars
      <4> QED BY <1>3, <2>1, <4>1 DEF Revalidated
    <3>4. TargetsAbsent(r)'
      BY <1>3, <2>2 DEF TargetsAbsent, historyVars
    <3> QED BY <3>1, <3>2, <3>3, <3>4 DEF Held
  <2>5. Guarded(r)'
    BY <1>2, <2>1, <2>3, <2>4 DEF Guarded
  <2>6. RecoveryInv' /\ \A q \in Recoveries : q # r => ~RecoveryWrites(q)
    BY <1>2, <1>3, <2>1, <2>2, <2>5, RecoverStays
  <2> QED BY <1>2, <2>6 DEF Obeys
<1>4. CASE SetRecovery(r, [at |-> "done", status |-> "failed-before-write"]) /\ UNCHANGED locked
  <2>1. /\ DOMAIN recovery' = Recoveries
        /\ \A q \in Recoveries : q # r => recovery'[q] = recovery[q]
        /\ DOMAIN recovery'[r] = RecoveryFields /\ recovery'[r].at = "done"
    BY <1>4, RecoveryChanges DEF RecoveryFields
  <2>2. Guarded(r)'
    BY <1>2, <2>1 DEF Guarded, Gathered
  <2>3. RecoveryInv' /\ \A q \in Recoveries : q # r => ~RecoveryWrites(q)
    BY <1>2, <1>4, <2>1, <2>2, RecoverStays
  <2> QED BY <1>2, <2>3 DEF Obeys
<1> QED BY <1>3, <1>4 DEF Begin

LEMMA FailureObeys ==
    ASSUME RecoveryInv, NEW r \in Recoveries, RecoveryFails(r)
    PROVE  Obeys(r)
<1>1. Guarded(r) /\ recovery[r].at = "commit" /\ ~RowsBy(r) /\ locked' = locked \ LockedBy(r)
  BY DEF RecoveryInv, Guarded, RecoveryFails, Unlock
<1>2. Writes(r, {}) /\ ~RecoveryWrites(r) /\ ~RowsBy(r)'
  BY <1>1 DEF RecoveryFails, historyVars, Writes, RecoveryWrites, RowsBy
<1>3. PICK status : SetRecovery(r, [at |-> "done", status |-> status])
  BY DEF RecoveryFails
<1>4. /\ DOMAIN recovery' = Recoveries
      /\ \A q \in Recoveries : q # r => recovery'[q] = recovery[q]
      /\ DOMAIN recovery'[r] = RecoveryFields /\ recovery'[r].at = "done"
  BY <1>3, RecoveryChanges DEF RecoveryFields
<1>5. Guarded(r)'
  BY <1>2, <1>4 DEF Guarded, Gathered
<1>6. RecoveryInv' /\ \A q \in Recoveries : q # r => ~RecoveryWrites(q)
  BY <1>1, <1>2, <1>4, <1>5, RecoverStays
<1> QED BY <1>2, <1>6 DEF Obeys

LEMMA CommitObeys ==
    ASSUME RecoveryInv, NEW r \in Recoveries, CommitRecovery(r)
    PROVE  Obeys(r)
<1>1. /\ Guarded(r) /\ Held(r) /\ Gathered(r) /\ recovery[r].at = "commit" /\ ~RowsBy(r)
      /\ locked' = locked \ LockedBy(r)
  BY DEF RecoveryInv, Guarded, CommitRecovery, Unlock
<1>2. /\ Writes(r, Targets(r))
      /\ WrittenGames(r)' = Targets(r)
      /\ teamStats \subseteq teamStats' /\ pitching \subseteq pitching'
      /\ \A x \in DOMAIN results : x \in DOMAIN results' /\ results'[x] = results[x]
  BY <1>1, CommitWrites DEF CommitRecovery
<1>3. PICK status \in {"complete", "unknown-commit-state"} :
          SetRecovery(r, [at |-> "done", status |-> status])
  BY DEF CommitRecovery
<1>4. /\ DOMAIN recovery' = Recoveries
      /\ \A q \in Recoveries : q # r => recovery'[q] = recovery[q]
      /\ DOMAIN recovery'[r] = RecoveryFields /\ recovery'[r].at = "done"
      /\ recovery'[r].status = status
  BY <1>3, RecoveryChanges DEF RecoveryFields
<1>5. Guarded(r)'
  BY <1>3, <1>4 DEF Guarded, Gathered
<1>6. RecoveryInv' /\ \A q \in Recoveries : q # r => ~RecoveryWrites(q)
  BY <1>1, <1>2, <1>4, <1>5, TargetsAreLocked, RecoverStays
<1>7. AsApproved(r)
  <2>1. Targets(r) \cap GamesWithHistory = {}
    BY <1>1 DEF Held, TargetsAbsent, GamesWithHistory
  <2> QED BY <1>1, <1>2, <2>1 DEF AsApproved, Held
<1> QED BY <1>6, <1>7 DEF Obeys

LEMMA RecoverObeys ==
    ASSUME RecoveryInv, NEW r \in Recoveries, Recover(r)
    PROVE  Obeys(r) /\ UNCHANGED <<ingest, predicting>>
<1>1. CASE /\ Acquire(r) \/ AcquirePeople(r) \/ Plan(r) \/ PreviewFails(r) \/ Approve(r)
           /\ UNCHANGED <<historyVars, locked, playerVars>>
  BY <1>1, PreviewObeys DEF Recover, predictionVars
<1>2. CASE Begin(r) /\ UNCHANGED <<historyVars, playerVars>>
  BY <1>2, BeginObeys DEF Recover, predictionVars
<1>3. CASE CommitRecovery(r) \/ RecoveryFails(r)
  BY <1>3, CommitObeys, FailureObeys DEF Recover, predictionVars
<1> QED BY <1>1, <1>2, <1>3 DEF Recover, RecoveryStep

(* A step of any other process, seen by the recoveries. *)
LEMMA OthersObey ==
    ASSUME RecoveryInv, UNCHANGED <<locked, recovery>>,
           NEW touched, touched \cap locked = {},
           \A r \in Recoveries : \E by : by # r /\ Writes(by, touched)
    PROVE  RecoveryInv' /\ \A r \in Recoveries : ~RecoveryWrites(r)
<1>1. ASSUME NEW r \in Recoveries PROVE Guarded(r)' /\ ~RecoveryWrites(r) /\ LockedBy(r)' = LockedBy(r)
  <2>1. PICK by : by # r /\ Writes(by, touched)
    OBVIOUS
  <2>2. Guarded(r) /\ recovery'[r] = recovery[r]
    BY DEF RecoveryInv
  <2>3. ASSUME recovery[r].at = "commit"
        PROVE  touched \cap LockedBy(r) = {} /\ LockedBy(r) \subseteq locked'
    BY <2>2, <2>3 DEF Guarded, Held
  <2>4. Guarded(r)' /\ ~RecoveryWrites(r)
    BY <2>1, <2>2, <2>3, GuardedStays
  <2> QED BY <2>4 DEF LockedBy
<1> QED BY <1>1 DEF RecoveryInv

HistoryInv == IngestInv /\ SlateInv /\ RecoveryInv

LEMMA HistoryStep ==
    ASSUME HistoryInv, [Next]_vars
    PROVE  HistoryInv' /\ \A r \in Recoveries : RecoveryWrites(r) => AsApproved(r)
<1>1. CASE \E i \in Ingesters \cap crew : Ingest(i)
  <2>1. PICK i \in Ingesters : Ingest(i)
    BY <1>1
  <2>2. WritesFree(i) /\ UNCHANGED <<locked, recovery>> /\ IngestInv'
    BY <2>1, IngestWrites, IngestKeepsInv DEF HistoryInv
  <2>3. SlateInv'
    BY <2>1 DEF Ingest, predictionVars, HistoryInv, SlateInv
  <2>4. \A r \in Recoveries : i # r
    BY ResultsAssumption, RecoveryAssumption
  <2>5. RecoveryInv' /\ \A r \in Recoveries : ~RecoveryWrites(r)
    BY <2>2, <2>4, OthersObey DEF HistoryInv, WritesFree
  <2> QED BY <2>2, <2>3, <2>5 DEF HistoryInv
<1>2. CASE \E p \in Predictors \cap crew : Predict(p)
  <2>1. PICK p \in Predictors : Predict(p)
    BY <1>2
  <2>2. WritesFree(p) /\ UNCHANGED <<locked, recovery>> /\ SlateInv'
    BY <2>1, PredictWrites, PredictKeepsSlateInv DEF HistoryInv
  <2>3. IngestInv'
    BY <2>1 DEF Predict, HistoryInv, IngestInv, Holds
  <2>4. \A r \in Recoveries : p # r
    BY PredictionAssumption, RecoveryAssumption
  <2>5. RecoveryInv' /\ \A r \in Recoveries : ~RecoveryWrites(r)
    BY <2>2, <2>4, OthersObey DEF HistoryInv, WritesFree
  <2> QED BY <2>2, <2>3, <2>5 DEF HistoryInv
<1>3. CASE \E r \in Recoveries \cap crew : Recover(r)
  BY <1>3, RecoverObeys DEF HistoryInv, Obeys, IngestInv, Holds, SlateInv
<1>4. CASE \/ \E s \in Rosters \cap crew : Roster(s)
           \/ \E t \in Trainers \cap crew : Train(t)
           \/ Tick \/ UNCHANGED vars
  <2>1. UNCHANGED <<historyVars, ingest, locked, recovery, predicting>>
    BY <1>4 DEF Roster, Train, Tick, vars, resultsVars, predictionVars
  <2>2. \A r \in Recoveries : \E by : by # r /\ Writes(by, {})
    <3>1. \A by : Writes(by, {})
      BY <2>1 DEF historyVars, Writes
    <3>2. \A r \in Recoveries : (IF r = 1 THEN 2 ELSE 1) # r
      OBVIOUS
    <3> QED BY <3>1, <3>2
  <2>3. RecoveryInv' /\ \A r \in Recoveries : ~RecoveryWrites(r)
    BY <2>1, <2>2, OthersObey DEF HistoryInv
  <2> QED BY <2>1, <2>3 DEF HistoryInv, IngestInv, Holds, SlateInv
<1> QED BY <1>1, <1>2, <1>3, <1>4 DEF Next

(* The locks, the answers and the identities a recovery has compared hold  *)
(* in every state of a behaviour, whatever the other processes do.         *)
THEOREM RecoveryInvariant == Spec => []HistoryInv
<1>1. Init => HistoryInv
  BY InitIngestInv, InitSlateInv, InitRecoveryInv DEF HistoryInv
<1>2. HistoryInv /\ [Next]_vars => HistoryInv'
  BY HistoryStep
<1> QED BY <1>1, <1>2, PTL DEF Spec

(* A recovery writes what was approved, all of it and nothing else, on     *)
(* games of which nothing was known, and one that reports that it wrote    *)
(* nothing has written nothing: for any answers of the provider, any       *)
(* number of processes and any games.                                      *)
THEOREM RecoveryIsGuarded == Spec => GuardedRecovery
<1>1. HistoryInv /\ HistoryInv' /\ [Next]_vars =>
          [\A r \in Recoveries :
              /\ RecoveryWrites(r) =>
                    /\ Identities(AllowList[r]) = recovery[r].manifest.games
                    /\ Targets(r) \cap GamesWithHistory = {}
                    /\ WrittenGames(r)' = Targets(r)
                    /\ teamStats \subseteq teamStats' /\ pitching \subseteq pitching'
                    /\ \A x \in DOMAIN results : results'[x] = results[x]
              /\ recovery'[r].status \in {"rolled-back", "failed-before-write"} =>
                    WrittenGames(r)' = {}]_vars
  <2> SUFFICES ASSUME HistoryInv, HistoryInv', [Next]_vars, NEW r \in Recoveries
               PROVE  /\ RecoveryWrites(r) => AsApproved(r)
                      /\ recovery'[r].status \in {"rolled-back", "failed-before-write"} =>
                            WrittenGames(r)' = {}
    BY DEF AsApproved
  <2>1. RecoveryWrites(r) => AsApproved(r)
    BY HistoryStep
  <2>2. recovery'[r].status \in {"rolled-back", "failed-before-write"} => ~RowsBy(r)'
    BY DEF HistoryInv, RecoveryInv, Guarded
  <2>3. ~RowsBy(r)' => WrittenGames(r)' = {}
    BY DEF RowsBy, WrittenGames
  <2> QED BY <2>1, <2>2, <2>3
<1> QED BY <1>1, RecoveryInvariant, PTL DEF Spec, GuardedRecovery
-----------------------------------------------------------------------------
(* Games, as they are numbered and mapped.                                 *)
GamesKnown(all, mapped) ==
    /\ IsFiniteSet(DOMAIN all) /\ DOMAIN all = 1 .. Cardinality(DOMAIN all)
    /\ \A g \in DOMAIN all : all[g].start \in Int
    /\ \A s \in mapped : s.game \in DOMAIN all

LEMMA GamesOrdered ==
    ASSUME GamesKnown(games, sources), NEW V \in SUBSET DOMAIN games
    PROVE  /\ IsFiniteSet(V)
           /\ Ordered(V, {e \in V \X V : Later(e[1], e[2])})
           /\ Ordered(V, {e \in V \X V : Later(e[2], e[1])})
<1>1. IsFiniteSet(V)
  BY FS_Subset DEF GamesKnown
<1>2. /\ \A x \in V : ~Later(x, x)
      /\ \A x, y, z \in V : Later(x, y) /\ Later(y, z) => Later(x, z)
      /\ \A x, y \in V : x # y => Later(x, y) \/ Later(y, x)
  <2>1. \A x \in V : x \in Int /\ games[x].start \in Int
    <3>1. Cardinality(DOMAIN games) \in Nat
      BY FS_CardinalityType DEF GamesKnown
    <3> QED BY <3>1 DEF GamesKnown
  <2> QED BY <2>1 DEF Later
<1> HIDE DEF Later
<1> QED BY <1>1, <1>2 DEF Ordered

(* The newest of some games are as many as they may be, unless they are    *)
(* all of them, and what is left out is older.                             *)
LEMMA NewestOf ==
    ASSUME GamesKnown(games, sources), NEW V \in SUBSET DOMAIN games, NEW n \in Nat,
           NEW g \in V, g \notin Newest(V, n)
    PROVE  /\ Cardinality(Newest(V, n)) = n
           /\ \A h \in Newest(V, n) : Later(h, g)
<1> DEFINE R == {e \in V \X V : Later(e[1], e[2])}
           rank == PlaceIn(V, R)
<1>0. /\ \A x, y \in V : <<x, y>> \in R <=> Later(x, y)
      /\ IsFiniteSet(V) /\ Ordered(V, R)
  BY GamesOrdered
<1>1. \A h \in V : rank[h] = Cardinality({x \in V : Later(x, h)})
  BY <1>0 DEF PlaceIn
<1>2. Newest(V, n) = {h \in V : rank[h] < n}
  BY <1>1 DEF Newest
<1> HIDE DEF R
<1>3. /\ \A x \in V : rank[x] \in 0 .. Cardinality(V) - 1
      /\ \A x, y \in V : <<x, y>> \in R <=> rank[x] < rank[y]
      /\ Cardinality(V) \in Nat
  BY <1>0, PlacesInOrder, FS_CardinalityType
<1>4. rank[g] >= n
  <2> HIDE DEF rank
  <2> QED BY <1>2, <1>3
<1>5. n = 0 \/ \E x \in V : rank[x] = n - 1
  <2>1. n = 0 \/ n - 1 \in 0 .. Cardinality(V) - 1
    <3> HIDE DEF rank
    <3> QED BY <1>3, <1>4
  <2> QED BY <1>0, <2>1, PlacesTaken
<1>6. Cardinality({h \in V : rank[h] < n}) = n
  BY <1>0, <1>5, UpToPlace
<1>7. ASSUME NEW h \in V, rank[h] < n PROVE Later(h, g)
  <2>1. rank[h] < rank[g]
    <3> HIDE DEF rank
    <3> QED BY <1>3, <1>4, <1>7
  <2> QED BY <1>0, <1>3, <2>1
<1> QED BY <1>2, <1>6, <1>7

-----------------------------------------------------------------------------
(***************************************************************************)
(* The rows of the history.  A game keeps its number and its sides, and a  *)
(* row of a team the time it was created: what was there for a check of    *)
(* the history is there for the features that are read after it.           *)
(***************************************************************************)
RowsKnown(rows) ==
    /\ \A t \in rows : t.game \in DOMAIN games
    /\ \A t, u \in rows : t.game = u.game /\ t.team = u.team => t.created = u.created

RowsInv == GamesKnown(games, sources) /\ RowsKnown(teamStats)

KeepsGames(all) == \A g \in DOMAIN games : g \in DOMAIN all /\ all[g].orient = games[g].orient
KeepsRows(rows) ==
    \A t \in teamStats : \E u \in rows : u.game = t.game /\ u.team = t.team /\ u.created = t.created

LEMMA InitRowsInv == Init => RowsInv
BY StoredAssumption DEF Init, ResultsInit, RowsInv, GamesKnown, RowsKnown

(* A game that is resolved is there with the sides of the event, or new.   *)
LEMMA ResolveKnown ==
    ASSUME NEW all, NEW mapped, GamesKnown(all, mapped), NEW e,
           NEW g \in Resolve(all, mapped, Mlb, e, Fresh(all))
    PROVE  g = Fresh(all) \/ (g \in DOMAIN all /\ all[g].orient = e.orient)
<1>1. \A x \in Candidates(all, mapped, Mlb, e) : x \in DOMAIN all /\ all[x].orient = e.orient
  BY DEF Candidates, Nearby, SameDate, SameOrientation
<1>2. \A x \in KeepMapping(all, MappedTo(mapped, Mlb, e.ext), e) :
         x \in DOMAIN all /\ all[x].orient = e.orient
  BY DEF KeepMapping, MappedTo, GamesKnown
<1> QED BY <1>1, <1>2 DEF Resolve

LEMMA FreshNumber ==
    ASSUME NEW all, NEW mapped, GamesKnown(all, mapped)
    PROVE  Fresh(all) \notin DOMAIN all /\ DOMAIN all \cup {Fresh(all)} = 1 .. Fresh(all)
           /\ Cardinality(DOMAIN all \cup {Fresh(all)}) = Fresh(all)
<1>1. Cardinality(DOMAIN all) \in Nat
  BY FS_CardinalityType DEF GamesKnown
<1>2. Fresh(all) \notin DOMAIN all /\ DOMAIN all \cup {Fresh(all)} = 1 .. Fresh(all)
  BY <1>1 DEF GamesKnown, Fresh
<1>3. Cardinality(DOMAIN all \cup {Fresh(all)}) = Cardinality(DOMAIN all) + 1
  BY <1>2, FS_AddElement DEF GamesKnown
<1> QED BY <1>1, <1>2, <1>3 DEF Fresh

LEMMA AddsGame ==
    ASSUME NEW all, NEW mapped, GamesKnown(all, mapped), NEW g, g \in DOMAIN all \/ g = Fresh(all),
           NEW new, DOMAIN new = DOMAIN all \cup {g}, \A x \in DOMAIN new : new[x].start \in Int,
           NEW more, \A s \in more : s \in mapped \/ s.game = g
    PROVE  GamesKnown(new, more)
<1>1. CASE g \in DOMAIN all
  <2>1. DOMAIN new = DOMAIN all
    BY <1>1
  <2> QED BY <2>1, <1>1 DEF GamesKnown
<1>2. CASE g = Fresh(all)
  <2>1. DOMAIN new = 1 .. Fresh(all) /\ Cardinality(DOMAIN new) = Fresh(all)
    BY <1>2, FreshNumber
  <2>2. IsFiniteSet(DOMAIN new)
    BY <1>2, FS_AddElement DEF GamesKnown
  <2> QED BY <2>1, <2>2 DEF GamesKnown
<1> QED BY <1>1, <1>2

LEMMA DateStepKnown ==
    ASSUME NEW tx, NEW i, DateSoFar(tx, i), NEW e, e.start \in Int,
           GamesKnown(tx.games, tx.sources), KeepsGames(tx.games)
    PROVE  /\ GamesKnown(ProcessGame(tx, e).games, ProcessGame(tx, e).sources)
           /\ KeepsGames(ProcessGame(tx, e).games)
<1> DEFINE found == ResolveAuthoritative(tx.games, tx.sources, Mlb, e, Fresh(tx.games))
           g == CHOOSE x \in found : TRUE
           taken == \E x \in DOMAIN tx.results : x # e.ext /\ tx.results[x].game = g
           row == [game |-> g, date |-> tx.date, score |-> e.score, by |-> tx.by]
           new == ProcessGame(tx, e)
           all == [x \in DOMAIN tx.games \cup {g} |->
                      IF x \in DOMAIN tx.games THEN tx.games[x]
                      ELSE [orient |-> e.orient, start |-> e.start]]
           more == tx.sources \cup {[source |-> Mlb, ext |-> e.ext, game |-> g]}
<1>1. CASE ~ (tx.ok /\ Finalized(e) /\ found # {} /\ ~taken)
  <2>1. new \in {tx, [tx EXCEPT !.ok = FALSE]}
    BY <1>1 DEF ProcessGame, SaveHistoricalResult
  <2>2. new.games = tx.games /\ new.sources = tx.sources
    BY <2>1 DEF DateSoFar
  <2> QED BY <2>2
<1>2. CASE tx.ok /\ Finalized(e) /\ found # {} /\ ~taken
  <2>1. new = [tx EXCEPT
              !.games = all,
              !.sources = @ \cup {[source |-> Mlb, ext |-> e.ext, game |-> g]},
              !.results = [x \in DOMAIN tx.results \cup {e.ext} |->
                  IF x = e.ext THEN row ELSE tx.results[x]],
              !.refs = Append(@, <<g, e.ext>>)]
    BY <1>2 DEF ProcessGame, SaveHistoricalResult
  <2>2. g \in found
    BY <1>2
  <2>3. g \in DOMAIN tx.games \/ g = Fresh(tx.games)
    <3>1. \A x \in MappedTo(tx.sources, Mlb, e.ext) : x \in DOMAIN tx.games
      BY DEF MappedTo, GamesKnown
    <3> QED BY <2>2, <3>1, ResolveKnown DEF ResolveAuthoritative
  <2> HIDE DEF found, g, taken, row
  <2>4. new.games = all /\ new.sources = more
    BY <2>1 DEF DateSoFar
  <2> HIDE DEF new
  <2>5. /\ DOMAIN all = DOMAIN tx.games \cup {g}
        /\ \A x \in DOMAIN tx.games : all[x] = tx.games[x]
        /\ \A x \in DOMAIN all : all[x].start \in Int
    BY DEF GamesKnown
  <2>6. \A s \in more : s \in tx.sources \/ s.game = g
    OBVIOUS
  <2> HIDE DEF all, more
  <2>7. GamesKnown(all, more)
    BY <2>3, <2>5, <2>6, AddsGame
  <2>8. KeepsGames(all)
    BY <2>5 DEF KeepsGames
  <2> QED BY <2>4, <2>7, <2>8 DEF new
<1> QED BY <1>1, <1>2

LEMMA DateKeepsGames ==
    ASSUME RowsInv, NEW i, IsSeq(ingest[i].answer),
           \A n \in DOMAIN ingest[i].answer : ingest[i].answer[n].start \in Int
    PROVE  /\ GamesKnown(DateTransaction(i).games, DateTransaction(i).sources)
           /\ KeepsGames(DateTransaction(i).games)
<1> DEFINE base == [ok |-> TRUE, games |-> games, sources |-> sources, results |-> results,
                    refs |-> <<>>, date |-> DateOfIngest[i], by |-> i]
           seq == ingest[i].answer
           n == Len(seq)
           Good(tx) == DateSoFar(tx, i) /\ GamesKnown(tx.games, tx.sources) /\ KeepsGames(tx.games)
<1>1. n \in Nat /\ DOMAIN seq = 1 .. n /\ \A m \in 1 .. n : seq[m].start \in Int
  BY SeqDomain
<1>2. Good(base)
  BY DEF DateSoFar, IsSeq, RowsInv, KeepsGames
<1>3. DateTransaction(i) = FoldLeft(ProcessGame, base, seq)
  BY DEF DateTransaction
<1> HIDE DEF base, seq, n
<1>4. PICK g : Date!StepByStep(base, seq, n, g) /\ FoldLeft(ProcessGame, base, seq) = g[n]
  BY <1>1, DateSteps
<1> DEFINE T == {m \in 0 .. n : Good(g[m])}
<1>5. 0 \in T
  BY <1>1, <1>2, <1>4 DEF Date!StepByStep
<1>6. \A m \in 1 .. n : m - 1 \in T => m \in T
  BY <1>1, <1>4, DateStep, DateStepKnown DEF Date!StepByStep
<1>7. 0 .. n \subseteq T
  <2> HIDE DEF T
  <2> QED BY <1>1, <1>5, <1>6, UpTo
<1> QED BY <1>1, <1>3, <1>4, <1>7

LEMMA SlateStepKnown ==
    ASSUME NEW tx, SlateSoFar(tx), NEW e, e.start \in Int,
           GamesKnown(tx.games, tx.sources), KeepsGames(tx.games)
    PROVE  /\ GamesKnown(SyncGame(tx, e).games, SyncGame(tx, e).sources)
           /\ KeepsGames(SyncGame(tx, e).games)
<1> DEFINE found == Resolve(tx.games, tx.sources, Mlb, e, Fresh(tx.games))
           g == CHOOSE x \in found : TRUE
           new == SyncGame(tx, e)
           more == tx.sources \cup {[source |-> Mlb, ext |-> e.ext, game |-> g]}
           moved == UpdateCanonicalGame(tx.games, g, e)
<1>1. CASE ~tx.ok \/ found = {}
  <2>1. new = [tx EXCEPT !.ok = FALSE]
    BY <1>1 DEF SyncGame
  <2>2. new.games = tx.games /\ new.sources = tx.sources
    BY <2>1 DEF SlateSoFar
  <2> QED BY <2>2
<1>2. CASE tx.ok /\ found # {}
  <2>1. new = [ok |-> \A s \in tx.sources : s.game = g /\ s.source = Mlb => s.ext = e.ext,
               touched |-> tx.touched \cup {g},
               games |-> moved,
               sources |-> more]
    BY <1>2 DEF SyncGame
  <2>2. g \in found
    BY <1>2
  <2>3. g = Fresh(tx.games) \/ (g \in DOMAIN tx.games /\ tx.games[g].orient = e.orient)
    BY <2>2, ResolveKnown
  <2>4. Fresh(tx.games) \notin DOMAIN tx.games
    BY FreshNumber
  <2> HIDE DEF found, g
  <2>5. new.games = moved /\ new.sources = more
    BY <2>1
  <2> HIDE DEF new
  <2>6. /\ DOMAIN moved = DOMAIN tx.games \cup {g}
        /\ \A x \in DOMAIN tx.games : x # g => moved[x] = tx.games[x]
        /\ moved[g].orient = e.orient
        /\ \A x \in DOMAIN moved : moved[x].start \in Int
    BY DEF UpdateCanonicalGame, GamesKnown
  <2>7. \A s \in more : s \in tx.sources \/ s.game = g
    OBVIOUS
  <2> HIDE DEF moved, more
  <2>8. GamesKnown(moved, more)
    BY <2>3, <2>6, <2>7, AddsGame
  <2>9. KeepsGames(moved)
    BY <2>3, <2>4, <2>6 DEF KeepsGames
  <2> QED BY <2>5, <2>8, <2>9 DEF new
<1> QED BY <1>1, <1>2

LEMMA SlateKeepsGames ==
    ASSUME RowsInv, NEW p, IsSeq(predicting[p].slate),
           \A n \in DOMAIN predicting[p].slate : predicting[p].slate[n].start \in Int
    PROVE  /\ GamesKnown(SlateTransaction(p).games, SlateTransaction(p).sources)
           /\ KeepsGames(SlateTransaction(p).games)
<1> DEFINE base == [ok |-> TRUE, touched |-> {}, games |-> games, sources |-> sources]
           seq == predicting[p].slate
           n == Len(seq)
           Good(tx) == SlateSoFar(tx) /\ GamesKnown(tx.games, tx.sources) /\ KeepsGames(tx.games)
<1>1. n \in Nat /\ DOMAIN seq = 1 .. n /\ \A m \in 1 .. n : seq[m].start \in Int
  BY SeqDomain
<1>2. Good(base)
  BY DEF SlateSoFar, RowsInv, KeepsGames
<1>3. SlateTransaction(p) = FoldLeft(SyncGame, base, seq)
  BY DEF SlateTransaction
<1> HIDE DEF base, seq, n
<1>4. PICK g : Slate!StepByStep(base, seq, n, g) /\ FoldLeft(SyncGame, base, seq) = g[n]
  BY <1>1, SlateSteps
<1> DEFINE T == {m \in 0 .. n : Good(g[m])}
<1>5. 0 \in T
  BY <1>1, <1>2, <1>4 DEF Slate!StepByStep
<1>6. ASSUME NEW m \in 1 .. n, m - 1 \in T PROVE m \in T
  <2>1. Good(g[m - 1]) /\ g[m] = SyncGame(g[m - 1], seq[m])
    BY <1>1, <1>4, <1>6 DEF Slate!StepByStep
  <2>2. SlateSoFar(g[m])
    BY <2>1, SlateStep
  <2>3. GamesKnown(g[m].games, g[m].sources) /\ KeepsGames(g[m].games)
    BY <1>1, <2>1, SlateStepKnown
  <2> QED BY <1>1, <2>2, <2>3
<1>7. 0 .. n \subseteq T
  <2> HIDE DEF T
  <2> QED BY <1>1, <1>5, <1>6, UpTo
<1> QED BY <1>1, <1>3, <1>4, <1>7

(* An update keeps the time a row was created.                             *)
LEMMA UpsertKeeps ==
    ASSUME NEW rows, RowsKnown(rows), NEW new, NEW at,
           \A n \in new : /\ DOMAIN n = {"game", "team", "home", "runs", "allowed", "created", "by"}
                          /\ n.game \in DOMAIN games /\ n.created = at
    PROVE  /\ RowsKnown(Upsert(rows, new, "team"))
           /\ \A t \in rows : \E u \in Upsert(rows, new, "team") :
                 u.game = t.game /\ u.team = t.team /\ u.created = t.created
<1> DEFINE Stored(n) == {r \in rows : r.game = n.game /\ r["team"] = n["team"]}
           Kept(n) == [n EXCEPT !.created = IF Stored(n) = {} THEN @ ELSE (CHOOSE r \in Stored(n) : TRUE).created]
           all == Upsert(rows, new, "team")
<1>1. /\ \A u \in all : (u \in rows /\ \A n \in new : u \notin Stored(n)) \/ \E n \in new : u = Kept(n)
      /\ \A u \in rows : u \in all \/ \E n \in new : u \in Stored(n)
      /\ \A n \in new : Kept(n) \in all
  <2>1. all = (rows \ UNION {Stored(n) : n \in new}) \cup {Kept(n) : n \in new}
    BY DEF Upsert
  <2> HIDE DEF Stored, Kept, all
  <2> QED BY <2>1
<1>2. ASSUME NEW n \in new
      PROVE  /\ Kept(n).game = n.game /\ Kept(n).team = n.team
             /\ Stored(n) = {} => Kept(n).created = at
             /\ \A r \in Stored(n) : Kept(n).created = r.created
  <2>1. /\ Kept(n).game = n.game /\ Kept(n).team = n.team
        /\ Kept(n).created = IF Stored(n) = {} THEN n.created ELSE (CHOOSE r \in Stored(n) : TRUE).created
    OBVIOUS
  <2>2. ASSUME NEW r \in Stored(n) PROVE (CHOOSE x \in Stored(n) : TRUE).created = r.created
    <3>1. \A x, y \in Stored(n) : x.created = y.created
      BY DEF RowsKnown
    <3> HIDE DEF Stored
    <3> QED BY <2>2, <3>1
  <2> HIDE DEF Stored, Kept
  <2> QED BY <2>1, <2>2
<1>3. \A u \in rows, n \in new : u \in Stored(n) <=> u.game = n.game /\ u.team = n.team
  OBVIOUS
<1> HIDE DEF Stored, Kept, all
<1>4. \A u \in all : u.game \in DOMAIN games
  BY <1>1, <1>2 DEF RowsKnown
<1>5. ASSUME NEW t \in all, NEW u \in all, t.game = u.game, t.team = u.team
      PROVE  t.created = u.created
  <2>1. CASE t \in rows /\ u \in rows
    BY <2>1, <1>5 DEF RowsKnown
  <2>2. ASSUME NEW n \in new, NEW v \in all, v.game = n.game, v.team = n.team
        PROVE  v.created = Kept(n).created
    <3>1. PICK m \in new : v = Kept(m)
      BY <2>2, <1>1, <1>3
    <3>2. m.game = n.game /\ m.team = n.team
      BY <2>2, <3>1, <1>2
    <3>3. Stored(m) = Stored(n)
      BY <3>2 DEF Stored
    <3>4. CASE Stored(n) = {}
      BY <3>1, <3>3, <3>4, <1>2
    <3>5. CASE Stored(n) # {}
      BY <3>1, <3>3, <3>5, <1>2
    <3> QED BY <3>4, <3>5
  <2>3. CASE \E n \in new : t = Kept(n)
    BY <2>2, <2>3, <1>2, <1>5
  <2>4. CASE \E n \in new : u = Kept(n)
    BY <2>2, <2>4, <1>2, <1>5
  <2> QED BY <1>1, <2>1, <2>3, <2>4
<1>6. ASSUME NEW t \in rows
      PROVE  \E u \in all : u.game = t.game /\ u.team = t.team /\ u.created = t.created
  <2>1. CASE \E n \in new : t \in Stored(n)
    BY <2>1, <1>1, <1>2, <1>3
  <2> QED BY <2>1, <1>1
<1>7. RowsKnown(all)
  BY <1>4, <1>5 DEF RowsKnown
<1> QED BY <1>6, <1>7 DEF all

(* What a step leaves of the games and of the rows. *)
HistoryKept == RowsInv' /\ KeepsGames(games') /\ KeepsRows(teamStats')

LEMMA GamesKept ==
    ASSUME RowsInv, GamesKnown(games', sources'), KeepsGames(games'), teamStats' = teamStats
    PROVE  HistoryKept
<1>1. RowsKnown(teamStats)'
  BY DEF RowsInv, RowsKnown, KeepsGames
<1>2. GamesKnown(games, sources)'
  BY DEF GamesKnown
<1> QED BY <1>1, <1>2 DEF HistoryKept, RowsInv, KeepsRows

LEMMA RowsKept ==
    ASSUME RowsInv, UNCHANGED <<games, sources>>, RowsKnown(teamStats'), KeepsRows(teamStats')
    PROVE  HistoryKept
BY DEF HistoryKept, RowsInv, RowsKnown, GamesKnown, KeepsGames

LEMMA NothingMoved ==
    ASSUME RowsInv, UNCHANGED <<games, sources, teamStats>>
    PROVE  HistoryKept
BY GamesKept DEF RowsInv, KeepsGames

(* The rows of a box score are of its game and made now.                   *)
LEMMA TeamRowsOf ==
    ASSUME NEW box, NEW g, NEW by, NEW at, NEW t \in TeamRows(box, g, by, at)
    PROVE  /\ DOMAIN t = {"game", "team", "home", "runs", "allowed", "created", "by"}
           /\ t.game = g /\ t.created = at
<1>1. PICK s \in {1, 2} :
        t = [game |-> g, team |-> box.sides[s].team, home |-> s = 1, runs |-> box.sides[s].runs,
             allowed |-> box.sides[s].allowed, created |-> at, by |-> by]
  BY DEF TeamRows
<1> QED BY <1>1

LEMMA IngestKeepsRows ==
    ASSUME IngestInv, RowsInv, NEW i \in Ingesters, Ingest(i)
    PROVE  HistoryKept
<1>1. CASE StoreResults(i)
  <2> DEFINE tx == DateTransaction(i)
  <2>1. GamesKnown(tx.games, tx.sources) /\ KeepsGames(tx.games)
    <3>1. ingest[i].answer \in SchedulesOf(DateOfIngest[i])
      BY <1>1 DEF StoreResults, IngestInv, Holds
    <3> QED BY <3>1, ResultsAssumption, DateKeepsGames
  <2>2. teamStats' = teamStats /\ ((games' = tx.games /\ sources' = tx.sources) \/ UNCHANGED <<games, sources>>)
    BY <1>1 DEF StoreResults
  <2> HIDE DEF tx
  <2> QED BY <2>1, <2>2, GamesKept, NothingMoved
<1>2. CASE SaveBoxScore(i)
  <2> DEFINE b == ingest[i].box
             g == Head(ingest[i].refs)[1]
             teams == TeamRows(b, g, i, clock)
  <2>1. UNCHANGED <<games, sources>>
        /\ (teamStats' = teamStats \/ (g \in DOMAIN games /\ teamStats' = Upsert(teamStats, teams, "team")))
    BY <1>2 DEF SaveBoxScore
  <2>2. ASSUME g \in DOMAIN games, teamStats' = Upsert(teamStats, teams, "team")
        PROVE  RowsKnown(teamStats') /\ KeepsRows(teamStats')
    <3>1. \A t \in teams : /\ DOMAIN t = {"game", "team", "home", "runs", "allowed", "created", "by"}
                           /\ t.game \in DOMAIN games /\ t.created = clock
      BY <2>2, TeamRowsOf
    <3> HIDE DEF teams
    <3> QED BY <2>2, <3>1, UpsertKeeps DEF RowsInv, KeepsRows
  <2> HIDE DEF g, teams
  <2> QED BY <2>1, <2>2, RowsKept, NothingMoved
<1>3. CASE FetchSchedule(i) \/ SkipComplete(i) \/ FetchBoxScore(i) \/ BoxScoreFails(i)
           \/ DateEnds(i) \/ IngesterDies(i) \/ SyncBoxPlayer(i)
  BY <1>3, NothingMoved DEF FetchSchedule, SkipComplete, FetchBoxScore, BoxScoreFails, DateEnds,
                            IngesterDies, SyncBoxPlayer, historyVars, resultsVars
<1> QED BY <1>1, <1>2, <1>3 DEF Ingest, IngestStep

LEMMA PredictKeepsRows ==
    ASSUME SlateInv, RowsInv, NEW p \in Predictors, Predict(p)
    PROVE  HistoryKept
<1>1. CASE SyncSlate(p)
  <2> DEFINE tx == SlateTransaction(p)
  <2>1. GamesKnown(tx.games, tx.sources) /\ KeepsGames(tx.games)
    <3>1. predicting[p].slate \in SlatesOf(SlateDate)
      BY <1>1 DEF SyncSlate, SlateInv
    <3> QED BY <3>1, PredictionAssumption, SlateKeepsGames
  <2>2. teamStats' = teamStats /\ games' = tx.games /\ sources' = tx.sources
    BY <1>1 DEF SyncSlate
  <2> HIDE DEF tx
  <2> QED BY <2>1, <2>2, GamesKept
<1>2. CASE ~SyncSlate(p)
  <2>1. UNCHANGED <<games, sources, teamStats>>
    BY <1>2 DEF Predict, PredictorStep, SyncStarter, historyVars
  <2> QED BY <2>1, NothingMoved
<1> QED BY <1>1, <1>2

(* A recovery adds rows of games of which there was none, all created when *)
(* its transaction began.                                                  *)
LEMMA RecoverKeepsRows ==
    ASSUME RecoveryInv, RowsInv, NEW r \in Recoveries, Recover(r)
    PROVE  HistoryKept
<1>1. CASE CommitRecovery(r)
  <2> DEFINE game(ext) == recovery[r].manifest.games[ext].game
             new == UNION {TeamRows(b, game(b.ext), r, recovery[r].began) : b \in recovery[r].boxes}
  <2>1. UNCHANGED <<games, sources>> /\ teamStats' = teamStats \cup new
    BY <1>1 DEF CommitRecovery, Insert
  <2>2. Held(r) /\ Gathered(r) /\ recovery[r].at = "commit"
    BY <1>1 DEF RecoveryInv, Guarded, CommitRecovery
  <2>3. \A b \in recovery[r].boxes : game(b.ext) \in Targets(r) /\ game(b.ext) \in DOMAIN games
    <3>1. \A b \in recovery[r].boxes : \E e \in Eligible(r, recovery[r].answer) : b.ext = e.ext
      BY <2>2 DEF Gathered
    <3>2. ASSUME NEW x \in AllowList[r] PROVE game(x) \in DOMAIN games
      <4>1. PICK g \in DOMAIN games :
                recovery[r].manifest.games[x] =
                    [game |-> g, row |-> games[g], sources |-> {s \in sources : s.game = g}]
        BY <2>2, HeldGame
      <4> QED BY <4>1
    <3> QED BY <3>1, <3>2 DEF Targets, Eligible
  <2>4. \A t \in new : t.game \in Targets(r) /\ t.game \in DOMAIN games /\ t.created = recovery[r].began
    BY <2>3 DEF TeamRows
  <2>5. \A t \in teamStats : t.game \notin Targets(r)
    BY <2>2 DEF Held, TargetsAbsent
  <2> HIDE DEF new
  <2>6. RowsKnown(teamStats')
    BY <2>1, <2>4, <2>5 DEF RowsInv, RowsKnown
  <2>7. KeepsRows(teamStats')
    BY <2>1 DEF KeepsRows
  <2> QED BY <2>1, <2>6, <2>7, RowsKept
<1>2. CASE ~CommitRecovery(r)
  <2>1. UNCHANGED historyVars
    BY <1>2 DEF Recover, RecoveryStep, RecoveryFails
  <2> QED BY <2>1, NothingMoved DEF historyVars
<1> QED BY <1>1, <1>2

LEMMA RowsStep ==
    ASSUME HistoryInv, RowsInv, [Next]_vars
    PROVE  HistoryKept
<1>1. CASE \E i \in Ingesters \cap crew : Ingest(i)
  BY <1>1, IngestKeepsRows DEF HistoryInv
<1>2. CASE \E p \in Predictors \cap crew : Predict(p)
  BY <1>2, PredictKeepsRows DEF HistoryInv
<1>3. CASE \E r \in Recoveries \cap crew : Recover(r)
  BY <1>3, RecoverKeepsRows DEF HistoryInv
<1>4. CASE \/ \E s \in Rosters \cap crew : Roster(s)
           \/ \E t \in Trainers \cap crew : Train(t)
           \/ Tick \/ UNCHANGED vars
  <2>1. UNCHANGED <<games, sources, teamStats>>
    BY <1>4 DEF Roster, Train, Tick, vars, resultsVars, historyVars
  <2> QED BY <2>1, NothingMoved
<1> QED BY <1>1, <1>2, <1>3, <1>4 DEF Next

-----------------------------------------------------------------------------
(***************************************************************************)
(* What the check of the history has found of the games it required is     *)
(* still there when the features are read.                                 *)
(***************************************************************************)
Found(g, time) ==
    /\ g \in DOMAIN games
    /\ \A n \in {1, 2} : \E t \in teamStats :
          t.game = g /\ t.team = games[g].orient[n] /\ t.created <= time

Checked(p) ==
    predicting[p].at = "predict" =>
        \A g \in predicting[p].required : Found(g, predicting[p].time)

CheckedInv == \A p \in Predictors : Checked(p)

LEMMA FoundStays ==
    ASSUME HistoryKept, NEW g, NEW time, Found(g, time)
    PROVE  Found(g, time)'
BY DEF HistoryKept, KeepsGames, KeepsRows, Found

LEMMA RequiredIsFound ==
    ASSUME RowsInv, NEW targets, NEW starters, NEW time, HistoryComplete(targets, starters, time),
           NEW g \in RequiredGames(TargetTeams(targets), {}, time)
    PROVE  Found(g, time)
<1> DEFINE teams == TargetTeams(targets)
<1>1. g \in DOMAIN games /\ MappedBy(sources, g, Mlb)
  BY DEF RequiredGames, Newest, Begun
<1>2. g \in RequiredGames(teams, starters, time)
  BY DEF RequiredGames
<1>3. PICK s \in sources : s.game = g /\ s.source = Mlb
  BY <1>1 DEF MappedBy
<1>4. GameComplete(s.ext, time)
  BY <1>2, <1>3 DEF HistoryComplete, RequiredExts
<1> DEFINE mapped == MappedTo(sources, Mlb, s.ext)
           rows == {t \in teamStats : t.game = g /\ t.created <= time}
<1>5. (CHOOSE x \in mapped : TRUE) = g
  <2>1. mapped \in SUBSET DOMAIN games /\ g \in mapped
    BY <1>3 DEF MappedTo, RowsInv, GamesKnown
  <2>2. IsFiniteSet(mapped) /\ Cardinality(mapped) = 1
    BY <1>4, <2>1, FS_Subset DEF GameComplete, IdentityIssue, RowsInv, GamesKnown
  <2> HIDE DEF mapped
  <2> QED BY <2>1, <2>2, FS_Singleton
<1>6. TeamsComplete(g, rows, {results[s.ext].score})
  BY <1>4, <1>5 DEF GameComplete
<1>7. {<<t.team, t.home>> : t \in rows} = {<<games[g].orient[1], TRUE>>, <<games[g].orient[2], FALSE>>}
  BY <1>6 DEF TeamsComplete
<1>8. \A n \in {1, 2} : \E t \in rows : t.team = games[g].orient[n]
  <2> DEFINE home == <<games[g].orient[1], TRUE>>
             away == <<games[g].orient[2], FALSE>>
  <2>1. home \in {<<t.team, t.home>> : t \in rows} /\ away \in {<<t.team, t.home>> : t \in rows}
    BY <1>7
  <2>2. (\E t \in rows : <<t.team, t.home>> = home) /\ (\E t \in rows : <<t.team, t.home>> = away)
    <3> HIDE DEF rows, home, away
    <3> QED BY <2>1
  <2> HIDE DEF rows
  <2> QED BY <2>2
<1> QED BY <1>1, <1>8 DEF Found

LEMMA PredictingChanges ==
    ASSUME SlateInv, NEW p \in Predictors, NEW changes, SetPredicting(p, changes)
    PROVE  /\ \A q \in Predictors : q # p => predicting'[q] = predicting[q]
           /\ \A f \in DOMAIN NotPredicting :
                 predicting'[p][f] = IF f \in DOMAIN changes THEN changes[f] ELSE predicting[p][f]
BY DEF SlateInv, SetPredicting

(* Only the prediction of a game adds a row. *)
LEMMA PredictChecks ==
    ASSUME SlateInv, RowsInv, NEW p \in Predictors, Predict(p), Checked(p)
    PROVE  /\ \A q \in Predictors : q # p => predicting'[q] = predicting[q]
           /\ predicting'[p].at = "predict" =>
                 \A g \in predicting'[p].required : Found(g, predicting'[p].time)
           /\ PredictGame(p) \/ predicting'[p].rows \subseteq predicting[p].rows
<1>0. {"at", "time", "rows", "required"} \subseteq DOMAIN NotPredicting
  BY DEF NotPredicting
<1>1. ASSUME NEW changes, SetPredicting(p, changes), "at" \in DOMAIN changes,
             changes["at"] # "predict", "rows" \notin DOMAIN changes \/ changes["rows"] = {}
      PROVE  /\ \A q \in Predictors : q # p => predicting'[q] = predicting[q]
             /\ predicting'[p].at # "predict" /\ predicting'[p].rows \subseteq predicting[p].rows
  BY <1>0, <1>1, PredictingChanges
<1>2. CASE ReadManifest(p) \/ CreateRun(p) \/ FetchSlate(p) \/ SyncSlate(p) \/ CompleteRun(p)
  BY <1>1, <1>2 DEF ReadManifest, CreateRun, FetchSlate, SyncSlate, CompleteRun
<1>3. CASE CheckHistory(p)
  <2> DEFINE targets == {e.ext : e \in Predicted(p)}
             starters == {playerIds[x] : x \in Probable(p)}
             needed == RequiredGames(TargetTeams(targets), {}, predicting[p].time)
  <2>1. /\ HistoryComplete(targets, starters, predicting[p].time)
        /\ SetPredicting(p, [at |-> "predict", required |-> needed])
    BY <1>3 DEF CheckHistory
  <2>2. \A g \in needed : Found(g, predicting[p].time)
    BY <2>1, RequiredIsFound
  <2> HIDE DEF needed
  <2> QED BY <1>0, <2>1, <2>2, PredictingChanges
<1>4. CASE PredictGame(p)
  <2>1. PICK rows : SetPredicting(p, [rows |-> rows])
    BY <1>4 DEF PredictGame
  <2> QED BY <1>0, <1>4, <2>1, PredictingChanges DEF Checked
<1>5. CASE SyncStarter(p)
  BY <1>5 DEF SyncStarter, Checked
<1>6. CASE RunFails(p)
  BY <1>6 DEF RunFails, SlateInv, NotPredicting
<1> QED BY <1>2, <1>3, <1>4, <1>5, <1>6 DEF Predict, PredictorStep

LEMMA CheckedStep ==
    ASSUME HistoryInv, RowsInv, CheckedInv, [Next]_vars
    PROVE  /\ CheckedInv'
           /\ \A p \in Predictors : PredictGame(p) \/ predicting'[p].rows \subseteq predicting[p].rows
<1>1. HistoryKept
  BY RowsStep
<1>2. ASSUME NEW p \in Predictors, predicting'[p] = predicting[p] PROVE Checked(p)'
  BY <1>1, <1>2, FoundStays DEF CheckedInv, Checked
<1>3. CASE \E p \in Predictors \cap crew : Predict(p)
  <2>1. PICK p \in Predictors : Predict(p)
    BY <1>3
  <2>2. /\ \A q \in Predictors : q # p => predicting'[q] = predicting[q]
        /\ predicting'[p].at = "predict" =>
              \A g \in predicting'[p].required : Found(g, predicting'[p].time)
        /\ PredictGame(p) \/ predicting'[p].rows \subseteq predicting[p].rows
    BY <2>1, PredictChecks DEF HistoryInv, CheckedInv
  <2>3. Checked(p)'
    BY <1>1, <2>2, FoundStays DEF Checked
  <2>4. \A q \in Predictors : Checked(q)'
    BY <1>2, <2>2, <2>3
  <2> QED BY <2>2, <2>4 DEF CheckedInv
<1>4. CASE ~ \E p \in Predictors \cap crew : Predict(p)
  <2>1. UNCHANGED predicting
    BY <1>4 DEF Next, Roster, Ingest, Recover, Train, Tick, vars, predictionVars
  <2> QED BY <1>2, <2>1 DEF CheckedInv
<1> QED BY <1>3, <1>4

(* What a game that is found and plays is drawn from. *)
LEMMA DrawnFrom ==
    ASSUME RowsInv, NEW team, NEW cutoff, NEW g, Found(g, cutoff), Plays(team, g), games[g].start < cutoff
    PROVE  LET drawn == GamesOf(TeamGames(team, cutoff))
           IN  g \in drawn \/ (Cardinality(drawn) = TeamGameLimit /\ \A h \in drawn : Later(h, g))
<1> DEFINE rows == {t \in Visible(teamStats, cutoff) : t.team = team}
           V == GamesOf(rows)
           drawn == GamesOf(TeamGames(team, cutoff))
<1>1. V \in SUBSET DOMAIN games
  BY DEF GamesOf, Visible, RowsInv, RowsKnown
<1>2. PICK t \in teamStats : t.game = g /\ t.team = team /\ t.created <= cutoff
  BY DEF Found, Plays
<1>3. g \in V
  BY <1>2 DEF GamesOf, Visible
<1>4. drawn = Newest(V, TeamGameLimit)
  <2>1. drawn = GamesOf({r \in rows : r.game \in Newest(V, TeamGameLimit)})
    BY DEF TeamGames, Within
  <2>2. Newest(V, TeamGameLimit) \subseteq V
    BY DEF Newest
  <2> HIDE DEF rows, drawn
  <2> QED BY <2>1, <2>2 DEF GamesOf
<1> HIDE DEF V, drawn
<1>5. g \notin Newest(V, TeamGameLimit) =>
          Cardinality(Newest(V, TeamGameLimit)) = TeamGameLimit
          /\ \A h \in Newest(V, TeamGameLimit) : Later(h, g)
  BY <1>1, <1>3, CompletenessAssumption, NewestOf DEF RowsInv
<1> QED BY <1>4, <1>5 DEF drawn

LEMMA PredictionDraws ==
    ASSUME SlateInv, RowsInv, NEW p \in Predictors, Checked(p), PredictGame(p),
           NEW n \in predicting'[p].rows \ predicting[p].rows, NEW side \in {1, 2},
           NEW g \in predicting[p].required,
           Plays(n.orient[side], g), games[g].start < n.time
    PROVE  \/ g \in n.drawn[side]
           \/ /\ Cardinality(n.drawn[side]) = TeamGameLimit
              /\ \A h \in n.drawn[side] : Later(h, g)
<1>1. PICK game, starters, ext :
          SetPredicting(p, [rows |-> predicting[p].rows \cup
              {[ext |-> ext, game |-> game, orient |-> games[game].orient,
                start |-> games[game].start, time |-> predicting[p].time,
                drawn |-> FeatureVector(games[game].orient, games[game].start,
                                        predicting[p].time, starters).drawn]}])
  BY DEF PredictGame
<1> DEFINE orient == games[game].orient
           time == predicting[p].time
<1>2. "rows" \in DOMAIN NotPredicting
  BY DEF NotPredicting
<1>3. predicting'[p].rows = predicting[p].rows \cup
              {[ext |-> ext, game |-> game, orient |-> games[game].orient,
                start |-> games[game].start, time |-> predicting[p].time,
                drawn |-> FeatureVector(games[game].orient, games[game].start,
                                        predicting[p].time, starters).drawn]}
  BY <1>1, <1>2, PredictingChanges
<1>4. /\ n.orient = orient /\ n.time = time
      /\ n.drawn = FeatureVector(orient, games[game].start, time, starters).drawn
  BY <1>3
<1>5. n.drawn[side] = GamesOf(TeamGames(orient[side], time))
  BY <1>4 DEF FeatureVector
<1>6. Found(g, time)
  BY DEF Checked, PredictGame
<1> HIDE DEF orient, time
<1> QED BY <1>4, <1>5, <1>6, DrawnFrom

ReadInv == HistoryInv /\ RowsInv /\ CheckedInv

THEOREM HistoryIsRead == Spec => []ReadInv
<1>1. Init => ReadInv
  BY InitIngestInv, InitSlateInv, InitRecoveryInv, InitRowsInv
  DEF HistoryInv, ReadInv, CheckedInv, Checked, Init, PredictionInit, NotPredicting
<1>2. ReadInv /\ [Next]_vars => ReadInv'
  BY HistoryStep, RowsStep, CheckedStep DEF ReadInv, HistoryKept
<1> QED BY <1>1, <1>2, PTL DEF Spec

(* A game is predicted from every game the check required of its teams, or *)
(* from as many newer ones: whatever is stored, moved, inserted or created *)
(* between the check and the reads of the features.                        *)
THEOREM PredictionsDrawOnHistory == Spec => PredictedFromWholeHistory
<1>1. ReadInv /\ [Next]_vars =>
          [\A p \in Predictors : \A n \in predicting'[p].rows \ predicting[p].rows, side \in {1, 2} :
               \A g \in predicting[p].required :
                   Plays(n.orient[side], g) /\ games[g].start < n.time =>
                       \/ g \in n.drawn[side]
                       \/ /\ Cardinality(n.drawn[side]) = TeamGameLimit
                          /\ \A h \in n.drawn[side] : Later(h, g)]_vars
  <2> SUFFICES ASSUME ReadInv, [Next]_vars, NEW p \in Predictors,
                      NEW n \in predicting'[p].rows \ predicting[p].rows, NEW side \in {1, 2},
                      NEW g \in predicting[p].required,
                      Plays(n.orient[side], g), games[g].start < n.time
               PROVE  \/ g \in n.drawn[side]
                      \/ /\ Cardinality(n.drawn[side]) = TeamGameLimit
                         /\ \A h \in n.drawn[side] : Later(h, g)
    OBVIOUS
  <2>1. PredictGame(p)
    BY CheckedStep DEF ReadInv
  <2> QED BY <2>1, PredictionDraws DEF ReadInv, HistoryInv, CheckedInv
<1> QED BY <1>1, HistoryIsRead, PTL DEF Spec, PredictedFromWholeHistory

-----------------------------------------------------------------------------
(***************************************************************************)
(* The rows a model is made of: in the order of their starts and numbers,  *)
(* each drawn from what had begun before it.                               *)
(***************************************************************************)
Before(r, s) == Chronological(r, s) /\ r.game # s.game

Sorted(seq) ==
    /\ IsSeq(seq)
    /\ \A n \in DOMAIN seq : seq[n].start \in Int /\ seq[n].game \in Int
    /\ \A m, n \in DOMAIN seq : m < n => Before(seq[m], seq[n])

AllBefore(seq, next) == \A m \in DOMAIN seq, n \in DOMAIN next : Before(seq[m], next[n])

DrawnBefore(row) ==
    \A d \in row.drawn :
        /\ d[2] < row.start
        /\ d[1] = row.game => \E s \in teamStats : s.game = row.game /\ s.created <= row.start

Trains(t) ==
    /\ DOMAIN training[t] = DOMAIN NotTraining
    /\ training[t].at = "idle" => training[t].rows = <<>>
    /\ Sorted(training[t].rows) /\ Sorted(training[t].listed)
    /\ AllBefore(training[t].rows, training[t].listed)
    /\ \A n \in DOMAIN training[t].rows : DrawnBefore(training[t].rows[n])
    /\ training[t].folds # {} =>
          /\ training[t].at \notin {"idle", "rows"}
          /\ CanEvaluate(training[t].rows) /\ training[t].folds = Evaluation(training[t].rows)

TrainingInv == DOMAIN training = Trainers /\ \A t \in Trainers : Trains(t)

LEMMA EmptySorted == Sorted(<<>>)
BY DEF Sorted, IsSeq

LEMMA InitTrainingInv == Init => TrainingInv
BY EmptySorted DEF Init, TrainingInit, NotTraining, TrainingInv, Trains, AllBefore

LEMMA AppendAt ==
    ASSUME NEW s, IsSeq(s), NEW e
    PROVE  /\ IsSeq(Append(s, e)) /\ Len(s) \in Nat /\ DOMAIN s = 1 .. Len(s)
           /\ DOMAIN Append(s, e) = 1 .. Len(s) + 1
           /\ \A n \in 1 .. Len(s) : Append(s, e)[n] = s[n]
           /\ Append(s, e)[Len(s) + 1] = e
<1> DEFINE S == {s[n] : n \in DOMAIN s} \cup {e}
<1>1. s \in Seq(S)
  BY DEF IsSeq
<1>2. IsSeq(Append(s, e))
  BY AppendRef
<1> HIDE DEF S
<1> QED BY <1>1, <1>2

LEMMA TailAt ==
    ASSUME NEW s, IsSeq(s), s # <<>>
    PROVE  /\ IsSeq(Tail(s)) /\ Len(s) \in Nat /\ DOMAIN s = 1 .. Len(s) /\ 1 \in DOMAIN s
           /\ Head(s) = s[1]
           /\ DOMAIN Tail(s) = 1 .. Len(s) - 1
           /\ \A n \in 1 .. Len(s) - 1 : Tail(s)[n] = s[n + 1]
<1> DEFINE S == {s[n] : n \in DOMAIN s}
           tail == Tail(s)
<1>1. s \in Seq(S)
  BY DEF IsSeq
<1> HIDE DEF S
<1>2. /\ tail \in Seq(S) /\ Len(tail) = Len(s) - 1 /\ DOMAIN tail = 1 .. Len(tail)
      /\ Len(s) \in Nat /\ DOMAIN s = 1 .. Len(s) /\ Len(s) >= 1 /\ Head(s) = s[1]
      /\ \A n \in 1 .. Len(s) - 1 : tail[n] = s[n + 1]
  BY <1>1
<1> HIDE DEF tail
<1>3. IsSeq(tail)
  <2> DEFINE T == {tail[n] : n \in DOMAIN tail}
  <2>1. \A n \in 1 .. Len(tail) : tail[n] \in T
    BY <1>2
  <2> HIDE DEF T
  <2>2. tail \in Seq(T)
    BY <1>2, <2>1
  <2> QED BY <2>2 DEF IsSeq, T
<1> QED BY <1>2, <1>3 DEF tail

(* The first that is listed becomes the last row, or none. *)
LEMMA RowAfterRows ==
    ASSUME NEW rows, NEW listed, Sorted(rows), Sorted(listed), AllBefore(rows, listed), listed # <<>>,
           NEW row, row.game = Head(listed).game, row.start = Head(listed).start
    PROVE  /\ Sorted(Tail(listed)) /\ AllBefore(rows, Tail(listed))
           /\ Sorted(Append(rows, row)) /\ AllBefore(Append(rows, row), Tail(listed))
<1> DEFINE tail == Tail(listed)
           more == Append(rows, row)
<1>1. /\ IsSeq(tail) /\ Len(listed) \in Nat /\ DOMAIN listed = 1 .. Len(listed) /\ 1 \in DOMAIN listed
      /\ Head(listed) = listed[1]
      /\ DOMAIN tail = 1 .. Len(listed) - 1 /\ \A n \in 1 .. Len(listed) - 1 : tail[n] = listed[n + 1]
  BY TailAt DEF Sorted
<1>2. /\ IsSeq(more) /\ Len(rows) \in Nat /\ DOMAIN rows = 1 .. Len(rows)
      /\ DOMAIN more = 1 .. Len(rows) + 1
      /\ \A n \in 1 .. Len(rows) : more[n] = rows[n]
      /\ more[Len(rows) + 1] = row
  BY AppendAt DEF Sorted
<1> HIDE DEF tail, more
<1>3. ASSUME NEW n \in DOMAIN tail
      PROVE  /\ n + 1 \in DOMAIN listed /\ tail[n] = listed[n + 1] /\ 1 < n + 1
  BY <1>1
<1>4. Sorted(tail)
  <2>1. \A m, n \in DOMAIN tail : m < n => m + 1 < n + 1
    BY <1>1
  <2> QED BY <1>1, <1>3, <2>1 DEF Sorted
<1>5. AllBefore(rows, tail)
  BY <1>3 DEF AllBefore
<1>6. ASSUME NEW n \in DOMAIN tail PROVE Before(row, tail[n])
  <2>1. Before(listed[1], listed[n + 1])
    BY <1>1, <1>3 DEF Sorted
  <2> QED BY <1>1, <1>3, <2>1 DEF Before, Chronological
<1>7. \A m \in DOMAIN rows : Before(rows[m], row)
  BY <1>1 DEF AllBefore, Before, Chronological
<1>8. \A n \in DOMAIN more : n \in DOMAIN rows \/ n = Len(rows) + 1
  BY <1>2
<1>9. Sorted(more)
  <2>1. \A n \in DOMAIN more : more[n].start \in Int /\ more[n].game \in Int
    BY <1>1, <1>2, <1>8 DEF Sorted
  <2>2. ASSUME NEW m \in DOMAIN more, NEW n \in DOMAIN more, m < n PROVE Before(more[m], more[n])
    <3>1. m \in DOMAIN rows
      BY <2>2, <1>2
    <3> QED BY <2>2, <3>1, <1>2, <1>7, <1>8 DEF Sorted
  <2> QED BY <1>2, <2>1, <2>2 DEF Sorted
<1>10. AllBefore(more, tail)
  BY <1>2, <1>5, <1>6, <1>8 DEF AllBefore
<1> QED BY <1>4, <1>5, <1>9, <1>10 DEF tail, more

(* The games that are listed, one after another.                           *)
LEMMA InOrderIs ==
    ASSUME GamesKnown(games, sources), NEW ids \in SUBSET DOMAIN games
    PROVE  /\ Cardinality(ids) \in Nat
           /\ \A n \in 1 .. Cardinality(ids) : InOrder(ids)[n] \in ids
           /\ \A m, n \in 1 .. Cardinality(ids) : m < n => Later(InOrder(ids)[n], InOrder(ids)[m])
<1> DEFINE R == {e \in ids \X ids : Later(e[2], e[1])}
           rank == PlaceIn(ids, R)
           C == Cardinality(ids)
<1>1. /\ IsFiniteSet(ids) /\ Ordered(ids, R)
      /\ \A x, y \in ids : <<x, y>> \in R <=> Later(y, x)
  BY GamesOrdered
<1>2. C \in Nat
  BY <1>1, FS_CardinalityType
<1>3. \A g \in ids : rank[g] = Cardinality({h \in ids : Later(g, h)})
  BY <1>1 DEF PlaceIn
<1> HIDE DEF R
<1>4. \A k \in 0 .. C - 1 : \E g \in ids : rank[g] = k
  BY <1>1, PlacesTaken
<1>5. ASSUME NEW n \in 1 .. C
      PROVE  InOrder(ids)[n] \in ids /\ rank[InOrder(ids)[n]] = n - 1
  <2>1. n - 1 \in 0 .. C - 1
    BY <1>2
  <2>2. PICK g \in ids : rank[g] = n - 1
    BY <1>4, <2>1
  <2>3. Cardinality({h \in ids : Later(g, h)}) = n - 1
    BY <1>3, <2>2
  <2>4. InOrder(ids)[n] = CHOOSE x \in ids : Cardinality({h \in ids : Later(x, h)}) = n - 1
    BY DEF InOrder
  <2> HIDE DEF rank
  <2>5. InOrder(ids)[n] \in ids /\ Cardinality({h \in ids : Later(InOrder(ids)[n], h)}) = n - 1
    BY <2>3, <2>4
  <2> QED BY <1>3, <2>5
<1>6. \A x, y \in ids : rank[x] < rank[y] => Later(y, x)
  BY <1>1, PlacesInOrder
<1> HIDE DEF rank
<1>7. ASSUME NEW m \in 1 .. C, NEW n \in 1 .. C, m < n
      PROVE  Later(InOrder(ids)[n], InOrder(ids)[m])
  <2>1. m - 1 < n - 1
    BY <1>7
  <2> QED BY <1>5, <1>6, <2>1
<1> QED BY <1>2, <1>5, <1>7

LEMMA CompletedSorted ==
    ASSUME RowsInv
    PROVE  Sorted(CompletedGames)
<1> DEFINE ids == CompletedIds
           C == Cardinality(ids)
           place == InOrder(ids)
           seq == CompletedGames
<1>1. ids \in SUBSET DOMAIN games
  BY DEF CompletedIds, BoxScoreComplete
<1>2. seq = [n \in 1 .. C |-> Completed(place[n])]
  BY DEF CompletedGames
<1> HIDE DEF ids, seq
<1>3. /\ C \in Nat
      /\ \A n \in 1 .. C : place[n] \in DOMAIN games
      /\ \A m, n \in 1 .. C : m < n => Later(place[n], place[m])
  BY <1>1, InOrderIs DEF RowsInv
<1> HIDE DEF C, place
<1>4. /\ DOMAIN seq = 1 .. C /\ seq = [n \in 1 .. C |-> seq[n]]
      /\ \A n \in 1 .. C : seq[n].game = place[n] /\ seq[n].start = games[place[n]].start
  BY <1>2 DEF Completed
<1>5. \A g \in DOMAIN games : g \in Int /\ games[g].start \in Int
  <2>1. Cardinality(DOMAIN games) \in Nat
    BY FS_CardinalityType DEF RowsInv, GamesKnown
  <2> QED BY <2>1 DEF RowsInv, GamesKnown
<1>6. \A n \in 1 .. C : seq[n].start \in Int /\ seq[n].game \in Int
  BY <1>3, <1>4, <1>5
<1>7. ASSUME NEW m \in 1 .. C, NEW n \in 1 .. C, m < n PROVE Before(seq[m], seq[n])
  BY <1>3, <1>4, <1>5, <1>7 DEF Later, Before, Chronological
<1>8. IsSeq(seq)
  <2> DEFINE T == {seq[n] : n \in DOMAIN seq}
  <2>1. \A n \in 1 .. C : seq[n] \in T
    BY <1>4
  <2> HIDE DEF T
  <2>2. seq \in Seq(T)
    BY <1>3, <1>4, <2>1, InSeq
  <2> QED BY <2>2 DEF IsSeq, T
<1> QED BY <1>4, <1>6, <1>7, <1>8 DEF Sorted, seq

LEMMA RowIsDrawnBefore ==
    ASSUME RowsInv, NEW c
    PROVE  DrawnBefore(RowOf(c)) /\ RowOf(c).game = c.game /\ RowOf(c).start = c.start
<1> DEFINE drawn(n) == GamesOf(TeamGames(c.orient[n], c.start))
           row == RowOf(c)
<1>1. /\ row.game = c.game /\ row.start = c.start
      /\ row.drawn = {<<g, games[g].start>> : g \in drawn(1) \cup drawn(2)}
  BY DEF RowOf, FeatureVector
<1>2. ASSUME NEW n \in {1, 2}, NEW g \in drawn(n)
      PROVE  games[g].start < c.start /\ \E s \in teamStats : s.game = g /\ s.created <= c.start
  BY DEF GamesOf, TeamGames, Within, Visible
<1> HIDE DEF drawn, row
<1>3. ASSUME NEW d \in row.drawn
      PROVE  d[2] < c.start /\ \E s \in teamStats : s.game = d[1] /\ s.created <= c.start
  <2>1. PICK g \in drawn(1) \cup drawn(2) : d = <<g, games[g].start>>
    BY <1>1
  <2> QED BY <2>1, <1>2
<1> QED BY <1>1, <1>3 DEF DrawnBefore, row

LEMMA TrainingChanges ==
    ASSUME TrainingInv, NEW t \in Trainers, NEW changes, SetTraining(t, changes)
    PROVE  /\ DOMAIN training' = Trainers
           /\ \A u \in Trainers : u # t => training'[u] = training[u]
           /\ DOMAIN training'[t] = DOMAIN NotTraining
           /\ \A f \in DOMAIN NotTraining :
                 training'[t][f] = IF f \in DOMAIN changes THEN changes[f] ELSE training[t][f]
BY DEF TrainingInv, Trains, SetTraining

LEMMA DrawnStays ==
    ASSUME HistoryKept, NEW row, DrawnBefore(row)
    PROVE  DrawnBefore(row)'
BY DEF HistoryKept, KeepsRows, DrawnBefore

(* What was trained stays as it was, and what it was drawn from is there.  *)
LEMMA TrainsStays ==
    ASSUME HistoryKept, NEW t \in Trainers, Trains(t), training'[t] = training[t]
    PROVE  Trains(t)'
BY DrawnStays DEF Trains

(* The files are written in steps that leave the rows and the folds. *)
LEMMA RowsAsTheyWere ==
    ASSUME HistoryKept, TrainingInv, NEW t \in Trainers, NEW changes, SetTraining(t, changes),
           DOMAIN changes \cap {"rows", "folds", "listed"} = {}, "at" \in DOMAIN changes,
           changes["at"] \notin {"idle", "rows"}
    PROVE  Trains(t)'
<1>0. {"at", "rows", "listed", "folds"} \subseteq DOMAIN NotTraining
  BY DEF NotTraining
<1>1. /\ DOMAIN training'[t] = DOMAIN NotTraining
      /\ training'[t].at \notin {"idle", "rows"}
      /\ training'[t].rows = training[t].rows /\ training'[t].listed = training[t].listed
      /\ training'[t].folds = training[t].folds
  BY <1>0, TrainingChanges
<1>2. Trains(t)
  BY DEF TrainingInv
<1> QED BY <1>1, <1>2, DrawnStays DEF Trains

LEMMA TrainKeepsRows ==
    ASSUME HistoryKept, RowsInv, TrainingInv, NEW t \in Trainers, Train(t)
    PROVE  Trains(t)'
<1>0. {"at", "rows", "listed", "folds"} \subseteq DOMAIN NotTraining
  BY DEF NotTraining
<1>a. Trains(t)
  BY DEF TrainingInv
<1>1. CASE ListCompleted(t)
  <2>1. training[t].at = "idle" /\ SetTraining(t, [at |-> "rows", listed |-> CompletedGames])
    BY <1>1 DEF ListCompleted
  <2>2. /\ DOMAIN training'[t] = DOMAIN NotTraining
        /\ training'[t].at = "rows" /\ training'[t].listed = CompletedGames
        /\ training'[t].rows = <<>> /\ training'[t].folds = {}
    BY <1>0, <1>a, <2>1, TrainingChanges DEF Trains
  <2>3. Sorted(CompletedGames) /\ Sorted(<<>>)
    BY CompletedSorted, EmptySorted
  <2> QED BY <2>2, <2>3 DEF Trains, AllBefore
<1>2. CASE AddRow(t)
  <2> DEFINE c == Head(training[t].listed)
             rows == training[t].rows
             more == IF c.score[1] = c.score[2] THEN rows ELSE Append(rows, RowOf(c))
  <2>1. /\ training[t].at = "rows" /\ training[t].listed # <<>>
        /\ SetTraining(t, [listed |-> Tail(training[t].listed), rows |-> more])
    BY <1>2 DEF AddRow
  <2>2. RowOf(c).game = c.game /\ RowOf(c).start = c.start /\ DrawnBefore(RowOf(c))
    BY RowIsDrawnBefore
  <2> HIDE DEF c
  <2>3. Sorted(Tail(training[t].listed)) /\ Sorted(more) /\ AllBefore(more, Tail(training[t].listed))
    BY <1>a, <2>1, <2>2, RowAfterRows DEF Trains, c
  <2>4. \A n \in DOMAIN more : DrawnBefore(more[n])
    BY <1>a, <2>2, AppendRef, AppendAt DEF Trains, Sorted
  <2> HIDE DEF more
  <2>5. /\ DOMAIN training'[t] = DOMAIN NotTraining
        /\ training'[t].at = "rows" /\ training'[t].listed = Tail(training[t].listed)
        /\ training'[t].rows = more /\ training'[t].folds = {}
    <3>1. /\ DOMAIN training'[t] = DOMAIN NotTraining
          /\ training'[t].at = training[t].at /\ training'[t].folds = training[t].folds
          /\ training'[t].listed = Tail(training[t].listed) /\ training'[t].rows = more
      <4> DEFINE changes == [listed |-> Tail(training[t].listed), rows |-> more]
      <4>1. /\ DOMAIN changes = {"listed", "rows"}
            /\ changes["listed"] = Tail(training[t].listed) /\ changes["rows"] = more
        OBVIOUS
      <4>2. SetTraining(t, changes)
        BY <2>1
      <4> HIDE DEF changes
      <4> QED BY <1>0, <4>1, <4>2, TrainingChanges
    <3>2. training[t].folds = {}
      BY <1>a, <2>1 DEF Trains
    <3> QED BY <2>1, <3>1, <3>2
  <2> QED BY <2>3, <2>4, <2>5, DrawnStays DEF Trains
<1>3. CASE Evaluate(t)
  <2>1. CASE ~CanEvaluate(training[t].rows)
    BY <1>3, <2>1, RowsAsTheyWere DEF Evaluate
  <2>2. CASE CanEvaluate(training[t].rows)
    <3> DEFINE folds == Evaluation(training[t].rows)
    <3>1. SetTraining(t, [at |-> "fit", folds |-> folds, report |-> BuildOf[t]])
      BY <1>3, <2>2 DEF Evaluate
    <3> HIDE DEF folds
    <3>2. /\ DOMAIN training'[t] = DOMAIN NotTraining
          /\ training'[t].at = "fit" /\ training'[t].listed = training[t].listed
          /\ training'[t].rows = training[t].rows /\ training'[t].folds = folds
      BY <1>0, <3>1, TrainingChanges
    <3> QED BY <1>a, <2>2, <3>2, DrawnStays DEF Trains, folds
  <2> QED BY <2>1, <2>2
<1>4. CASE BeginModel(t) \/ SaveModel(t) \/ CopyEvaluation(t) \/ BeginManifest(t) \/ WriteManifest(t)
  BY <1>4, RowsAsTheyWere DEF BeginModel, SaveModel, CopyEvaluation, BeginManifest, WriteManifest
<1>5. CASE TrainerDies(t)
  <2>1. SetTraining(t, [at |-> "done", listed |-> <<>>])
    BY <1>5 DEF TrainerDies
  <2>2. /\ DOMAIN training'[t] = DOMAIN NotTraining
        /\ training'[t].at = "done" /\ training'[t].listed = <<>>
        /\ training'[t].rows = training[t].rows /\ training'[t].folds = training[t].folds
    BY <1>0, <2>1, TrainingChanges
  <2> QED BY <1>a, <2>2, DrawnStays, EmptySorted DEF Trains, AllBefore
<1> QED BY <1>1, <1>2, <1>3, <1>4, <1>5 DEF Train, TrainerStep

LEMMA TrainingStep ==
    ASSUME HistoryInv, RowsInv, TrainingInv, [Next]_vars
    PROVE  TrainingInv'
<1>1. HistoryKept
  BY RowsStep
<1>2. CASE \E t \in Trainers \cap crew : Train(t)
  <2>1. PICK t \in Trainers : Train(t)
    BY <1>2
  <2>2. PICK changes : SetTraining(t, changes)
    BY <2>1 DEF Train, TrainerStep, ListCompleted, AddRow, Evaluate, BeginModel, SaveModel,
                CopyEvaluation, BeginManifest, WriteManifest, TrainerDies
  <2>3. DOMAIN training' = Trainers /\ \A u \in Trainers : u # t => training'[u] = training[u]
    BY <2>2, TrainingChanges
  <2>4. \A u \in Trainers : Trains(u)'
    BY <1>1, <2>1, <2>3, TrainKeepsRows, TrainsStays DEF TrainingInv
  <2> QED BY <2>3, <2>4 DEF TrainingInv
<1>3. CASE ~ \E t \in Trainers \cap crew : Train(t)
  <2>1. UNCHANGED training
    BY <1>3 DEF Next, Roster, Ingest, Recover, Predict, Tick, vars
  <2> QED BY <1>1, <2>1, TrainsStays DEF TrainingInv
<1> QED BY <1>2, <1>3

-----------------------------------------------------------------------------
(***************************************************************************)
(* The folds of the evaluation, for any sizes of the windows.              *)
(***************************************************************************)
LEMMA Times ==
    /\ \A i, s \in Nat : i * s \in Nat /\ (s > 0 => i <= i * s)
    /\ \A i, j, s \in Nat : i <= j => i * s <= j * s
<1>1. \A i, s \in Nat : i * s \in Nat
  OBVIOUS
<1>2. ASSUME NEW i \in Nat, NEW j \in Nat, NEW s \in Nat, i <= j PROVE i * s <= j * s
  <2>1. j - i \in Nat /\ j * s = i * s + (j - i) * s
    BY <1>2
  <2>2. (j - i) * s \in Nat
    BY <1>1, <2>1
  <2> QED BY <1>1, <2>1, <2>2
<1>3. ASSUME NEW i \in Nat, NEW s \in Nat, s > 0 PROVE i <= i * s
  <2>1. 1 * i <= s * i
    BY <1>2, <1>3
  <2> QED BY <2>1
<1> QED BY <1>1, <1>2, <1>3

LEMMA Windows ==
    /\ InitialRows \in Nat /\ InitialRows > 0
    /\ BlockSize \in Nat /\ BlockSize > 0
    /\ TuningSplits \in Nat /\ TuningSplits > 1
BY TrainingAssumption

(* The block of a row is the only one it is in.                            *)
LEMMA BlockOfRow ==
    ASSUME NEW length \in Nat, NEW n \in InitialRows + 1 .. length
    PROVE  \E k \in 0 .. length :
              /\ InitialRows + k * BlockSize < n /\ n <= InitialRows + (k + 1) * BlockSize
              /\ \A j \in Nat : InitialRows + j * BlockSize < n
                                /\ n <= InitialRows + (j + 1) * BlockSize => j = k
<1> DEFINE reach == {k \in Nat : n <= InitialRows + (k + 1) * BlockSize}
<1>0. n \in Nat /\ InitialRows < n /\ n <= length
  BY Windows
<1>1. n \in reach
  <2>1. n + 1 <= (n + 1) * BlockSize /\ (n + 1) * BlockSize \in Nat
    BY <1>0, Times, Windows
  <2> QED BY <1>0, <2>1, Windows
<1>2. PICK k \in reach : \A j \in reach : k <= j
  <2>1. reach \in SUBSET Nat /\ reach # {}
    BY <1>1
  <2> HIDE DEF reach
  <2> QED BY <2>1, NatMin
<1>3. k \in Nat /\ k * BlockSize \in Nat /\ k <= k * BlockSize
  BY Times, Windows
<1>4. InitialRows + k * BlockSize < n
  <2>1. CASE k = 0
    BY <2>1, <1>0, Windows
  <2>2. CASE k # 0
    <3>1. k - 1 \in Nat /\ ~(k - 1 \in reach) /\ (k - 1) + 1 = k
      BY <2>2, <1>2, <1>3
    <3>2. ~(n <= InitialRows + k * BlockSize)
      BY <3>1
    <3> QED BY <3>2, <1>0, <1>3, Windows
  <2> QED BY <2>1, <2>2
<1>5. n <= InitialRows + (k + 1) * BlockSize
  OBVIOUS
<1>6. ASSUME NEW j \in Nat, InitialRows + j * BlockSize < n,
             n <= InitialRows + (j + 1) * BlockSize
      PROVE  j = k
  <2>1. k <= j
    BY <1>2, <1>6
  <2>2. CASE k < j
    <3>1. (k + 1) * BlockSize <= j * BlockSize
      BY <2>2, <1>3, Times, Windows
    <3>2. (k + 1) * BlockSize \in Nat /\ j * BlockSize \in Nat
      BY <1>3, Times, Windows
    <3> QED BY <3>1, <3>2, <1>0, <1>5, <1>6, Windows
  <2> QED BY <2>1, <2>2, <1>3
<1>7. k \in 0 .. length
  BY <1>0, <1>3, <1>4, Windows
<1> QED BY <1>4, <1>5, <1>6, <1>7

LEMMA FoldsFit ==
    ASSUME NEW length \in Nat, NEW f \in WalkForwardFolds(length)
    PROVE  /\ f[1] \in Nat /\ f[2] \in Nat /\ f[1] < f[2] /\ f[2] <= length
           /\ \E k \in Nat : /\ f = <<InitialRows + k * BlockSize,
                                      Lesser(InitialRows + (k + 1) * BlockSize, length)>>
                             /\ f[1] = InitialRows + k * BlockSize
                             /\ f[2] <= InitialRows + (k + 1) * BlockSize
<1>1. PICK k \in 0 .. length :
        /\ InitialRows + k * BlockSize < length
        /\ f = <<InitialRows + k * BlockSize, Lesser(InitialRows + (k + 1) * BlockSize, length)>>
  BY DEF WalkForwardFolds
<1>2. k \in Nat /\ k * BlockSize \in Nat /\ (k + 1) * BlockSize \in Nat
  BY Times, Windows
<1>3. (k + 1) * BlockSize = k * BlockSize + BlockSize
  BY <1>2, Windows
<1> DEFINE first == InitialRows + k * BlockSize
           last == InitialRows + (k + 1) * BlockSize
<1>4. first \in Nat /\ last \in Nat /\ first < last /\ first < length
  BY <1>1, <1>2, <1>3, Windows
<1>5. f[1] = first /\ f[2] = Lesser(last, length)
  BY <1>1
<1> HIDE DEF first, last
<1>6. f[1] \in Nat /\ f[2] \in Nat /\ f[1] < f[2] /\ f[2] <= length /\ f[2] <= last
  BY <1>4, <1>5 DEF Lesser
<1> QED BY <1>1, <1>2, <1>5, <1>6 DEF first, last

LEMMA TuningFits ==
    ASSUME NEW m \in Nat, m > TuningSplits, NEW u \in TuningFolds(m)
    PROVE  u[1] \in Nat /\ u[2] \in Nat /\ u[1] < u[2] /\ u[2] <= m
<1> DEFINE size == m \div (TuningSplits + 1)
<1>1. size \in Nat /\ size > 0 /\ (TuningSplits + 1) * size <= m
  <2>1. m = (TuningSplits + 1) * size + (m % (TuningSplits + 1))
        /\ m % (TuningSplits + 1) \in 0 .. TuningSplits /\ size \in Int
    BY Windows
  <2>2. size > 0
    BY <2>1, Windows
  <2> QED BY <2>1, <2>2, Windows
<1>2. PICK k \in 0 .. TuningSplits - 1 : u = <<m - (k + 1) * size, m - k * size>>
  BY DEF TuningFolds
<1> HIDE DEF size
<1>3. k \in Nat /\ k * size \in Nat /\ (k + 1) * size \in Nat /\ TuningSplits * size \in Nat
  BY <1>1, Windows, Times
<1>4. (k + 1) * size <= TuningSplits * size /\ TuningSplits * size <= (TuningSplits + 1) * size
  BY <1>1, Windows, Times
<1>5. (k + 1) * size = k * size + size /\ (TuningSplits + 1) * size = TuningSplits * size + size
  BY <1>1, <1>3, Windows
<1> QED BY <1>1, <1>2, <1>3, <1>4, <1>5

(* A row has one place, and its place tells what comes before it.          *)
LEMMA PlacesDiffer ==
    ASSUME NEW rows, Sorted(rows)
    PROVE  /\ Len(rows) \in Nat /\ DOMAIN rows = 1 .. Len(rows)
           /\ \A m, n \in 1 .. Len(rows) : rows[m] = rows[n] => m = n
           /\ \A m, n \in 1 .. Len(rows) : Chronological(rows[m], rows[n]) => m < n
<1>1. Len(rows) \in Nat /\ DOMAIN rows = 1 .. Len(rows)
  BY SeqDomain DEF Sorted
<1>2. ASSUME NEW m \in 1 .. Len(rows), NEW n \in 1 .. Len(rows), m < n
      PROVE  rows[m] # rows[n] /\ ~Chronological(rows[n], rows[m])
  <2>1. Before(rows[m], rows[n]) /\ rows[m].start \in Int /\ rows[m].game \in Int
        /\ rows[n].start \in Int /\ rows[n].game \in Int
    BY <1>1, <1>2 DEF Sorted
  <2> QED BY <2>1 DEF Before, Chronological
<1>3. ASSUME NEW m \in 1 .. Len(rows) PROVE ~Chronological(rows[m], rows[m])
  BY <1>1 DEF Sorted, Chronological
<1>4. \A m, n \in 1 .. Len(rows) : m < n \/ m = n \/ n < m
  BY <1>1
<1> QED BY <1>1, <1>2, <1>3, <1>4

LEMMA SplitInOrder ==
    ASSUME NEW rows, Sorted(rows), NEW f, f[1] \in Nat, f[2] \in Nat, f[1] < f[2], f[2] <= Len(rows)
    PROVE  NotAfter(Split(rows, f).train, Split(rows, f).test) /\ Split(rows, f).test # {}
<1> DEFINE train == Rows(rows, 1, f[1])
           test == Rows(rows, f[1] + 1, f[2])
<1>0. Len(rows) \in Nat /\ DOMAIN rows = 1 .. Len(rows)
  BY PlacesDiffer
<1>1. ASSUME NEW r \in train, NEW s \in test PROVE r.start <= s.start /\ r.game # s.game
  <2>1. PICK m \in 1 .. f[1] : r = rows[m]
    BY DEF Rows
  <2>2. PICK n \in f[1] + 1 .. f[2] : s = rows[n]
    BY DEF Rows
  <2>3. m \in DOMAIN rows /\ n \in DOMAIN rows /\ m < n
    BY <1>0
  <2>4. Before(r, s) /\ r.start \in Int /\ s.start \in Int
    BY <2>1, <2>2, <2>3 DEF Sorted
  <2> QED BY <2>4 DEF Before, Chronological
<1>2. rows[f[2]] \in test
  BY DEF Rows
<1>3. Split(rows, f).train = train /\ Split(rows, f).test = test
  BY DEF Split
<1> HIDE DEF train, test
<1> QED BY <1>1, <1>2, <1>3 DEF NotAfter

(* What one fold is tuned, fitted and tested on. *)
LEMMA FoldLooksBack ==
    ASSUME NEW rows, Sorted(rows), CanEvaluate(rows), NEW f \in WalkForwardFolds(Len(rows))
    PROVE  LET train == Split(rows, f).train
               test == Split(rows, f).test
           IN  /\ NotAfter(train, test)
               /\ \A u \in TuningFolds(f[1]) :
                     /\ Split(rows, u).train \cup Split(rows, u).test \subseteq train
                     /\ Split(rows, u).test # {}
                     /\ NotAfter(Split(rows, u).train, Split(rows, u).test)
               /\ \A n \in DOMAIN rows :
                     (\A s \in test : Chronological(rows[n], s)) => rows[n] \in train
<1>0. Len(rows) \in Nat /\ DOMAIN rows = 1 .. Len(rows)
  BY PlacesDiffer
<1>1. f[1] \in Nat /\ f[2] \in Nat /\ f[1] < f[2] /\ f[2] <= Len(rows)
  BY <1>0, FoldsFit
<1>2. f[1] > TuningSplits
  BY DEF CanEvaluate
<1>3. NotAfter(Split(rows, f).train, Split(rows, f).test)
  BY <1>1, SplitInOrder
<1>4. Split(rows, f).train = Rows(rows, 1, f[1]) /\ Split(rows, f).test = Rows(rows, f[1] + 1, f[2])
  BY DEF Split
<1>5. ASSUME NEW u \in TuningFolds(f[1])
      PROVE  /\ Split(rows, u).train \cup Split(rows, u).test \subseteq Rows(rows, 1, f[1])
             /\ Split(rows, u).test # {}
             /\ NotAfter(Split(rows, u).train, Split(rows, u).test)
  <2>1. u[1] \in Nat /\ u[2] \in Nat /\ u[1] < u[2] /\ u[2] <= f[1]
    BY <1>1, <1>2, TuningFits
  <2>2. u[2] <= Len(rows)
    BY <1>0, <1>1, <2>1
  <2>3. Split(rows, u).train = Rows(rows, 1, u[1]) /\ Split(rows, u).test = Rows(rows, u[1] + 1, u[2])
    BY DEF Split
  <2>4. 1 .. u[1] \subseteq 1 .. f[1] /\ u[1] + 1 .. u[2] \subseteq 1 .. f[1]
    BY <1>1, <2>1
  <2>5. Rows(rows, 1, u[1]) \subseteq Rows(rows, 1, f[1]) /\ Rows(rows, u[1] + 1, u[2]) \subseteq Rows(rows, 1, f[1])
    BY <2>4 DEF Rows
  <2> QED BY <2>1, <2>2, <2>3, <2>5, SplitInOrder
<1>6. ASSUME NEW n \in DOMAIN rows, \A s \in Rows(rows, f[1] + 1, f[2]) : Chronological(rows[n], s)
      PROVE  rows[n] \in Rows(rows, 1, f[1])
  <2>1. f[1] + 1 \in 1 .. Len(rows) /\ rows[f[1] + 1] \in Rows(rows, f[1] + 1, f[2])
    BY <1>0, <1>1 DEF Rows
  <2>2. n < f[1] + 1
    BY <1>0, <1>6, <2>1, PlacesDiffer
  <2> QED BY <1>0, <1>1, <2>2 DEF Rows
<1> QED BY <1>3, <1>4, <1>5, <1>6

(* Every row after the first window is tested in one fold. *)
LEMMA TestedOnce ==
    ASSUME NEW rows, Sorted(rows), NEW n \in InitialRows + 1 .. Len(rows)
    PROVE  Cardinality({f \in Evaluation(rows) : rows[n] \in f.test}) = 1
<1> DEFINE length == Len(rows)
           fold(f) == [train |-> Split(rows, f).train, test |-> Split(rows, f).test,
                       tuning |-> {Split(rows, u) : u \in TuningFolds(f[1])}]
           at(k) == <<InitialRows + k * BlockSize, Lesser(InitialRows + (k + 1) * BlockSize, length)>>
           testing == {f \in Evaluation(rows) : rows[n] \in f.test}
<1>0. length \in Nat /\ DOMAIN rows = 1 .. length /\ n \in 1 .. length
  BY PlacesDiffer, Windows
<1>1. PICK k \in 0 .. length :
        /\ InitialRows + k * BlockSize < n /\ n <= InitialRows + (k + 1) * BlockSize
        /\ \A j \in Nat : InitialRows + j * BlockSize < n
                          /\ n <= InitialRows + (j + 1) * BlockSize => j = k
  BY <1>0, BlockOfRow
<1>2. at(k) \in WalkForwardFolds(length)
  <2>1. k * BlockSize \in Nat
    BY Times, Windows
  <2>2. InitialRows + k * BlockSize < length
    BY <1>0, <1>1, <2>1, Windows
  <2> QED BY <2>2 DEF WalkForwardFolds
<1>3. \A f : fold(f).test = Rows(rows, f[1] + 1, f[2])
  BY DEF Split
<1>4. rows[n] \in fold(at(k)).test
  <2>1. k * BlockSize \in Nat /\ (k + 1) * BlockSize \in Nat
    BY Times, Windows
  <2>2. at(k)[1] = InitialRows + k * BlockSize /\ at(k)[2] = Lesser(InitialRows + (k + 1) * BlockSize, length)
    OBVIOUS
  <2>3. n \in at(k)[1] + 1 .. at(k)[2]
    BY <1>0, <1>1, <2>1, <2>2, Windows DEF Lesser
  <2> HIDE DEF fold, at
  <2> QED BY <1>3, <2>3 DEF Rows
<1>5. ASSUME NEW f \in WalkForwardFolds(length), rows[n] \in Rows(rows, f[1] + 1, f[2])
      PROVE  f = at(k)
  <2>1. PICK m \in f[1] + 1 .. f[2] : rows[n] = rows[m]
    BY <1>5 DEF Rows
  <2>2. /\ f[1] \in Nat /\ f[2] \in Nat /\ f[2] <= length
        /\ \E j \in Nat : /\ f = at(j) /\ f[1] = InitialRows + j * BlockSize
                          /\ f[2] <= InitialRows + (j + 1) * BlockSize
    BY <1>0, FoldsFit
  <2>3. m \in 1 .. length
    BY <1>0, <2>2
  <2>4. m = n
    BY <1>0, <2>1, <2>3, PlacesDiffer
  <2>5. PICK j \in Nat : /\ f = at(j) /\ f[1] = InitialRows + j * BlockSize
                         /\ f[2] <= InitialRows + (j + 1) * BlockSize
    BY <2>2
  <2>6. j * BlockSize \in Nat /\ (j + 1) * BlockSize \in Nat
    BY Times, Windows
  <2>7. InitialRows + j * BlockSize < n /\ n <= InitialRows + (j + 1) * BlockSize
    BY <1>0, <2>2, <2>4, <2>5, <2>6, Windows
  <2> QED BY <1>1, <2>5, <2>7
<1>6. Evaluation(rows) = {fold(f) : f \in WalkForwardFolds(length)}
  BY DEF Evaluation
<1> HIDE DEF fold, at, length
<1>7. testing = {fold(at(k))}
  BY <1>2, <1>3, <1>4, <1>5, <1>6
<1> QED BY <1>7, FS_Singleton

(* A model is tested and tuned on what comes after what it is fitted to,   *)
(* every row after the first window once, and no row knows of its own      *)
(* game: for any games, any sizes of the windows, and whatever happens to  *)
(* the history while the rows are read.                                    *)
THEOREM FoldsLookBack == Spec => []FoldsSeeThePast
<1>1. Init => TrainingInv
  BY InitTrainingInv
<1>2. ReadInv /\ TrainingInv /\ [Next]_vars => TrainingInv'
  BY TrainingStep DEF ReadInv
<1>3. TrainingInv => FoldsSeeThePast
  <2> SUFFICES ASSUME TrainingInv, NEW t \in Trainers
               PROVE  LET all == {training[t].rows[n] : n \in DOMAIN training[t].rows}
                          folds == training[t].folds
                      IN  /\ \A row \in all : \A d \in row.drawn :
                                /\ d[2] < row.start
                                /\ d[1] = row.game =>
                                      \E s \in teamStats : s.game = row.game /\ s.created <= row.start
                          /\ \A f \in folds :
                                /\ NotAfter(f.train, f.test)
                                /\ \A u \in f.tuning : /\ u.train \cup u.test \subseteq f.train
                                                       /\ u.test # {} /\ NotAfter(u.train, u.test)
                                /\ \A row \in all : (\A s \in f.test : Chronological(row, s)) => row \in f.train
                          /\ folds # {} =>
                                \A n \in InitialRows + 1 .. Len(training[t].rows) :
                                    Cardinality({f \in folds : training[t].rows[n] \in f.test}) = 1
    BY DEF FoldsSeeThePast
  <2> DEFINE rows == training[t].rows
             folds == training[t].folds
  <2>1. Trains(t)
    BY DEF TrainingInv
  <2>2. \A n \in DOMAIN rows : DrawnBefore(rows[n])
    BY <2>1 DEF Trains
  <2>3. folds # {} => Sorted(rows) /\ CanEvaluate(rows) /\ folds = Evaluation(rows)
    BY <2>1 DEF Trains
  <2> HIDE DEF rows, folds
  <2>4. ASSUME NEW f \in folds
        PROVE  /\ NotAfter(f.train, f.test)
               /\ \A u \in f.tuning : /\ u.train \cup u.test \subseteq f.train
                                      /\ u.test # {} /\ NotAfter(u.train, u.test)
               /\ \A n \in DOMAIN rows : (\A s \in f.test : Chronological(rows[n], s)) => rows[n] \in f.train
    <3>1. PICK w \in WalkForwardFolds(Len(rows)) :
            f = [train |-> Split(rows, w).train, test |-> Split(rows, w).test,
                 tuning |-> {Split(rows, u) : u \in TuningFolds(w[1])}]
      BY <2>3 DEF Evaluation
    <3>2. /\ f.train = Split(rows, w).train /\ f.test = Split(rows, w).test
          /\ f.tuning = {Split(rows, u) : u \in TuningFolds(w[1])}
      BY <3>1
    <3> QED BY <2>3, <3>2, FoldLooksBack
  <2>5. folds # {} =>
            \A n \in InitialRows + 1 .. Len(rows) : Cardinality({f \in folds : rows[n] \in f.test}) = 1
    BY <2>3, TestedOnce
  <2> QED BY <2>2, <2>4, <2>5 DEF DrawnBefore, rows, folds
<1> QED BY <1>1, <1>2, <1>3, HistoryIsRead, PTL DEF Spec
=============================================================================
