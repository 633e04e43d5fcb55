----------------------- MODULE ScheduledCaptureProofs -----------------------
(***************************************************************************)
(* Proofs about the scheduled captures, for any tasks, operators,          *)
(* synchronizations and answers: one snapshot of a slate and role, retries *)
(* that repeat nothing, and bookmakers that keep their identity; then      *)
(* quotes that keep the orientation of their game, captures of the slate   *)
(* their window was opened for, and Early Entry on its own capture.        *)
(***************************************************************************)
EXTENDS ScheduledCapture, OrderFacts

-----------------------------------------------------------------------------
(* The inductive invariant. *)

RunRow == [role : {RoleOf[p] : p \in Ingestions}, target : Int, by : Ingestions,
           status : {"running", "completed", "failed"}, observed : Int]

Typed ==
    /\ clock \in Int /\ target \in [Ingestions -> Int]
    /\ runs \in Seq(RunRow)
    /\ DOMAIN pc = Processes /\ DOMAIN exit = Ingestions /\ DOMAIN current = Ingestions
    /\ DOMAIN tx = Processes
    /\ \A p \in Processes : DOMAIN tx[p] = {"games", "links", "books", "quotes"}

(* An ingestion that is past its first commit has a run of its own, and    *)
(* until it commits or fails that run is running.                          *)
HasRun(p) ==
    /\ pc[p] \in {"fetch", "saving", "failing"} =>
          current[p] \in DOMAIN runs /\ runs[current[p]].by = p
    /\ pc[p] \in {"fetch", "saving"} => runs[current[p]].status = "running"

Failed(p, but) == \A r \in DOMAIN runs : runs[r].by = p /\ r # but => runs[r].status = "failed"

(* Whatever can lead to another attempt has left failed runs only; but for *)
(* the one it is writing, when that can still fail transiently.            *)
LeavesNothing(p) ==
    /\ pc[p] \in {"idle", "resolve", "preflight", "database", "workflow", "sleeping", "create"} =>
          Failed(p, 0)
    /\ pc[p] = "exited" /\ exit[p] = 75 => Failed(p, 0)
    /\ pc[p] \in {"fetch", "saving"} => Failed(p, current[p])
    /\ pc[p] = "failing" /\ exit[p] = 75 =>
          Failed(p, current[p]) /\ runs[current[p]].status = "running"

Agreeing(rows) == \A i, j \in rows : i.key = j.key <=> i.book = j.book

(* An open transaction holds quotes of one run, each with its identity;    *)
(* what it would insert agrees with itself unless it can no longer commit. *)
TxHolds(p) ==
    /\ BooksAgree(p) => Agreeing(tx[p].books)
    /\ \A q \in tx[p].quotes :
          /\ p \in Ingestions /\ pc[p] = "saving" /\ q.run = current[p]
          /\ \E i \in identities \cup tx[p].books : i.key = q.key /\ i.book = q.book

(* The partial unique index.                                               *)
PlaceHeldOnce ==
    \A r, s \in DOMAIN runs :
        /\ runs[r].status \in Active /\ runs[s].status \in Active
        /\ runs[r].role = runs[s].role /\ runs[r].role # "manual" /\ runs[r].target = runs[s].target
        => r = s

QuotesStored ==
    /\ Agreeing(identities)
    /\ \A q \in quotes :
          /\ q.run \in DOMAIN runs /\ runs[q.run].status = "completed"
          /\ \E i \in identities : i.key = q.key /\ i.book = q.book

Inv ==
    /\ Typed /\ PlaceHeldOnce /\ QuotesStored
    /\ \A p \in Ingestions : HasRun(p) /\ LeavesNothing(p)
    /\ \A p \in Processes : TxHolds(p)

LEMMA InitInv == Init => Inv
<1> SUFFICES ASSUME Init PROVE Inv
  OBVIOUS
<1>1. runs = <<>> /\ DOMAIN runs = {} /\ runs \in Seq(RunRow)
  BY DEF Init
<1>2. Typed
  BY <1>1, CaptureAssumption DEF Init, Typed, Processes, Ingestions, NoDay, NoTx
<1>3. \A p \in Processes : pc[p] \in {"idle", "done"}
  BY DEF Init
<1>4. \A p \in Ingestions : HasRun(p) /\ LeavesNothing(p)
  BY <1>1, <1>3 DEF HasRun, LeavesNothing, Failed, Processes
<1>5. \A p \in Processes : TxHolds(p)
  BY DEF Init, NoTx, TxHolds, BooksAgree, Agreeing
<1>6. PlaceHeldOnce /\ QuotesStored
  BY <1>1 DEF Init, PlaceHeldOnce, QuotesStored, Agreeing
<1> QED BY <1>2, <1>4, <1>5, <1>6 DEF Inv

-----------------------------------------------------------------------------
(* What a step of one process leaves of the others. *)

(* Runs are added and changed by their own ingestion only.                 *)
OwnRuns(p) ==
    /\ \A r \in DOMAIN runs : /\ r \in DOMAIN runs' /\ runs'[r].by = runs[r].by
                              /\ runs[r].by # p => runs'[r] = runs[r]
    /\ \A r \in DOMAIN runs' : r \notin DOMAIN runs => runs'[r].by = p

OthersStay(p) ==
    /\ \A q \in Processes : q # p => pc'[q] = pc[q] /\ tx'[q] = tx[q]
    /\ \A q \in Ingestions : q # p => exit'[q] = exit[q] /\ current'[q] = current[q]
    /\ identities \subseteq identities'

LEMMA OthersKeepInv ==
    ASSUME Inv, NEW p \in Processes, OwnRuns(p), OthersStay(p)
    PROVE  /\ \A q \in Ingestions : q # p => HasRun(q)' /\ LeavesNothing(q)'
           /\ \A q \in Processes : q # p => TxHolds(q)'
<1>1. ASSUME NEW q \in Ingestions, q # p PROVE HasRun(q)' /\ LeavesNothing(q)'
  <2>1. pc'[q] = pc[q] /\ exit'[q] = exit[q] /\ current'[q] = current[q]
    BY <1>1 DEF OthersStay, Processes
  <2>2. HasRun(q) /\ LeavesNothing(q)
    BY DEF Inv
  <2>3. HasRun(q)'
    BY <1>1, <2>1, <2>2 DEF HasRun, OwnRuns
  <2>4. \A but : Failed(q, but) => Failed(q, but)'
    BY <1>1 DEF Failed, OwnRuns
  <2>5. pc[q] = "failing" => runs'[current[q]] = runs[current[q]]
    BY <1>1, <2>2 DEF HasRun, OwnRuns
  <2> QED BY <2>1, <2>2, <2>3, <2>4, <2>5 DEF LeavesNothing
<1>2. ASSUME NEW q \in Processes, q # p PROVE TxHolds(q)'
  BY <1>2 DEF Inv, TxHolds, OthersStay, BooksAgree, Agreeing
<1> QED BY <1>1, <1>2

-----------------------------------------------------------------------------
(* The steps of a task and of an operator outside of the ingestion. *)

Quiet == UNCHANGED <<clock, runs, identities, quotes, tx, current>>

LEMMA QuietKeepsInv ==
    ASSUME Inv, NEW p \in Processes, Quiet, pc[p] # "saving",
           target' \in [Ingestions -> Int],
           DOMAIN pc' = Processes, DOMAIN exit' = Ingestions,
           \A q \in Processes : q # p => pc'[q] = pc[q],
           \A q \in Ingestions : q # p => exit'[q] = exit[q],
           p \in Ingestions => HasRun(p)' /\ LeavesNothing(p)'
    PROVE  Inv'
<1>1. Typed' /\ PlaceHeldOnce' /\ QuotesStored'
  BY DEF Inv, Quiet, Typed, PlaceHeldOnce, QuotesStored, Agreeing
<1>2. OwnRuns(p) /\ OthersStay(p)
  BY DEF Quiet, OwnRuns, OthersStay
<1>3. TxHolds(p)'
  BY DEF Inv, Quiet, TxHolds, BooksAgree, Agreeing
<1> QED BY <1>1, <1>2, <1>3, OthersKeepInv DEF Inv

LEMMA GuardKeepsInv ==
    ASSUME Inv, NEW p \in Tasks,
           \/ GuardTask(p) \/ StartPregame(p) \/ Preflight(p) \/ DatabaseReady(p)
           \/ DatabaseRefused(p) \/ DatabaseTimesOut(p) \/ RunPregame(p) \/ WakeUp(p)
           \/ CaptureEarlyEntry(p)
    PROVE  Inv'
<1>0. p \in Processes /\ p \in Ingestions
  BY DEF Processes, Ingestions
<1>1. /\ Quiet /\ target' = target /\ DOMAIN pc' = Processes /\ DOMAIN exit' = Ingestions
      /\ \A q \in Processes : q # p => pc'[q] = pc[q]
      /\ \A q \in Ingestions : q # p => exit'[q] = exit[q]
  BY DEF Quiet, GuardTask, StartPregame, Preflight, DatabaseReady, DatabaseRefused,
         DatabaseTimesOut, EndWait, RunPregame, WakeUp, CaptureEarlyEntry, Goto, tasks, store, Inv, Typed
<1>2. /\ pc[p] \in {"idle", "preflight", "database", "workflow", "sleeping", "early_entry"}
      /\ pc'[p] \notin {"fetch", "saving", "failing"}
      /\ pc[p] = "early_entry" => pc'[p] \in {"captured", "failed"}
      /\ pc[p] = "workflow" => pc'[p] = "exited"
  BY <1>0 DEF GuardTask, StartPregame, Preflight, DatabaseReady, DatabaseRefused,
         DatabaseTimesOut, EndWait, RunPregame, WakeUp, CaptureEarlyEntry, Goto, Inv, Typed
<1>3. HasRun(p)'
  BY <1>2 DEF HasRun
<1>4. Failed(p, 0)' <=> Failed(p, 0)
  BY <1>1 DEF Failed, Quiet
<1>5. LeavesNothing(p)'
  BY <1>0, <1>2, <1>4 DEF LeavesNothing, Inv
<1> QED BY <1>0, <1>1, <1>2, <1>3, <1>5, QuietKeepsInv DEF Inv, Typed

LEMMA DayIsInt == \A t \in Int : Day(t) \in Int
  BY CanonicalAssumption DEF Day

LEMMA TargetKeepsInv ==
    ASSUME Inv, NEW p \in Ingestions, (p \in Tasks /\ ResolveTarget(p)) \/ StartManual(p)
    PROVE  Inv'
<1>0. p \in Processes
  BY DEF Processes
<1>1. /\ Quiet /\ exit' = exit /\ DOMAIN pc' = Processes
      /\ \A q \in Processes : q # p => pc'[q] = pc[q]
      /\ pc[p] \in {"idle", "resolve"} /\ pc'[p] \in {"preflight", "create"}
  BY <1>0 DEF Quiet, ResolveTarget, StartManual, Goto, store, Inv, Typed
<1>2. target' \in [Ingestions -> Int]
  <2>1. CASE p \in Tasks /\ ResolveTarget(p)
    <3>1. ResolvedTarget(RoleOf[p], clock) \in Int
      BY <2>1, DayIsInt, CaptureAssumption DEF ResolvedTarget, Inv, Typed
    <3> QED BY <2>1, <3>1 DEF ResolveTarget, Inv, Typed
  <2>2. CASE StartManual(p)
    <3>1. Day(clock) .. Day(Horizon) \subseteq Int
      BY DayIsInt, CaptureAssumption DEF Inv, Typed
    <3> QED BY <2>2, <3>1 DEF StartManual, Inv, Typed
  <2> QED BY <2>1, <2>2
<1>3. HasRun(p)'
  BY <1>1 DEF HasRun
<1>4. Failed(p, 0)' <=> Failed(p, 0)
  BY <1>1 DEF Failed, Quiet
<1>5. LeavesNothing(p)'
  BY <1>1, <1>4 DEF LeavesNothing, Inv
<1> QED BY <1>0, <1>1, <1>2, <1>3, <1>5, QuietKeepsInv DEF Inv, Typed

(* An attempt is made again only after the exit code of a transient error. *)
LEMMA EndKeepsInv ==
    ASSUME Inv, NEW p \in Ingestions, AttemptEnds(p) \/ ManualEnds(p)
    PROVE  Inv'
<1>0. p \in Processes
  BY DEF Processes
<1>1. /\ Quiet /\ target' = target /\ DOMAIN pc' = Processes /\ DOMAIN exit' = Ingestions
      /\ \A q \in Processes : q # p => pc'[q] = pc[q]
      /\ \A q \in Ingestions : q # p => exit'[q] = exit[q]
  BY <1>0 DEF Quiet, AttemptEnds, ManualEnds, Goto, store, Inv, Typed
<1>2. /\ pc[p] = "exited" /\ pc'[p] \in {"sleeping", "failed", "early_entry", "done"}
      /\ pc'[p] = "sleeping" => exit[p] = 75
  BY <1>0 DEF AttemptEnds, ManualEnds, MayRetry, Goto, Inv, Typed
<1>3. HasRun(p)'
  BY <1>2 DEF HasRun
<1>4. Failed(p, 0)' <=> Failed(p, 0)
  BY <1>1 DEF Failed, Quiet
<1>5. LeavesNothing(p)'
  BY <1>2, <1>4 DEF LeavesNothing, Inv
<1> QED BY <1>0, <1>1, <1>2, <1>3, <1>5, QuietKeepsInv DEF Inv, Typed

-----------------------------------------------------------------------------
(* The ingestion. *)

LEMMA RunFields ==
    ASSUME Typed, NEW r \in DOMAIN runs
    PROVE  runs[r] \in RunRow /\ r \in Nat /\ r # 0
  BY DEF Typed

(* The run is inserted where no run of its slate and role is active.       *)
LEMMA CreateKeepsInv ==
    ASSUME Inv, NEW p \in Ingestions, CreateRun(p)
    PROVE  Inv'
<1>0. p \in Processes /\ pc[p] = "create"
  BY DEF Processes, CreateRun
<1>1. CASE Duplicate(RoleOf[p], target[p])
  <2>1. /\ Quiet /\ target' = target /\ DOMAIN pc' = Processes /\ DOMAIN exit' = Ingestions
        /\ \A q \in Processes : q # p => pc'[q] = pc[q]
        /\ \A q \in Ingestions : q # p => exit'[q] = exit[q]
        /\ pc'[p] = "exited" /\ exit'[p] = 1
    BY <1>0, <1>1 DEF Quiet, CreateRun, Exit, Goto, Inv, Typed
  <2>2. HasRun(p)' /\ LeavesNothing(p)'
    BY <2>1 DEF HasRun, LeavesNothing
  <2> QED BY <1>0, <2>1, <2>2, QuietKeepsInv DEF Inv, Typed
<1>2. CASE ~Duplicate(RoleOf[p], target[p])
  <2> DEFINE row == [role |-> RoleOf[p], target |-> target[p], by |-> p,
                     status |-> "running", observed |-> NoTime]
             new == Len(runs) + 1
  <2>1. /\ runs' = Append(runs, row) /\ current' = [current EXCEPT ![p] = new]
        /\ pc' = [pc EXCEPT ![p] = "fetch"]
        /\ UNCHANGED <<clock, target, exit, tx, identities, quotes>>
    BY <1>2 DEF CreateRun, Goto
  <2>2. row \in RunRow
    BY DEF Inv, Typed, RunRow, NoTime
  <2>3. runs \in Seq(RunRow)
    BY DEF Inv, Typed
  <2>4. /\ runs' \in Seq(RunRow) /\ DOMAIN runs' = DOMAIN runs \cup {new} /\ new \notin DOMAIN runs
        /\ runs'[new] = row /\ \A r \in DOMAIN runs : runs'[r] = runs[r]
    BY <2>1, <2>2, <2>3
  <2> HIDE DEF row, new
  <2>5. row.role = RoleOf[p] /\ row.target = target[p] /\ row.by = p /\ row.status = "running"
    BY DEF row
  <2>6. Typed'
    BY <2>1, <2>4 DEF Inv, Typed
  <2>7. PlaceHeldOnce'
    <3>1. \A r \in DOMAIN runs : ~(/\ RoleOf[p] # "manual" /\ runs[r].role = RoleOf[p]
                                   /\ runs[r].target = target[p] /\ runs[r].status \in Active)
      BY <1>2 DEF Duplicate
    <3> QED BY <2>4, <2>5, <3>1 DEF Inv, PlaceHeldOnce
  <2>8. QuotesStored'
    BY <2>1, <2>4 DEF Inv, QuotesStored, Agreeing
  <2>9. OwnRuns(p) /\ OthersStay(p)
    BY <2>1, <2>4, <2>5 DEF OwnRuns, OthersStay
  <2>10. pc'[p] = "fetch" /\ current'[p] = new
    BY <1>0, <2>1 DEF Inv, Typed
  <2>11. HasRun(p)'
    BY <2>4, <2>5, <2>10 DEF HasRun
  <2>12. Failed(p, 0)
    BY <1>0 DEF Inv, LeavesNothing
  <2>13. \A r \in DOMAIN runs : runs[r].by = p => runs[r].status = "failed"
    BY <2>12, RunFields DEF Failed, Inv
  <2>14. LeavesNothing(p)'
    BY <2>4, <2>10, <2>13 DEF LeavesNothing, Failed
  <2>15. TxHolds(p)'
    BY <1>0, <2>1 DEF Inv, TxHolds, BooksAgree, Agreeing
  <2> QED BY <1>0, <2>6, <2>7, <2>8, <2>9, <2>11, <2>14, <2>15, OthersKeepInv DEF Inv
<1> QED BY <1>1, <1>2

LEMMA FetchFailsKeepsInv ==
    ASSUME Inv, NEW p \in Ingestions, FetchFails(p)
    PROVE  Inv'
<1>0. p \in Processes /\ pc[p] = "fetch"
  BY DEF Processes, FetchFails
<1>1. /\ Quiet /\ target' = target /\ DOMAIN pc' = Processes /\ DOMAIN exit' = Ingestions
      /\ \A q \in Processes : q # p => pc'[q] = pc[q]
      /\ \A q \in Ingestions : q # p => exit'[q] = exit[q]
      /\ pc'[p] = "failing"
  BY <1>0 DEF Quiet, FetchFails, Goto, store, Inv, Typed
<1>2. HasRun(p)' /\ LeavesNothing(p)'
  BY <1>0, <1>1 DEF Inv, HasRun, LeavesNothing, Quiet, Failed
<1> QED BY <1>0, <1>1, <1>2, QuietKeepsInv DEF Inv, Typed

(* A step that changes the row of p's own run: what it leaves of the rest. *)
OwnRow(p, row) ==
    /\ current[p] \in DOMAIN runs /\ runs[current[p]].by = p
    /\ runs' = [runs EXCEPT ![current[p]] = row]
    /\ row \in RunRow /\ row.by = p
    /\ row.role = runs[current[p]].role /\ row.target = runs[current[p]].target
    /\ row.status \in Active => runs[current[p]].status \in Active

LEMMA OwnRowKeeps ==
    ASSUME Inv, NEW p \in Ingestions, NEW row, OwnRow(p, row)
    PROVE  /\ runs' \in Seq(RunRow) /\ DOMAIN runs' = DOMAIN runs /\ runs'[current[p]] = row
           /\ \A r \in DOMAIN runs : r # current[p] => runs'[r] = runs[r]
           /\ PlaceHeldOnce' /\ OwnRuns(p)
<1>1. runs \in Seq(RunRow)
  BY DEF Inv, Typed
<1>2. /\ runs' \in Seq(RunRow) /\ DOMAIN runs' = DOMAIN runs /\ runs'[current[p]] = row
      /\ \A r \in DOMAIN runs : r # current[p] => runs'[r] = runs[r]
  BY <1>1 DEF OwnRow
<1>3. PlaceHeldOnce'
  BY <1>2 DEF OwnRow, Inv, PlaceHeldOnce
<1>4. OwnRuns(p)
  BY <1>2 DEF OwnRow, OwnRuns
<1> QED BY <1>2, <1>3, <1>4

LEMMA FetchKeepsInv ==
    ASSUME Inv, NEW p \in Ingestions, Fetch(p)
    PROVE  Inv'
<1> DEFINE row == [runs[current[p]] EXCEPT !.observed = clock]
<1>0. p \in Processes /\ pc[p] = "fetch"
  BY DEF Processes, Fetch
<1>1. current[p] \in DOMAIN runs /\ runs[current[p]].by = p /\ runs[current[p]].status = "running"
  BY <1>0 DEF Inv, HasRun
<1>2. runs[current[p]] \in RunRow /\ clock \in Int
  BY <1>1, RunFields DEF Inv, Typed
<1>3. /\ row \in RunRow /\ row.by = p /\ row.status = "running"
      /\ row.role = runs[current[p]].role /\ row.target = runs[current[p]].target
  BY <1>1, <1>2 DEF RunRow
<1>4. runs' = [runs EXCEPT ![current[p]] = row]
  BY DEF Fetch, RecordResponse
<1> HIDE DEF row
<1>5. OwnRow(p, row)
  BY <1>1, <1>3, <1>4 DEF OwnRow, Active
<1>6. /\ UNCHANGED <<clock, target, current, tx, identities, quotes>>
      /\ DOMAIN pc' = Processes /\ DOMAIN exit' = Ingestions
      /\ \A q \in Processes : q # p => pc'[q] = pc[q]
      /\ \A q \in Ingestions : q # p => exit'[q] = exit[q]
      /\ pc'[p] \in {"saving", "failing"}
  BY <1>0 DEF Fetch, Goto, Inv, Typed
<1>7. Typed'
  BY <1>5, <1>6, OwnRowKeeps DEF Inv, Typed
<1>8. QuotesStored'
  BY <1>1, <1>5, <1>6, OwnRowKeeps DEF Inv, QuotesStored, Agreeing
<1>9. OthersStay(p)
  BY <1>6 DEF OthersStay
<1>10. HasRun(p)'
  BY <1>1, <1>3, <1>5, <1>6, OwnRowKeeps DEF HasRun
<1>11. Failed(p, current[p])'
  BY <1>0, <1>5, <1>6, OwnRowKeeps DEF Inv, LeavesNothing, Failed
<1>12. LeavesNothing(p)'
  BY <1>3, <1>5, <1>6, <1>11, OwnRowKeeps DEF LeavesNothing
<1>13. TxHolds(p)'
  BY <1>0, <1>6 DEF Inv, TxHolds, BooksAgree, Agreeing
<1> QED BY <1>0, <1>5, <1>7, <1>8, <1>9, <1>10, <1>12, <1>13, OwnRowKeeps, OthersKeepInv DEF Inv

(* A step of an open transaction that commits nothing.                     *)
LEMMA AbortedOrSaved ==
    ASSUME Inv, NEW p \in Processes,
           UNCHANGED <<clock, target, current, runs, identities, quotes>>,
           DOMAIN pc' = Processes, DOMAIN exit' = Ingestions, DOMAIN tx' = Processes,
           \A q \in Processes : q # p => pc'[q] = pc[q] /\ tx'[q] = tx[q],
           \A q \in Ingestions : q # p => exit'[q] = exit[q],
           DOMAIN tx'[p] = {"games", "links", "books", "quotes"}, TxHolds(p)',
           p \in Ingestions => HasRun(p)' /\ LeavesNothing(p)'
    PROVE  Inv'
<1>1. Typed' /\ PlaceHeldOnce' /\ QuotesStored'
  BY DEF Inv, Typed, PlaceHeldOnce, QuotesStored, Agreeing
<1>2. OwnRuns(p) /\ OthersStay(p)
  BY DEF OwnRuns, OthersStay
<1> QED BY <1>1, <1>2, OthersKeepInv DEF Inv

(* A bookmaker's sportsbook is looked up in what is visible, and what has  *)
(* been committed meanwhile is compared at the commit.                     *)
LEMMA BookFits ==
    ASSUME NEW p, NEW key, NEW title, NEW b, b \in ResolveBook(VisibleBooks(p), key, title),
           BooksAgree(p), Agreeing(tx[p].books)
    PROVE  \A o \in tx[p].books : o.key = key <=> o.book = b
<1> DEFINE known == {i.book : i \in {x \in VisibleBooks(p) : x.key = key}}
<1>1. CASE known # {}
  <2>1. PICK i \in VisibleBooks(p) : i.key = key /\ i.book = b
    BY <1>1 DEF ResolveBook
  <2> QED BY <2>1 DEF VisibleBooks, BooksAgree, Agreeing
<1>2. CASE known = {}
  <2>1. b = title /\ \A i \in VisibleBooks(p) : i.book # title
    BY <1>2 DEF ResolveBook
  <2> QED BY <1>2, <2>1 DEF VisibleBooks
<1> QED BY <1>1, <1>2

LEMMA SaveEventKeepsInv ==
    ASSUME Inv, NEW p \in Ingestions, SaveEvent(p)
    PROVE  Inv'
<1>0. p \in Processes /\ pc[p] = "saving"
  BY DEF Processes, SaveEvent
<1>1. /\ UNCHANGED <<clock, target, current, runs, identities, quotes>>
      /\ DOMAIN pc' = Processes /\ DOMAIN exit' = Ingestions /\ DOMAIN tx' = Processes
      /\ \A q \in Processes : q # p => pc'[q] = pc[q] /\ tx'[q] = tx[q]
      /\ \A q \in Ingestions : q # p => exit'[q] = exit[q]
  BY <1>0 DEF SaveEvent, Abort, Goto, store, Inv, Typed
<1>2. PICK ev \in pending[p] :
        LET game == Resolve(VisibleGames(p), VisibleSources(p), Odds, ev, nextGame)
            book == ResolveBook(VisibleBooks(p), ev.key, ev.title)
            g == CHOOSE x \in game : TRUE
            b == CHOOSE x \in book : TRUE
            own == tx[p]
        IN  IF game = {} \/ book = {}
            THEN /\ Abort(p) /\ Goto(p, "failing")
                 /\ exit' = [exit EXCEPT ![p] = 1]
                 /\ UNCHANGED nextGame
            ELSE /\ nextGame' = IF g = nextGame THEN nextGame + 1 ELSE nextGame
                 /\ tx' = [tx EXCEPT ![p] =
                       [games |-> IF g = nextGame THEN UpdateCanonicalGame(own.games, g, ev)
                                  ELSE own.games,
                        links |-> own.links \cup {[source |-> Odds, ext |-> ev.ext, game |-> g]},
                        books |-> own.books \cup {[key |-> ev.key, book |-> b]},
                        quotes |-> own.quotes \cup {Selection(p, ev, g, b)}]]
                 /\ pending' = [pending EXCEPT ![p] = @ \ {ev}]
                 /\ UNCHANGED <<pc, exit>>
  BY DEF SaveEvent
<1> DEFINE game == Resolve(VisibleGames(p), VisibleSources(p), Odds, ev, nextGame)
           book == ResolveBook(VisibleBooks(p), ev.key, ev.title)
           g == CHOOSE x \in game : TRUE
           b == CHOOSE x \in book : TRUE
           identity == [key |-> ev.key, book |-> b]
           left == IF g = nextGame THEN UpdateCanonicalGame(tx[p].games, g, ev) ELSE tx[p].games
           links == tx[p].links \cup {[source |-> Odds, ext |-> ev.ext, game |-> g]}
<1>3. CASE Abort(p) /\ Goto(p, "failing") /\ exit' = [exit EXCEPT ![p] = 1]
  <2>1. tx'[p] = NoTx /\ pc'[p] = "failing" /\ exit'[p] = 1
    BY <1>0, <1>3 DEF Abort, Goto, Inv, Typed
  <2>2. TxHolds(p)' /\ DOMAIN tx'[p] = {"games", "links", "books", "quotes"}
    BY <2>1 DEF NoTx, TxHolds, Agreeing
  <2>3. HasRun(p)' /\ LeavesNothing(p)'
    BY <1>0, <1>1, <2>1 DEF HasRun, LeavesNothing, Inv
  <2> QED BY <1>0, <1>1, <2>2, <2>3, AbortedOrSaved
<1>4. CASE /\ book # {} /\ UNCHANGED <<pc, exit>>
           /\ tx' = [tx EXCEPT ![p] =
                 [games |-> left, links |-> links, books |-> tx[p].books \cup {identity},
                  quotes |-> tx[p].quotes \cup {Selection(p, ev, g, b)}]]
  <2>1. b \in book
    BY <1>4
  <2> HIDE DEF game, g, left, links
  <2>2. /\ tx'[p].books = tx[p].books \cup {identity}
        /\ tx'[p].quotes = tx[p].quotes \cup {Selection(p, ev, g, b)}
        /\ DOMAIN tx'[p] = {"games", "links", "books", "quotes"}
    BY <1>0, <1>4 DEF Inv, Typed
  <2>3. b \in ResolveBook(VisibleBooks(p), ev.key, ev.title)
    BY <2>1
  <2>4. identity.key = ev.key /\ identity.book = b
    OBVIOUS
  <2>5. BooksAgree(p)' => Agreeing(tx'[p].books)
    <3> SUFFICES ASSUME BooksAgree(p)' PROVE Agreeing(tx'[p].books)
      OBVIOUS
    <3>1. BooksAgree(p)
      BY <1>1, <2>2 DEF BooksAgree
    <3>2. Agreeing(tx[p].books)
      BY <1>0, <3>1 DEF Inv, TxHolds
    <3> HIDE DEF identity, book, b
    <3>3. \A o \in tx[p].books : o.key = ev.key <=> o.book = b
      BY <2>3, <3>1, <3>2, BookFits
    <3> QED BY <2>2, <2>4, <3>2, <3>3 DEF Agreeing
  <2>6. LET q == Selection(p, ev, g, b) IN q.run = current[p] /\ q.key = ev.key /\ q.book = b
    BY DEF Selection
  <2>7. TxHolds(p)'
    <3> HIDE DEF identity, b
    <3> QED BY <1>0, <1>1, <1>4, <2>2, <2>4, <2>5, <2>6 DEF Inv, TxHolds
  <2>8. HasRun(p)' /\ LeavesNothing(p)'
    BY <1>1, <1>4 DEF HasRun, LeavesNothing, Failed, Inv
  <2> QED BY <1>0, <1>1, <2>2, <2>7, <2>8, AbortedOrSaved
<1>5. CASE game = {} \/ book = {}
  BY <1>2, <1>3, <1>5
<1>6. CASE game # {} /\ book # {}
  BY <1>2, <1>4, <1>6
<1> QED BY <1>5, <1>6

(* The commit completes the run and adds its quotes and identities.        *)
LEMMA CommitKeepsInv ==
    ASSUME Inv, NEW p \in Ingestions, Commit(p)
    PROVE  Inv'
<1> DEFINE row == [runs[current[p]] EXCEPT !.status = "completed"]
<1>0. p \in Processes /\ pc[p] = "saving" /\ BooksAgree(p)
  BY DEF Processes, Commit
<1>1. current[p] \in DOMAIN runs /\ runs[current[p]].by = p /\ runs[current[p]].status = "running"
  BY <1>0 DEF Inv, HasRun
<1>2. runs[current[p]] \in RunRow
  BY <1>1, RunFields DEF Inv
<1>3. /\ row \in RunRow /\ row.by = p /\ row.status = "completed"
      /\ row.role = runs[current[p]].role /\ row.target = runs[current[p]].target
  BY <1>1, <1>2 DEF RunRow
<1>4. runs' = [runs EXCEPT ![current[p]] = row]
  BY DEF Commit
<1> HIDE DEF row
<1>5. OwnRow(p, row)
  BY <1>1, <1>3, <1>4 DEF OwnRow, Active
<1>6. /\ UNCHANGED <<clock, target, current>>
      /\ identities' = identities \cup tx[p].books /\ quotes' = quotes \cup tx[p].quotes
      /\ DOMAIN pc' = Processes /\ DOMAIN exit' = Ingestions /\ DOMAIN tx' = Processes
      /\ \A q \in Processes : q # p => pc'[q] = pc[q] /\ tx'[q] = tx[q]
      /\ \A q \in Ingestions : q # p => exit'[q] = exit[q]
      /\ tx'[p] = NoTx
      /\ pc'[p] \in {"exited", "failing"} /\ exit'[p] \in {0, 1}
  BY <1>0 DEF Commit, Abort, Exit, Goto, Inv, Typed
<1>7. Typed'
  <2>1. \A q \in Processes : DOMAIN tx'[q] = {"games", "links", "books", "quotes"}
    BY <1>6 DEF Inv, Typed, NoTx
  <2>2. runs' \in Seq(RunRow)
    BY <1>5, OwnRowKeeps DEF Inv
  <2>3. clock' \in Int /\ target' \in [Ingestions -> Int] /\ DOMAIN current' = Ingestions
    BY <1>6 DEF Inv, Typed
  <2> QED BY <1>6, <2>1, <2>2, <2>3 DEF Typed
<1>8. Agreeing(tx[p].books) /\ Agreeing(identities)
  BY <1>0 DEF Inv, TxHolds, QuotesStored
<1>9. Agreeing(identities')
  BY <1>0, <1>6, <1>8 DEF Agreeing, BooksAgree
<1>10. QuotesStored'
  <2>1. \A q \in tx[p].quotes : /\ q.run = current[p]
                                /\ \E i \in identities' : i.key = q.key /\ i.book = q.book
    BY <1>0, <1>6 DEF Inv, TxHolds
  <2>2. \A q \in quotes : /\ q.run \in DOMAIN runs /\ q.run # current[p]
                          /\ runs[q.run].status = "completed"
                          /\ \E i \in identities' : i.key = q.key /\ i.book = q.book
    BY <1>1, <1>6 DEF Inv, QuotesStored
  <2> QED BY <1>1, <1>3, <1>5, <1>6, <1>9, <2>1, <2>2, OwnRowKeeps DEF QuotesStored
<1>11. OthersStay(p)
  BY <1>6 DEF OthersStay
<1>12. HasRun(p)'
  BY <1>1, <1>3, <1>5, <1>6, OwnRowKeeps DEF HasRun
<1>13. LeavesNothing(p)'
  BY <1>6 DEF LeavesNothing
<1>14. TxHolds(p)'
  BY <1>6 DEF NoTx, TxHolds, Agreeing
<1> QED BY <1>0, <1>5, <1>7, <1>10, <1>11, <1>12, <1>13, <1>14, OwnRowKeeps, OthersKeepInv DEF Inv

LEMMA AbortKeepsInv ==
    ASSUME Inv, NEW p \in Ingestions, SaveFails(p) \/ Crash(p)
    PROVE  Inv'
<1>0. p \in Processes
  BY DEF Processes
<1>1. /\ UNCHANGED <<clock, target, current, runs, identities, quotes>>
      /\ DOMAIN pc' = Processes /\ DOMAIN exit' = Ingestions /\ DOMAIN tx' = Processes
      /\ \A q \in Processes : q # p => pc'[q] = pc[q] /\ tx'[q] = tx[q]
      /\ \A q \in Ingestions : q # p => exit'[q] = exit[q]
      /\ tx'[p] = NoTx /\ exit'[p] = 1
      /\ (pc[p] = "saving" /\ pc'[p] = "failing") \/ pc'[p] = "exited"
  BY <1>0 DEF SaveFails, Crash, Abort, Exit, Goto, store, Inv, Typed
<1>2. TxHolds(p)' /\ DOMAIN tx'[p] = {"games", "links", "books", "quotes"}
  BY <1>1 DEF NoTx, TxHolds, Agreeing
<1>3. HasRun(p)' /\ LeavesNothing(p)'
  BY <1>1 DEF HasRun, LeavesNothing, Inv
<1> QED BY <1>0, <1>1, <1>2, <1>3, AbortedOrSaved

(* A run that is completed is not marked failed.                           *)
LEMMA MarkKeepsInv ==
    ASSUME Inv, NEW p \in Ingestions, MarkFailed(p)
    PROVE  Inv'
<1> DEFINE row == [runs[current[p]] EXCEPT !.status = "failed"]
<1>0. p \in Processes /\ pc[p] = "failing"
  BY DEF Processes, MarkFailed
<1>1. current[p] \in DOMAIN runs /\ runs[current[p]].by = p
  BY <1>0 DEF Inv, HasRun
<1>2. runs[current[p]] \in RunRow /\ current[p] # 0
  BY <1>1, RunFields DEF Inv
<1>3. /\ UNCHANGED <<clock, target, current, tx, identities, quotes>>
      /\ DOMAIN pc' = Processes /\ DOMAIN exit' = Ingestions
      /\ \A q \in Processes : q # p => pc'[q] = pc[q]
      /\ \A q \in Ingestions : q # p => exit'[q] = exit[q]
      /\ pc'[p] = "exited"
  BY <1>0 DEF MarkFailed, Goto, Inv, Typed
<1>4. CASE runs' = runs /\ exit' = [exit EXCEPT ![p] = 1]
  <2>1. Quiet /\ exit'[p] = 1
    BY <1>3, <1>4 DEF Quiet, Inv, Typed
  <2>2. HasRun(p)' /\ LeavesNothing(p)'
    BY <1>3, <2>1 DEF HasRun, LeavesNothing
  <2> QED BY <1>0, <1>3, <2>1, <2>2, QuietKeepsInv DEF Inv, Typed
<1>5. CASE runs[current[p]].status = "running" /\ runs' = [runs EXCEPT ![current[p]] = row] /\ exit' = exit
  <2>1. /\ row \in RunRow /\ row.by = p /\ row.status = "failed"
        /\ row.role = runs[current[p]].role /\ row.target = runs[current[p]].target
    BY <1>1, <1>2 DEF RunRow
  <2> HIDE DEF row
  <2>2. OwnRow(p, row)
    BY <1>1, <1>5, <2>1 DEF OwnRow, Active
  <2>3. Typed'
    BY <1>3, <2>2, OwnRowKeeps DEF Inv, Typed
  <2>4. QuotesStored'
    BY <1>1, <1>3, <1>5, <2>2, OwnRowKeeps DEF Inv, QuotesStored, Agreeing
  <2>5. OthersStay(p)
    BY <1>3 DEF OthersStay
  <2>6. HasRun(p)'
    BY <1>3 DEF HasRun
  <2>7. exit[p] = 75 => Failed(p, 0)'
    BY <1>0, <2>1, <2>2, OwnRowKeeps DEF Inv, LeavesNothing, Failed
  <2>8. LeavesNothing(p)'
    BY <1>3, <1>5, <2>7 DEF LeavesNothing
  <2>9. TxHolds(p)'
    BY <1>0, <1>3 DEF Inv, TxHolds, BooksAgree, Agreeing
  <2> QED BY <1>0, <2>2, <2>3, <2>4, <2>5, <2>6, <2>8, <2>9, OwnRowKeeps, OthersKeepInv DEF Inv
<1> QED BY <1>4, <1>5 DEF MarkFailed

-----------------------------------------------------------------------------
(* Synchronizations hold no quotes. *)

LEMMA SyncKeepsInv ==
    ASSUME Inv, NEW p \in Syncs, SyncStep(p)
    PROVE  Inv'
<1>0. p \in Processes
  BY DEF Processes
<1>1. /\ UNCHANGED <<clock, target, current, exit, runs, identities, quotes>>
      /\ DOMAIN pc' = Processes /\ DOMAIN tx' = Processes
      /\ \A q \in Processes : q # p => pc'[q] = pc[q] /\ tx'[q] = tx[q]
      /\ pc[p] \in {"idle", "syncing"} /\ pc'[p] \in {"syncing", "failed", "done"}
  BY <1>0 DEF SyncStep, FetchSchedule, SyncGame, CommitSchedule, SyncFails, Abort, Goto, tasks,
         store, Inv, Typed
<1>2. /\ DOMAIN tx'[p] = {"games", "links", "books", "quotes"}
      /\ tx'[p] = NoTx \/ (tx'[p].books = tx[p].books /\ tx'[p].quotes = tx[p].quotes)
  <2>1. CASE SyncGame(p)
    <3>1. DOMAIN tx = Processes /\ DOMAIN tx[p] = {"games", "links", "books", "quotes"}
      BY <1>0 DEF Inv, Typed
    <3>2. CASE Abort(p)
      BY <1>0, <3>1, <3>2 DEF Abort, NoTx
    <3>3. CASE ~Abort(p)
      <4>1. PICK ev \in pending[p] :
              LET g == CHOOSE x \in Resolve(VisibleGames(p), VisibleSources(p), Mlb, ev, nextGame) : TRUE
              IN  tx' = [tx EXCEPT
                     ![p].games = UpdateCanonicalGame(@, g, ev),
                     ![p].links = @ \cup {[source |-> Mlb, ext |-> ev.ext, game |-> g]}]
        BY <2>1, <3>3 DEF SyncGame
      <4> QED BY <1>0, <3>1, <4>1
    <3> QED BY <3>2, <3>3
  <2>2. CASE FetchSchedule(p) \/ CommitSchedule(p) \/ SyncFails(p)
    BY <1>0, <2>2 DEF FetchSchedule, CommitSchedule, SyncFails, Abort, NoTx, Inv, Typed
  <2> QED BY <2>1, <2>2 DEF SyncStep
<1>3. TxHolds(p)'
  BY <1>0, <1>1, <1>2 DEF Inv, TxHolds, BooksAgree, NoTx, Agreeing
<1>4. HasRun(p)' /\ (p \in Ingestions => LeavesNothing(p)')
  BY <1>1 DEF HasRun, LeavesNothing
<1> QED BY <1>0, <1>1, <1>2, <1>3, <1>4, AbortedOrSaved DEF Inv, Typed

-----------------------------------------------------------------------------
(* The system. *)

LEMMA NextKeepsInv == Inv /\ [Next]_vars => Inv'
<1> SUFFICES ASSUME Inv, [Next]_vars PROVE Inv'
  OBVIOUS
<1>1. ASSUME NEW p \in Tasks, TaskStep(p) PROVE Inv'
  <2>1. p \in Ingestions
    BY DEF Ingestions
  <2>2. CASE Ingest(p)
    BY <2>1, <2>2, CreateKeepsInv, FetchFailsKeepsInv, FetchKeepsInv, SaveEventKeepsInv,
       CommitKeepsInv, AbortKeepsInv, MarkKeepsInv DEF Ingest
  <2> QED BY <1>1, <2>1, <2>2, GuardKeepsInv, TargetKeepsInv, EndKeepsInv DEF TaskStep
<1>2. ASSUME NEW p \in Manuals, ManualStep(p) PROVE Inv'
  <2>1. p \in Ingestions
    BY DEF Ingestions
  <2>2. CASE Ingest(p)
    BY <2>1, <2>2, CreateKeepsInv, FetchFailsKeepsInv, FetchKeepsInv, SaveEventKeepsInv,
       CommitKeepsInv, AbortKeepsInv, MarkKeepsInv DEF Ingest
  <2> QED BY <1>2, <2>1, <2>2, TargetKeepsInv, EndKeepsInv DEF ManualStep
<1>3. CASE Tick
  <2>1. UNCHANGED <<target, runs, pc, exit, current, tx, identities, quotes>> /\ clock' \in Int
    BY <1>3 DEF Tick, tasks, store, Inv, Typed
  <2> QED BY <2>1 DEF Inv, Typed, PlaceHeldOnce, QuotesStored, HasRun, LeavesNothing, Failed,
                      TxHolds, BooksAgree, Agreeing
<1>4. CASE UNCHANGED vars
  <2>1. UNCHANGED <<clock, target, runs, pc, exit, current, tx, identities, quotes>>
    BY <1>4 DEF vars, tasks, store
  <2> QED BY <2>1 DEF Inv, Typed, PlaceHeldOnce, QuotesStored, HasRun, LeavesNothing, Failed,
                      TxHolds, BooksAgree, Agreeing
<1> QED BY <1>1, <1>2, <1>3, <1>4, SyncKeepsInv, AbortKeepsInv DEF Next

LEMMA Invariant == Spec => []Inv
  BY InitInv, NextKeepsInv, PTL DEF Spec

(* Whatever is retried, crashes or loses its acknowledgement, the quotes   *)
(* of a slate and role are those of one completed run: the partial unique  *)
(* index of odds_ingestion_runs is held by at most one run, and quotes are *)
(* committed with its completion (ingest/odds_api.py).                     *)
THEOREM OneSnapshotPerSlate == Spec => []SingleSnapshot
<1>1. Inv => SingleSnapshot
  BY DEF Inv, QuotesStored, PlaceHeldOnce, Active, SingleSnapshot
<1> QED BY <1>1, Invariant, PTL

(* Two captures that race for a bookmaker's key cannot both commit another *)
(* sportsbook for it, nor share one between two keys: an identity that was *)
(* committed first is compared when the second transaction inserts its own *)
(* (ingest/odds_provenance.py).                                            *)
THEOREM BookmakersKeepTheirSportsbook == Spec => []BooksKept
<1>1. Inv => BooksKept
  BY DEF Inv, QuotesStored, Agreeing, BooksKept
<1> QED BY <1>1, Invariant, PTL

(* Only the preflight of a task counts an attempt, and counts its own.     *)
LEMMA AttemptsCounted ==
    ASSUME DOMAIN attempt = Tasks, [Next]_vars
    PROVE  /\ DOMAIN attempt' = Tasks
           /\ \A p \in Tasks : attempt'[p] # attempt[p] => Preflight(p)
<1>1. ASSUME NEW p \in Tasks, Preflight(p)
      PROVE  DOMAIN attempt' = Tasks /\ \A q \in Tasks : q # p => attempt'[q] = attempt[q]
  BY <1>1 DEF Preflight
<1>2. ASSUME NEW p, Ingest(p) PROVE attempt' = attempt
  BY <1>2 DEF Ingest, CreateRun, FetchFails, Fetch, SaveEvent, Commit, SaveFails, MarkFailed
<1>3. ASSUME NEW p \in Tasks, TaskStep(p), ~Preflight(p) PROVE attempt' = attempt
  BY <1>2, <1>3 DEF TaskStep, GuardTask, StartPregame, ResolveTarget, DatabaseReady,
     DatabaseRefused, DatabaseTimesOut, EndWait, RunPregame, AttemptEnds, WakeUp, CaptureEarlyEntry, tasks
<1>4. ASSUME NEW p, ManualStep(p) \/ SyncStep(p) \/ Crash(p) PROVE attempt' = attempt
  BY <1>2, <1>4 DEF ManualStep, StartManual, ManualEnds, SyncStep, FetchSchedule, SyncGame,
     CommitSchedule, SyncFails, Crash, tasks
<1>5. CASE Tick \/ UNCHANGED vars
  BY <1>5 DEF Tick, vars, tasks
<1> QED BY <1>1, <1>3, <1>4, <1>5 DEF Next

(* A retry of the wrapper starts from nothing: the exit code of a          *)
(* transient error is only left when the run was marked failed, so no      *)
(* attempt repeats a capture that was committed or still holds its place.  *)
THEOREM RetriesStartFromNothing == Spec => RetriesRepeatNothing
<1>1. Init => DOMAIN attempt = Tasks
  BY DEF Init
<1>2. DOMAIN attempt = Tasks /\ [Next]_vars => (DOMAIN attempt = Tasks)'
  BY AttemptsCounted
<1>3. Inv /\ DOMAIN attempt = Tasks /\ [Next]_vars =>
        [\A p \in Tasks : attempt'[p] # attempt[p] =>
            \A r \in DOMAIN runs : runs[r].by = p => runs[r].status = "failed"]_vars
  <2> SUFFICES ASSUME Inv, DOMAIN attempt = Tasks, [Next]_vars,
                      NEW p \in Tasks, attempt'[p] # attempt[p]
               PROVE  \A r \in DOMAIN runs : runs[r].by = p => runs[r].status = "failed"
    OBVIOUS
  <2>1. pc[p] = "preflight" /\ p \in Ingestions
    BY AttemptsCounted DEF Preflight, Ingestions
  <2>2. Failed(p, 0)
    BY <2>1 DEF Inv, LeavesNothing
  <2> QED BY <2>2, RunFields DEF Failed, Inv
<1> QED BY <1>1, <1>2, <1>3, Invariant, PTL DEF Spec, RetriesRepeatNothing

-----------------------------------------------------------------------------
(* A game keeps the orientation it was inserted with.                      *)

GamesStored ==
    /\ nextGame \in Nat
    /\ \A g \in DOMAIN games : g \in Nat /\ g < nextGame
    /\ \A s \in sources : s.game \in DOMAIN games
    /\ \A q \in quotes : q.game \in DOMAIN games /\ games[q.game].orient = q.orient

(* What an open transaction has written of games agrees with what is       *)
(* committed, and its links and quotes are of games it sees.               *)
TxGames(p) ==
    /\ \A g \in DOMAIN tx[p].games :
          /\ g \in Nat /\ g < nextGame
          /\ g \in DOMAIN games => tx[p].games[g].orient = games[g].orient
    /\ \A l \in tx[p].links : l.game \in DOMAIN VisibleGames(p)
    /\ \A q \in tx[p].quotes : /\ q.game \in DOMAIN VisibleGames(p)
                               /\ VisibleGames(p)[q.game].orient = q.orient

(* A game that is not committed is known to its transaction only.          *)
Unshared ==
    \A p, q \in Processes : p # q =>
        \A g \in DOMAIN tx[p].games : g \in DOMAIN tx[q].games => g \in DOMAIN games

GamesInv == GamesStored /\ Unshared /\ \A p \in Processes : TxGames(p)

LEMMA ResolveFits ==
    ASSUME NEW rows, NEW links, NEW source, NEW ev, NEW fresh,
           \A s \in links : s.game \in DOMAIN rows,
           NEW g \in Resolve(rows, links, source, ev, fresh)
    PROVE  g = fresh \/ (g \in DOMAIN rows /\ rows[g].orient = ev.orient)
<1> DEFINE mapped == MappedTo(links, source, ev.ext)
           found == Candidates(rows, links, source, ev)
<1>1. ASSUME NEW x \in found PROVE x \in DOMAIN rows /\ rows[x].orient = ev.orient
  BY <1>1 DEF Candidates, Nearby, SameDate, SameOrientation
<1>2. ASSUME NEW x \in KeepMapping(rows, mapped, ev)
      PROVE  x \in DOMAIN rows /\ rows[x].orient = ev.orient
  BY <1>2 DEF KeepMapping, MappedTo
<1> HIDE DEF mapped, found
<1>3. Resolve(rows, links, source, ev, fresh) =
        IF mapped # {} THEN KeepMapping(rows, mapped, ev)
        ELSE IF found = {} THEN {fresh} ELSE IF Cardinality(found) = 1 THEN found ELSE {}
  BY DEF Resolve, mapped, found
<1> QED BY <1>1, <1>2, <1>3

LEMMA Overlaid ==
    ASSUME NEW rows, NEW own
    PROVE  /\ DOMAIN Overlay(rows, own) = DOMAIN rows \cup DOMAIN own
           /\ \A g \in DOMAIN own : Overlay(rows, own)[g] = own[g]
           /\ \A g \in DOMAIN rows : g \notin DOMAIN own => Overlay(rows, own)[g] = rows[g]
BY DEF Overlay

LEMMA Seen ==
    ASSUME NEW p
    PROVE  /\ DOMAIN VisibleGames(p) = DOMAIN games \cup DOMAIN tx[p].games
           /\ \A g \in DOMAIN tx[p].games : VisibleGames(p)[g] = tx[p].games[g]
           /\ \A g \in DOMAIN games : g \notin DOMAIN tx[p].games => VisibleGames(p)[g] = games[g]
BY Overlaid DEF VisibleGames

LEMMA LinksSeen ==
    ASSUME GamesInv, NEW p \in Processes
    PROVE  \A s \in VisibleSources(p) : s.game \in DOMAIN VisibleGames(p)
BY Seen DEF GamesInv, GamesStored, TxGames, VisibleSources, Linked

(* A step that commits nothing and lets only one transaction go on.        *)
LEMMA OpenKeepsGames ==
    ASSUME GamesInv, NEW p \in Processes,
           UNCHANGED <<games, sources, quotes>>, nextGame' \in Nat, nextGame' >= nextGame,
           \A q \in Processes : q # p => tx'[q] = tx[q],
           \A g \in DOMAIN tx'[p].games : g \in DOMAIN tx[p].games \/ g \in DOMAIN games \/ g = nextGame,
           TxGames(p)'
    PROVE  GamesInv'
<1>1. GamesStored'
  BY DEF GamesInv, GamesStored
<1>2. ASSUME NEW q \in Processes, q # p PROVE TxGames(q)'
  <2>1. VisibleGames(q)' = VisibleGames(q) /\ tx'[q] = tx[q] /\ TxGames(q) /\ nextGame \in Nat
    BY <1>2 DEF VisibleGames, GamesInv, GamesStored
  <2> QED BY <2>1 DEF TxGames
<1>3. Unshared'
  <2> SUFFICES ASSUME NEW q \in Processes, NEW r \in Processes, q # r,
                      NEW g \in DOMAIN tx'[q].games, g \in DOMAIN tx'[r].games
               PROVE  g \in DOMAIN games
    BY DEF Unshared
  <2>1. \A s \in Processes : nextGame \notin DOMAIN tx[s].games
    BY DEF GamesInv, GamesStored, TxGames
  <2> QED BY <2>1 DEF GamesInv, Unshared
<1> QED BY <1>1, <1>2, <1>3 DEF GamesInv

(* One event of a capture or of a schedule is resolved and written.        *)
LEMMA WriteKeepsGames ==
    ASSUME GamesInv, NEW p \in Processes, NEW source, NEW ev,
           NEW g \in Resolve(VisibleGames(p), VisibleSources(p), source, ev, nextGame),
           \/ g # nextGame /\ tx'[p].games = tx[p].games
           \/ tx'[p].games = UpdateCanonicalGame(tx[p].games, g, ev),
           \A l \in tx'[p].links : l \in tx[p].links \/ l.game = g,
           \A q \in tx'[p].quotes : q \in tx[p].quotes \/ (q.game = g /\ q.orient = ev.orient),
           UNCHANGED <<games, sources, quotes>>,
           nextGame' = IF g = nextGame THEN nextGame + 1 ELSE nextGame,
           \A q \in Processes : q # p => tx'[q] = tx[q]
    PROVE  GamesInv'
<1>t. nextGame \in Nat /\ nextGame' \in Nat /\ nextGame' >= nextGame
  BY DEF GamesInv, GamesStored
<1>1. g = nextGame \/ (g \in DOMAIN VisibleGames(p) /\ VisibleGames(p)[g].orient = ev.orient)
  BY LinksSeen, ResolveFits
<1>2. /\ DOMAIN tx'[p].games \subseteq DOMAIN tx[p].games \cup {g}
      /\ DOMAIN tx[p].games \subseteq DOMAIN tx'[p].games
      /\ \A x \in DOMAIN tx[p].games : x # g => tx'[p].games[x] = tx[p].games[x]
      /\ (g # nextGame /\ tx'[p].games = tx[p].games)
            \/ (g \in DOMAIN tx'[p].games /\ tx'[p].games[g].orient = ev.orient)
  BY DEF UpdateCanonicalGame
<1>s. /\ DOMAIN VisibleGames(p) = DOMAIN games \cup DOMAIN tx[p].games
      /\ \A x \in DOMAIN tx[p].games : VisibleGames(p)[x] = tx[p].games[x]
      /\ \A x \in DOMAIN games : x \notin DOMAIN tx[p].games => VisibleGames(p)[x] = games[x]
  BY Seen 
<1>3. \A x \in DOMAIN tx[p].games \cup DOMAIN games : x \in Nat /\ x < nextGame
  BY DEF GamesInv, GamesStored, TxGames
<1>4. g \in DOMAIN games => games[g].orient = ev.orient
  BY <1>1, <1>3, <1>s DEF GamesInv, TxGames
<1>5. /\ DOMAIN VisibleGames(p)' = DOMAIN games \cup DOMAIN tx'[p].games
      /\ \A x \in DOMAIN tx'[p].games : VisibleGames(p)'[x] = tx'[p].games[x]
      /\ \A x \in DOMAIN games : x \notin DOMAIN tx'[p].games => VisibleGames(p)'[x] = games[x]
  <2>1. VisibleGames(p)' = Overlay(games, tx'[p].games)
    BY DEF VisibleGames
  <2> QED BY <2>1 DEF Overlay
<1>6. g \in DOMAIN VisibleGames(p)' /\ VisibleGames(p)'[g].orient = ev.orient
  <2>1. CASE g # nextGame /\ tx'[p].games = tx[p].games
    <3>1. g \in DOMAIN VisibleGames(p) /\ VisibleGames(p)[g].orient = ev.orient
      BY <1>1, <2>1
    <3>2. CASE g \in DOMAIN tx[p].games
      BY <1>5, <1>s, <2>1, <3>1, <3>2
    <3>3. CASE g \notin DOMAIN tx[p].games
      BY <1>5, <1>s, <2>1, <3>1, <3>3
    <3> QED BY <3>2, <3>3
  <2>2. CASE g \in DOMAIN tx'[p].games /\ tx'[p].games[g].orient = ev.orient
    BY <1>5, <2>2
  <2> QED BY <1>2, <2>1, <2>2
<1>7. ASSUME NEW x \in DOMAIN VisibleGames(p)
      PROVE  x \in DOMAIN VisibleGames(p)' /\ VisibleGames(p)'[x].orient = VisibleGames(p)[x].orient
  <2>1. CASE x = g
    BY <1>1, <1>3, <1>6, <1>t, <2>1, <1>s
  <2>2. CASE x # g
    BY <1>2, <1>5, <2>2, <1>s
  <2> QED BY <2>1, <2>2
<1>8. \A x \in DOMAIN tx'[p].games : x \in DOMAIN tx[p].games \/ x \in DOMAIN games \/ x = nextGame
  BY <1>1, <1>2, <1>s
<1>9. TxGames(p)'
  <2>1. ASSUME NEW x \in DOMAIN tx'[p].games
        PROVE  /\ x \in Nat /\ x < nextGame'
               /\ x \in DOMAIN games => tx'[p].games[x].orient = games[x].orient
    <3>1. x \in Nat /\ x < nextGame'
      BY <1>1, <1>2, <1>3, <1>t, <1>s
    <3>2. x \in DOMAIN games => tx'[p].games[x].orient = games[x].orient
      BY <1>2, <1>4, <2>1 DEF GamesInv, TxGames
    <3> QED BY <3>1, <3>2
  <2>2. \A l \in tx'[p].links : l.game \in DOMAIN VisibleGames(p)'
    BY <1>6, <1>7 DEF GamesInv, TxGames
  <2>3. \A q \in tx'[p].quotes : /\ q.game \in DOMAIN VisibleGames(p)'
                                 /\ VisibleGames(p)'[q.game].orient = q.orient
    BY <1>6, <1>7 DEF GamesInv, TxGames
  <2> QED BY <2>1, <2>2, <2>3 DEF TxGames
<1> QED BY <1>8, <1>9, <1>t, OpenKeepsGames

(* A transaction that is given up leaves nothing.                          *)
LEMMA AbortKeepsGames ==
    ASSUME Inv, GamesInv, NEW p \in Processes, Abort(p), UNCHANGED <<games, sources, quotes, nextGame>>
    PROVE  GamesInv'
<1>1. tx'[p] = NoTx /\ \A q \in Processes : q # p => tx'[q] = tx[q]
  BY DEF Abort, Inv, Typed
<1>2. TxGames(p)'
  BY <1>1 DEF TxGames, NoTx
<1>3. nextGame' \in Nat /\ nextGame' >= nextGame /\ DOMAIN tx'[p].games = {}
  BY <1>1 DEF GamesInv, GamesStored, NoTx
<1> QED BY <1>1, <1>2, <1>3, OpenKeepsGames

(* The commit of a capture or of a schedule.                               *)
LEMMA CommitKeepsGames ==
    ASSUME Inv, GamesInv, NEW p \in Processes, Abort(p), UNCHANGED nextGame,
           games' = Overlay(games, tx[p].games), sources' = Linked(sources, tx[p].links),
           quotes' \subseteq quotes \cup tx[p].quotes
    PROVE  GamesInv'
<1>1. tx'[p] = NoTx /\ \A q \in Processes : q # p => tx'[q] = tx[q]
  BY DEF Abort, Inv, Typed
<1>2. games' = VisibleGames(p)
  BY DEF VisibleGames
<1>s. /\ DOMAIN VisibleGames(p) = DOMAIN games \cup DOMAIN tx[p].games
      /\ \A g \in DOMAIN tx[p].games : VisibleGames(p)[g] = tx[p].games[g]
      /\ \A g \in DOMAIN games : g \notin DOMAIN tx[p].games => VisibleGames(p)[g] = games[g]
  BY Seen
<1>3. ASSUME NEW g \in DOMAIN games
      PROVE  g \in DOMAIN games' /\ games'[g].orient = games[g].orient
  <2>1. TxGames(p)
    BY DEF GamesInv
  <2>2. CASE g \in DOMAIN tx[p].games
    BY <1>2, <1>s, <2>1, <2>2 DEF TxGames
  <2>3. CASE g \notin DOMAIN tx[p].games
    BY <1>2, <1>s, <2>3
  <2> QED BY <2>2, <2>3
<1>4. GamesStored'
  <2>1. \A g \in DOMAIN games' : g \in Nat /\ g < nextGame
    BY <1>2, <1>s DEF GamesInv, GamesStored, TxGames
  <2>2. \A s \in sources' : s.game \in DOMAIN games'
    BY <1>2, <1>3 DEF GamesInv, GamesStored, TxGames, Linked
  <2>3. \A q \in quotes' : q.game \in DOMAIN games' /\ games'[q.game].orient = q.orient
    BY <1>2, <1>3 DEF GamesInv, GamesStored, TxGames
  <2> QED BY <2>1, <2>2, <2>3 DEF GamesInv, GamesStored
<1>5. TxGames(p)'
  BY <1>1 DEF TxGames, NoTx
<1>6. ASSUME NEW q \in Processes, q # p PROVE TxGames(q)'
  <2>1. \A g \in DOMAIN tx[q].games : g \in DOMAIN games' => g \in DOMAIN games
    BY <1>2, <1>6, Seen DEF GamesInv, Unshared
  <2>2. \A g \in DOMAIN tx[q].games :
          /\ g \in Nat /\ g < nextGame
          /\ g \in DOMAIN games' => tx[q].games[g].orient = games'[g].orient
    BY <1>3, <2>1 DEF GamesInv, TxGames
  <2>3. /\ DOMAIN VisibleGames(q)' = DOMAIN games' \cup DOMAIN tx[q].games
        /\ \A g \in DOMAIN tx[q].games : VisibleGames(q)'[g] = tx[q].games[g]
        /\ \A g \in DOMAIN games' : g \notin DOMAIN tx[q].games => VisibleGames(q)'[g] = games'[g]
    <3>1. tx'[q] = tx[q]
      BY <1>1, <1>6
    <3>2. VisibleGames(q)' = Overlay(games', tx'[q].games)
      BY DEF VisibleGames
    <3>3. VisibleGames(q)' = Overlay(games', tx[q].games)
      BY <3>1, <3>2
    <3> QED BY <3>3 DEF Overlay
  <2>s. /\ DOMAIN VisibleGames(q) = DOMAIN games \cup DOMAIN tx[q].games
        /\ \A g \in DOMAIN tx[q].games : VisibleGames(q)[g] = tx[q].games[g]
        /\ \A g \in DOMAIN games : g \notin DOMAIN tx[q].games => VisibleGames(q)[g] = games[g]
    BY Seen
  <2>4. ASSUME NEW g \in DOMAIN VisibleGames(q)
        PROVE  g \in DOMAIN VisibleGames(q)' /\ VisibleGames(q)'[g].orient = VisibleGames(q)[g].orient
    <3>1. CASE g \in DOMAIN tx[q].games
      BY <2>3, <2>s, <3>1
    <3>2. CASE g \notin DOMAIN tx[q].games
      <4>1. g \in DOMAIN games /\ VisibleGames(q)[g] = games[g]
        BY <2>s, <3>2
      <4> QED BY <1>3, <2>3, <3>2, <4>1
    <3> QED BY <3>1, <3>2
  <2>5. /\ \A l \in tx[q].links : l.game \in DOMAIN VisibleGames(q)'
        /\ \A x \in tx[q].quotes : /\ x.game \in DOMAIN VisibleGames(q)'
                                   /\ VisibleGames(q)'[x.game].orient = x.orient
    BY <2>4 DEF GamesInv, TxGames
  <2> QED BY <1>1, <1>6, <2>2, <2>5 DEF TxGames
<1>7. Unshared'
  <2> SUFFICES ASSUME NEW q \in Processes, NEW r \in Processes, q # r,
                      NEW g \in DOMAIN tx'[q].games, g \in DOMAIN tx'[r].games
               PROVE  g \in DOMAIN games'
    BY DEF Unshared
  <2>1. q # p /\ r # p
    BY <1>1 DEF NoTx
  <2>2. g \in DOMAIN games
    BY <1>1, <2>1 DEF GamesInv, Unshared
  <2> QED BY <1>3, <2>2
<1> QED BY <1>4, <1>5, <1>6, <1>7 DEF GamesInv

LEMMA InitGames == Init => GamesInv
<1> SUFFICES ASSUME Init PROVE GamesInv
  OBVIOUS
<1>1. GamesStored
  BY DEF Init, GamesStored
<1>2. \A p \in Processes : tx[p] = NoTx
  BY DEF Init
<1>3. Unshared /\ \A p \in Processes : TxGames(p)
  BY <1>2 DEF Unshared, TxGames, NoTx
<1> QED BY <1>1, <1>3 DEF GamesInv

LEMMA SaveEventKeepsGames ==
    ASSUME Inv, GamesInv, NEW p \in Ingestions, SaveEvent(p)
    PROVE  GamesInv'
<1>0. p \in Processes /\ DOMAIN tx = Processes /\ UNCHANGED <<games, sources, quotes>>
  BY DEF Processes, Inv, Typed, SaveEvent, store
<1>1. CASE Abort(p) /\ UNCHANGED nextGame
  BY <1>0, <1>1, AbortKeepsGames
<1>2. CASE ~(Abort(p) /\ UNCHANGED nextGame)
  <2>1. PICK ev \in pending[p] :
         LET game == Resolve(VisibleGames(p), VisibleSources(p), Odds, ev, nextGame)
             book == ResolveBook(VisibleBooks(p), ev.key, ev.title)
             g == CHOOSE x \in game : TRUE
             b == CHOOSE x \in book : TRUE
             own == tx[p]
         IN  /\ game # {}
             /\ nextGame' = IF g = nextGame THEN nextGame + 1 ELSE nextGame
             /\ tx' = [tx EXCEPT ![p] =
                  [games |-> IF g = nextGame THEN UpdateCanonicalGame(own.games, g, ev)
                             ELSE own.games,
                   links |-> own.links \cup {[source |-> Odds, ext |-> ev.ext, game |-> g]},
                   books |-> own.books \cup {[key |-> ev.key, book |-> b]},
                   quotes |-> own.quotes \cup {Selection(p, ev, g, b)}]]
    BY <1>2 DEF SaveEvent
  <2> DEFINE game == Resolve(VisibleGames(p), VisibleSources(p), Odds, ev, nextGame)
             g == CHOOSE x \in game : TRUE
             b == CHOOSE x \in ResolveBook(VisibleBooks(p), ev.key, ev.title) : TRUE
  <2>2. g \in game
    BY <2>1
  <2>3. /\ nextGame' = IF g = nextGame THEN nextGame + 1 ELSE nextGame
        /\ tx'[p].games = IF g = nextGame THEN UpdateCanonicalGame(tx[p].games, g, ev)
                          ELSE tx[p].games
        /\ tx'[p].links = tx[p].links \cup {[source |-> Odds, ext |-> ev.ext, game |-> g]}
        /\ tx'[p].quotes = tx[p].quotes \cup {Selection(p, ev, g, b)}
        /\ \A q \in Processes : q # p => tx'[q] = tx[q]
    BY <1>0, <2>1
  <2> HIDE DEF game, g, b
  <2>4. Selection(p, ev, g, b).game = g /\ Selection(p, ev, g, b).orient = ev.orient
    BY DEF Selection
  <2>5. g \in Resolve(VisibleGames(p), VisibleSources(p), Odds, ev, nextGame)
    BY <2>2 DEF game
  <2>6. /\ \A l \in tx'[p].links : l \in tx[p].links \/ l.game = g
        /\ \A q \in tx'[p].quotes : q \in tx[p].quotes \/ (q.game = g /\ q.orient = ev.orient)
        /\ \/ g # nextGame /\ tx'[p].games = tx[p].games
           \/ tx'[p].games = UpdateCanonicalGame(tx[p].games, g, ev)
    BY <2>3, <2>4
  <2> QED BY <1>0, <2>3, <2>5, <2>6, WriteKeepsGames
<1> QED BY <1>1, <1>2

LEMMA SyncGameKeepsGames ==
    ASSUME Inv, GamesInv, NEW p \in Syncs, SyncGame(p)
    PROVE  GamesInv'
<1>0. /\ p \in Processes /\ DOMAIN tx = Processes /\ UNCHANGED <<games, sources, quotes>>
      /\ DOMAIN tx[p] = {"games", "links", "books", "quotes"}
  BY DEF Processes, Inv, Typed, SyncGame, store
<1>1. CASE Abort(p) /\ UNCHANGED nextGame
  BY <1>0, <1>1, AbortKeepsGames
<1>2. CASE ~(Abort(p) /\ UNCHANGED nextGame)
  <2>1. PICK ev \in pending[p] :
         LET game == Resolve(VisibleGames(p), VisibleSources(p), Mlb, ev, nextGame)
             g == CHOOSE x \in game : TRUE
         IN  /\ game # {}
             /\ nextGame' = IF g = nextGame THEN nextGame + 1 ELSE nextGame
             /\ tx' = [tx EXCEPT
                  ![p].games = UpdateCanonicalGame(@, g, ev),
                  ![p].links = @ \cup {[source |-> Mlb, ext |-> ev.ext, game |-> g]}]
    BY <1>2 DEF SyncGame
  <2> DEFINE game == Resolve(VisibleGames(p), VisibleSources(p), Mlb, ev, nextGame)
             g == CHOOSE x \in game : TRUE
  <2>2. g \in game
    BY <2>1
  <2>3. nextGame' = IF g = nextGame THEN nextGame + 1 ELSE nextGame
    BY <2>1
  <2>4. tx' = [tx EXCEPT ![p].games = UpdateCanonicalGame(@, g, ev),
                         ![p].links = @ \cup {[source |-> Mlb, ext |-> ev.ext, game |-> g]}]
    BY <2>1
  <2>5. g \in Resolve(VisibleGames(p), VisibleSources(p), Mlb, ev, nextGame)
    BY <2>2
  <2> HIDE DEF game, g
  <2>6. /\ tx'[p].games = UpdateCanonicalGame(tx[p].games, g, ev)
        /\ tx'[p].links = tx[p].links \cup {[source |-> Mlb, ext |-> ev.ext, game |-> g]}
        /\ tx'[p].quotes = tx[p].quotes
        /\ \A q \in Processes : q # p => tx'[q] = tx[q]
    BY <1>0, <2>4
  <2>7. /\ \A l \in tx'[p].links : l \in tx[p].links \/ l.game = g
        /\ \A q \in tx'[p].quotes : q \in tx[p].quotes \/ (q.game = g /\ q.orient = ev.orient)
    BY <2>6
  <2> QED BY <1>0, <2>3, <2>5, <2>6, <2>7, WriteKeepsGames
<1> QED BY <1>1, <1>2

(* The other steps leave the games and what is written of them alone.      *)
LEMMA IdleKeepsGames ==
    ASSUME GamesInv, UNCHANGED <<games, sources, quotes, tx, nextGame>>
    PROVE  GamesInv'
<1>1. GamesStored' /\ Unshared'
  BY DEF GamesInv, GamesStored, Unshared
<1>2. ASSUME NEW p \in Processes PROVE TxGames(p)'
  <2>1. VisibleGames(p)' = VisibleGames(p) /\ TxGames(p)
    BY DEF VisibleGames, GamesInv
  <2> QED BY <2>1 DEF TxGames
<1> QED BY <1>1, <1>2 DEF GamesInv

LEMMA NextKeepsGames == Inv /\ GamesInv /\ [Next]_vars => GamesInv'
<1> SUFFICES ASSUME Inv, GamesInv, [Next]_vars PROVE GamesInv'
  OBVIOUS
<1>1. ASSUME NEW p \in Ingestions, Ingest(p) \/ Crash(p) PROVE GamesInv'
  <2>0. p \in Processes
    BY DEF Processes
  <2>1. CASE SaveEvent(p)
    BY <2>1, SaveEventKeepsGames
  <2>2. CASE Commit(p)
    BY <2>0, <2>2, CommitKeepsGames DEF Commit
  <2>3. CASE SaveFails(p) \/ Crash(p)
    BY <2>0, <2>3, AbortKeepsGames DEF SaveFails, Crash, store
  <2>4. CASE CreateRun(p) \/ FetchFails(p) \/ Fetch(p) \/ MarkFailed(p)
    BY <2>4, IdleKeepsGames DEF CreateRun, FetchFails, Fetch, MarkFailed, store
  <2> QED BY <1>1, <2>1, <2>2, <2>3, <2>4 DEF Ingest
<1>2. ASSUME NEW p \in Tasks, TaskStep(p), ~Ingest(p) PROVE GamesInv'
  BY <1>2, IdleKeepsGames DEF TaskStep, GuardTask, StartPregame, ResolveTarget, Preflight, DatabaseReady,
     DatabaseRefused, DatabaseTimesOut, RunPregame, AttemptEnds, WakeUp, CaptureEarlyEntry, store
<1>3. ASSUME NEW p \in Manuals, ManualStep(p), ~Ingest(p) PROVE GamesInv'
  BY <1>3, IdleKeepsGames DEF ManualStep, StartManual, ManualEnds, store
<1>4. ASSUME NEW p \in Syncs, SyncStep(p) PROVE GamesInv'
  <2>0. p \in Processes
    BY DEF Processes
  <2>1. CASE SyncGame(p)
    BY <2>1, SyncGameKeepsGames
  <2>2. CASE CommitSchedule(p)
    BY <2>0, <2>2, CommitKeepsGames DEF CommitSchedule
  <2>3. CASE SyncFails(p)
    BY <2>0, <2>3, AbortKeepsGames DEF SyncFails, store
  <2>4. CASE FetchSchedule(p)
    BY <2>4, IdleKeepsGames DEF FetchSchedule, store
  <2> QED BY <1>4, <2>1, <2>2, <2>3, <2>4 DEF SyncStep
<1>5. CASE Tick \/ UNCHANGED vars
  BY <1>5, IdleKeepsGames DEF Tick, vars, store
<1> QED BY <1>1, <1>2, <1>3, <1>4, <1>5 DEF Next, Ingestions

(* The home and the away side of a quote are those of the game it is       *)
(* stored under, however captures and synchronizations interleave: a game  *)
(* is found by its orientation, both writers of a game write the           *)
(* orientation they have resolved it by, and no open transaction of        *)
(* another process can have inserted it under the same id                  *)
(* (ingest/game_matching.py, ingest/mlb_schedule.py).                      *)
THEOREM QuotesKeepTheirSides == Spec => []OrientationKept
<1>1. GamesInv => OrientationKept
  BY DEF GamesInv, GamesStored, OrientationKept
<1> QED BY <1>1, InitGames, NextKeepsGames, Invariant, PTL DEF Spec

-----------------------------------------------------------------------------
(* Days and windows.                                                       *)

LEMMA WithinDay ==
    ASSUME NEW t \in Int
    PROVE  Day(t) \in Int /\ Day(t) * DayTicks <= t /\ t < Day(t) * DayTicks + DayTicks
BY CanonicalAssumption DEF Day

LEMMA LaterDays ==
    ASSUME NEW a \in Int, NEW b \in Int, a < b
    PROVE  a * DayTicks + DayTicks <= b * DayTicks
BY CanonicalAssumption

LEMMA OnDayOf ==
    ASSUME NEW d \in Int, NEW s \in Int, 0 <= s, s < DayTicks
    PROVE  Day(d * DayTicks + s) = d
<1> DEFINE t == d * DayTicks + s
<1>1. t \in Int
  BY CanonicalAssumption
<1>2. Day(t) * DayTicks <= t /\ t < Day(t) * DayTicks + DayTicks /\ Day(t) \in Int
  BY <1>1, WithinDay
<1>3. ~(Day(t) < d)
  BY <1>2, LaterDays, CanonicalAssumption
<1>4. ~(d < Day(t))
  BY <1>2, LaterDays, CanonicalAssumption
<1> QED BY <1>2, <1>3, <1>4

LEMMA DaysAscend ==
    ASSUME NEW t \in Int, NEW u \in Int, t <= u
    PROVE  Day(t) <= Day(u)
<1>1. SUFFICES ASSUME Day(u) < Day(t) PROVE FALSE
  BY WithinDay
<1>2. Day(u) * DayTicks + DayTicks <= Day(t) * DayTicks
  BY <1>1, WithinDay, LaterDays
<1> QED BY <1>2, WithinDay, CanonicalAssumption

(* Of the times not after now there is a latest one, when there is any.    *)
LEMMA LatestOf ==
    ASSUME NEW now \in Int, NEW T \in SUBSET Int, NEW some \in T, some <= now
    PROVE  \E t \in T : t <= now /\ \A u \in T : u <= now => u <= t
<1> DEFINE Ago == {n \in Nat : now - n \in T}
<1>1. now - some \in Ago
  <2>1. now - some \in Nat /\ now - (now - some) = some
    OBVIOUS
  <2> QED BY <2>1
<1>2. Ago \in SUBSET Nat /\ Ago # {}
  BY <1>1
<1>3. PICK n \in Ago : \A m \in Ago : n <= m
  <2> HIDE DEF Ago
  <2> QED BY <1>2, NatMin
<1>4. ASSUME NEW u \in T, u <= now PROVE u <= now - n
  <2>1. now - u \in Nat /\ now - (now - u) = u
    BY <1>4
  <2>2. now - u \in Ago
    BY <2>1
  <2>3. ~(now - u < n)
    BY <1>3, <2>1, <2>2
  <2> QED BY <2>1, <2>3
<1> QED BY <1>3, <1>4

(* The last window of a day ends by midnight (late night: 23:00 and an     *)
(* hour), and a firing is over before its role's window opens once more.   *)
WindowsWithinTheDay ==
    \A r \in DOMAIN ScheduledAt : \A s \in ScheduledAt[r] : s + WindowTicks <= DayTicks

Today == Day(FirstFiring)

OverBeforeTheNextWindow ==
    \A r \in DOMAIN ScheduledAt : \A s \in ScheduledAt[r] :
        /\ FirstFiring < (Today + 1) * DayTicks + s
        /\ Horizon < (Today + 1) * DayTicks + s

InTime ==
    /\ clock \in Nat /\ FirstFiring <= clock
    /\ \A r \in DOMAIN ScheduledAt : \A s \in ScheduledAt[r] : clock < (Today + 1) * DayTicks + s

LEMMA TimeIntended ==
    ASSUME NEW role \in DOMAIN ScheduledAt, NEW now \in Nat
    PROVE  /\ IntendedTime(role, now) \in Int /\ IntendedTime(role, now) <= now
           /\ \E d \in {Day(now), Day(now) - 1} : \E s \in ScheduledAt[role] :
                 IntendedTime(role, now) = d * DayTicks + s
<1> DEFINE times == {d * DayTicks + s : d \in {Day(now), Day(now) - 1}, s \in ScheduledAt[role]}
<1>1. Day(now) \in Int /\ Day(now) * DayTicks <= now /\ DayTicks \in Nat
  BY WithinDay, CanonicalAssumption
<1>2. ScheduledAt[role] # {} /\ \A s \in ScheduledAt[role] : s \in Int /\ s < DayTicks
  BY CaptureAssumption, <1>1
<1>3. times \in SUBSET Int
  <2>1. SUFFICES ASSUME NEW t \in times PROVE t \in Int
    OBVIOUS
  <2>2. PICK d \in {Day(now), Day(now) - 1}, s \in ScheduledAt[role] : t = d * DayTicks + s
    OBVIOUS
  <2>3. d \in Int /\ s \in Int /\ d * DayTicks \in Int
    BY <1>1, <1>2
  <2> QED BY <2>2, <2>3
<1>4. PICK s \in ScheduledAt[role] : TRUE
  BY <1>2
<1>5. (Day(now) - 1) * DayTicks + s \in times /\ (Day(now) - 1) * DayTicks + s <= now
  <2>1. (Day(now) - 1) * DayTicks + s \in times
    OBVIOUS
  <2>2. (Day(now) - 1) * DayTicks + s <= now
    BY <1>1, <1>2
  <2> QED BY <2>1, <2>2
<1>6. \E t \in times : t <= now /\ \A u \in times : u <= now => u <= t
  <2>1. PICK some \in times : some <= now
    BY <1>5
  <2> HIDE DEF times
  <2>2. now \in Int
    OBVIOUS
  <2> QED BY <1>3, <2>1, <2>2, LatestOf
<1>7. IntendedTime(role, now) = CHOOSE t \in times : t <= now /\ \A u \in times : u <= now => u <= t
  BY DEF IntendedTime
<1>8. IntendedTime(role, now) \in times /\ IntendedTime(role, now) <= now
  BY <1>6, <1>7
<1> QED BY <1>3, <1>8

(* A window that is open now has been opened on the day of the firing.     *)
LEMMA ValidToday ==
    ASSUME WindowsWithinTheDay, InTime, NEW role \in DOMAIN ScheduledAt, Valid(role, clock)
    PROVE  Day(clock) = Today /\ Day(IntendedTime(role, clock)) = Today
<1>1. /\ Day(clock) \in Int /\ Day(clock) * DayTicks <= clock
      /\ DayTicks \in Nat /\ FirstFiring \in Int /\ clock \in Nat /\ Today \in Int
  BY WithinDay, CanonicalAssumption, CaptureAssumption DEF InTime, Today
<1>2. PICK d \in {Day(clock), Day(clock) - 1}, s \in ScheduledAt[role] :
        IntendedTime(role, clock) = d * DayTicks + s
  BY <1>1, TimeIntended
<1>3. d \in Int /\ s \in Int /\ 0 <= s /\ s < DayTicks /\ s + WindowTicks <= DayTicks /\ WindowTicks \in Nat
  BY <1>1, CaptureAssumption DEF WindowsWithinTheDay
<1>4. clock < d * DayTicks + s + WindowTicks
  BY <1>2 DEF Valid, LatestStart
<1>5. d * DayTicks \in Int
  BY <1>1, <1>3
<1>6. clock < d * DayTicks + DayTicks
  BY <1>1, <1>3, <1>4, <1>5
<1>7. d = Day(clock)
  BY <1>1, <1>3, <1>6, LaterDays
<1>8. Day(IntendedTime(role, clock)) = Day(clock)
  BY <1>2, <1>3, <1>7, OnDayOf
<1>9. Today <= Day(clock)
  BY <1>1, DaysAscend DEF InTime, Today
<1>10. ~(Today < Day(clock))
  <2>1. SUFFICES ASSUME Today < Day(clock) PROVE FALSE
    OBVIOUS
  <2>2. (Today + 1) * DayTicks <= Day(clock) * DayTicks
    <3>1. CASE Today + 1 = Day(clock)
      BY <3>1, <1>1
    <3>2. CASE Today + 1 < Day(clock)
      BY <3>2, <1>1, LaterDays
    <3> QED BY <1>1, <2>1, <3>1, <3>2
  <2>3. d * DayTicks + s <= clock
    BY <1>1, <1>2, TimeIntended
  <2>4. clock < (Today + 1) * DayTicks + s
    BY <1>2 DEF InTime
  <2>5. (Today + 1) * DayTicks \in Int /\ Day(clock) * DayTicks \in Int
    BY <1>1
  <2> QED BY <1>1, <1>3, <1>7, <2>2, <2>3, <2>4, <2>5
<1> QED BY <1>1, <1>8, <1>9, <1>10

-----------------------------------------------------------------------------
(* What every step leaves of the runs, and of the other processes.         *)

Shaped ==
    /\ DOMAIN slate = Tasks /\ DOMAIN early = Tasks /\ DOMAIN pending = Processes
    /\ \A r \in DOMAIN runs : runs[r].role = RoleOf[runs[r].by]

(* A run keeps what it was created with, and the time of its answer.       *)
RunsKept ==
    \A r \in DOMAIN runs :
        /\ r \in DOMAIN runs' /\ runs'[r].by = runs[r].by
        /\ runs'[r].role = runs[r].role /\ runs'[r].target = runs[r].target
        /\ runs[r].observed # NoTime => runs'[r].observed = runs[r].observed
        /\ runs[r].status = "completed" => runs'[r].status = "completed"

NewRuns(p) ==
    \A r \in DOMAIN runs' : r \notin DOMAIN runs =>
        /\ pc[p] = "create" /\ runs'[r].by = p
        /\ runs'[r].role = RoleOf[p] /\ runs'[r].target = target[p]

Apart(p) ==
    /\ \A q \in Processes : q # p => pc'[q] = pc[q] /\ pending'[q] = pending[q] /\ tx'[q] = tx[q]
    /\ \A q \in Ingestions : q # p => /\ exit'[q] = exit[q] /\ current'[q] = current[q]
                                      /\ target'[q] = target[q]
    /\ \A q \in Tasks : q # p => slate'[q] = slate[q] /\ early'[q] = early[q]
    /\ DOMAIN slate' = Tasks /\ DOMAIN early' = Tasks /\ DOMAIN pending' = Processes

Step(p) ==
    \/ p \in Tasks /\ TaskStep(p)
    \/ p \in Manuals /\ ManualStep(p)
    \/ p \in Syncs /\ SyncStep(p)
    \/ p \in Ingestions /\ Crash(p)

(* What a step that is not the ingestion's may do.                         *)
Frame(p) == runs' = runs /\ clock' = clock /\ Apart(p)

LEMMA TaskFrame ==
    ASSUME Inv, Shaped, NEW p \in Tasks, TaskStep(p), ~Ingest(p)
    PROVE  Frame(p)
<1>1. /\ p \in Processes /\ p \in Ingestions /\ DOMAIN pc = Processes /\ DOMAIN exit = Ingestions
      /\ DOMAIN target = Ingestions /\ DOMAIN slate = Tasks /\ DOMAIN early = Tasks
      /\ DOMAIN pending = Processes
  BY DEF Inv, Typed, Shaped, Processes, Ingestions
<1>2. CASE GuardTask(p) \/ StartPregame(p) \/ ResolveTarget(p) \/ Preflight(p)
  BY <1>1, <1>2 DEF GuardTask, StartPregame, ResolveTarget, Preflight, Goto, tasks, store, Frame, Apart
<1>3. CASE DatabaseReady(p) \/ DatabaseRefused(p) \/ DatabaseTimesOut(p) \/ RunPregame(p)
  BY <1>1, <1>3 DEF DatabaseReady, DatabaseRefused, DatabaseTimesOut, RunPregame, Goto, tasks,
     store, Frame, Apart
<1>4. CASE AttemptEnds(p) \/ WakeUp(p) \/ CaptureEarlyEntry(p)
  BY <1>1, <1>4 DEF AttemptEnds, WakeUp, CaptureEarlyEntry, Goto, tasks, store, Frame, Apart
<1> QED BY <1>2, <1>3, <1>4 DEF TaskStep

LEMMA ManualFrame ==
    ASSUME Inv, Shaped, NEW p \in Manuals, ManualStep(p), ~Ingest(p)
    PROVE  Frame(p)
<1>1. /\ p \in Processes /\ p \in Ingestions /\ DOMAIN pc = Processes /\ DOMAIN exit = Ingestions
      /\ DOMAIN target = Ingestions /\ DOMAIN slate = Tasks /\ DOMAIN early = Tasks
      /\ DOMAIN pending = Processes
  BY DEF Inv, Typed, Shaped, Processes, Ingestions
<1> QED BY <1>1 DEF ManualStep, StartManual, ManualEnds, Goto, tasks, store, Frame, Apart

LEMMA SyncFrame ==
    ASSUME Inv, Shaped, NEW p \in Syncs, SyncStep(p)
    PROVE  Frame(p) /\ UNCHANGED <<slate, target, exit, early, current, quotes>>
<1>1. /\ p \in Processes /\ DOMAIN pc = Processes /\ DOMAIN pending = Processes
      /\ DOMAIN tx = Processes /\ DOMAIN slate = Tasks /\ DOMAIN early = Tasks
  BY DEF Inv, Typed, Shaped, Processes
<1>2. UNCHANGED <<runs, clock, slate, target, exit, early, current, quotes>>
  BY DEF SyncStep, FetchSchedule, SyncGame, CommitSchedule, SyncFails, tasks, store
<1>3. /\ \A q \in Processes : q # p => pc'[q] = pc[q] /\ pending'[q] = pending[q] /\ tx'[q] = tx[q]
      /\ DOMAIN pending' = Processes
  <2>1. CASE SyncGame(p)
    BY <1>1, <2>1 DEF SyncGame, Abort, Goto
  <2>2. CASE FetchSchedule(p) \/ CommitSchedule(p) \/ SyncFails(p)
    BY <1>1, <2>2 DEF FetchSchedule, CommitSchedule, SyncFails, Abort, Goto
  <2> QED BY <2>1, <2>2 DEF SyncStep
<1> QED BY <1>1, <1>2, <1>3 DEF Frame, Apart

LEMMA IngestApart ==
    ASSUME Inv, Shaped, NEW p \in Ingestions, Ingest(p) \/ Crash(p)
    PROVE  Apart(p) /\ UNCHANGED <<clock, slate, target, early>>
<1>1. /\ p \in Processes /\ DOMAIN pc = Processes /\ DOMAIN exit = Ingestions
      /\ DOMAIN current = Ingestions /\ DOMAIN tx = Processes /\ DOMAIN pending = Processes
      /\ DOMAIN slate = Tasks /\ DOMAIN early = Tasks
  BY DEF Inv, Typed, Shaped, Processes
<1>2. UNCHANGED <<clock, slate, target, early>>
  BY DEF Ingest, CreateRun, FetchFails, Fetch, SaveEvent, Commit, SaveFails, MarkFailed, Crash
<1>3. /\ \A q \in Processes : q # p => pc'[q] = pc[q] /\ pending'[q] = pending[q] /\ tx'[q] = tx[q]
      /\ \A q \in Ingestions : q # p => exit'[q] = exit[q] /\ current'[q] = current[q]
      /\ DOMAIN pending' = Processes
  <2>1. CASE CreateRun(p)
    BY <1>1, <2>1 DEF CreateRun, Exit, Goto
  <2>2. CASE FetchFails(p) \/ Fetch(p)
    BY <1>1, <2>2 DEF FetchFails, Fetch, Goto, store
  <2>3. CASE SaveEvent(p)
    BY <1>1, <2>3 DEF SaveEvent, Abort, Goto
  <2>4. CASE Commit(p)
    BY <1>1, <2>4 DEF Commit, Abort, Exit, Goto
  <2>5. CASE SaveFails(p) \/ MarkFailed(p) \/ Crash(p)
    BY <1>1, <2>5 DEF SaveFails, MarkFailed, Crash, Abort, Exit, Goto
  <2> QED BY <2>1, <2>2, <2>3, <2>4, <2>5 DEF Ingest
<1> QED BY <1>1, <1>2, <1>3 DEF Apart

LEMMA IngestRuns ==
    ASSUME Inv, Shaped, NEW p \in Ingestions, Ingest(p) \/ Crash(p)
    PROVE  RunsKept /\ NewRuns(p)
<1> DEFINE Same(row) ==
             /\ row.by = runs[current[p]].by /\ row.role = runs[current[p]].role
             /\ row.target = runs[current[p]].target
             /\ runs[current[p]].observed # NoTime => row.observed = runs[current[p]].observed
             /\ runs[current[p]].status = "completed" => row.status = "completed"
<1>1. /\ runs \in Seq(RunRow)
      /\ pc[p] \in {"fetch", "saving", "failing"} => current[p] \in DOMAIN runs
      /\ pc[p] \in {"fetch", "saving"} => runs[current[p]].status = "running"
  BY DEF Inv, Typed, HasRun
<1>2. ASSUME runs' = runs PROVE RunsKept /\ NewRuns(p)
  BY <1>2 DEF RunsKept, NewRuns
<1>3. CASE CreateRun(p)
  <2>1. CASE ~Duplicate(RoleOf[p], target[p])
    <3> DEFINE row == [role |-> RoleOf[p], target |-> target[p], by |-> p,
                       status |-> "running", observed |-> NoTime]
    <3>1. runs' = Append(runs, row) /\ pc[p] = "create"
      BY <1>3, <2>1 DEF CreateRun
    <3>2. row.role = RoleOf[p] /\ row.target = target[p] /\ row.by = p
      OBVIOUS
    <3> HIDE DEF row
    <3>3. /\ DOMAIN runs' = DOMAIN runs \cup {Len(runs) + 1}
          /\ \A r \in DOMAIN runs : runs'[r] = runs[r]
          /\ runs'[Len(runs) + 1] = row
      BY <1>1, <3>1
    <3> QED BY <3>1, <3>2, <3>3 DEF RunsKept, NewRuns
  <2>2. CASE Duplicate(RoleOf[p], target[p])
    BY <1>2, <1>3, <2>2 DEF CreateRun
  <2> QED BY <2>1, <2>2
<1>4. ASSUME pc[p] \in {"fetch", "saving", "failing"},
             NEW row, Same(row), runs' = [runs EXCEPT ![current[p]] = row]
      PROVE  RunsKept /\ NewRuns(p)
  BY <1>1, <1>4 DEF RunsKept, NewRuns
<1>5. current[p] \in DOMAIN runs => runs[current[p]] \in RunRow
  BY <1>1
<1>6. CASE Fetch(p)
  <2> DEFINE row == [runs[current[p]] EXCEPT !.observed = clock]
  <2>1. pc[p] = "fetch" /\ runs[current[p]].observed = NoTime /\ runs' = [runs EXCEPT ![current[p]] = row]
    BY <1>6 DEF Fetch, RecordResponse
  <2>2. Same(row)
    BY <1>1, <1>5, <2>1 DEF RunRow
  <2> HIDE DEF row, Same
  <2> QED BY <1>4, <2>1, <2>2
<1>7. CASE Commit(p)
  <2> DEFINE row == [runs[current[p]] EXCEPT !.status = "completed"]
  <2>1. pc[p] = "saving" /\ runs' = [runs EXCEPT ![current[p]] = row]
    BY <1>7 DEF Commit
  <2>2. Same(row)
    BY <1>1, <1>5, <2>1 DEF RunRow
  <2> HIDE DEF row, Same
  <2> QED BY <1>4, <2>1, <2>2
<1>8. CASE MarkFailed(p)
  <2> DEFINE row == [runs[current[p]] EXCEPT !.status = "failed"]
  <2>1. CASE runs' = runs
    BY <1>2, <2>1
  <2>2. CASE runs[current[p]].status = "running" /\ runs' = [runs EXCEPT ![current[p]] = row]
    <3>1. pc[p] = "failing"
      BY <1>8 DEF MarkFailed
    <3>2. Same(row)
      BY <1>1, <1>5, <2>2, <3>1 DEF RunRow
    <3> HIDE DEF row, Same
    <3> QED BY <1>4, <2>2, <3>1, <3>2
  <2> QED BY <1>8, <2>1, <2>2 DEF MarkFailed
<1>9. CASE FetchFails(p) \/ SaveEvent(p) \/ SaveFails(p) \/ Crash(p)
  BY <1>2, <1>9 DEF FetchFails, SaveEvent, SaveFails, Crash, store
<1> QED BY <1>3, <1>6, <1>7, <1>8, <1>9 DEF Ingest

(* All that the steps of one process have in common.                       *)
LEMMA StepFrame ==
    ASSUME Inv, Shaped, NEW p \in Processes, Step(p)
    PROVE  RunsKept /\ NewRuns(p) /\ Apart(p) /\ clock' = clock
<1>1. ASSUME Frame(p) PROVE RunsKept /\ NewRuns(p) /\ Apart(p) /\ clock' = clock
  BY <1>1 DEF Frame, RunsKept, NewRuns
<1>2. ASSUME p \in Ingestions, Ingest(p) \/ Crash(p)
      PROVE  RunsKept /\ NewRuns(p) /\ Apart(p) /\ clock' = clock
  BY <1>2, IngestApart, IngestRuns
<1> QED BY <1>1, <1>2, TaskFrame, ManualFrame, SyncFrame DEF Step, TaskStep, ManualStep, Ingestions

LEMMA NextIsStep ==
    ASSUME [Next]_vars
    PROVE  Tick \/ UNCHANGED vars \/ \E p \in Processes : Step(p)
BY DEF Next, Step, Processes, Ingestions

LEMMA ShapedKept ==
    ASSUME Inv, Shaped, [Next]_vars
    PROVE  Shaped'
<1>1. ASSUME NEW p \in Processes, Step(p) PROVE Shaped'
  BY <1>1, StepFrame DEF Shaped, RunsKept, NewRuns, Apart
<1>2. CASE Tick \/ UNCHANGED vars
  BY <1>2 DEF Tick, vars, tasks, store, Shaped
<1> QED BY <1>1, <1>2, NextIsStep

-----------------------------------------------------------------------------
(* The slate of a task.                                                    *)

Capturing(p) == p \in Tasks /\ RoleOf[p] # "pregame"
OwnDay(p) == Today + DayOffset[RoleOf[p]]

(* Past its guard a task has announced the slate of the day it fired on;   *)
(* past its resolver it has a target that midnight may have moved on, but  *)
(* a run is only created for the announced one.                            *)
Slated(p) ==
    /\ RoleOf[p] = "pregame" => pc[p] \notin {"resolve", "create", "fetch", "saving", "early_entry"}
    /\ RoleOf[p] # "pregame" /\ pc[p] \notin {"idle", "done", "failed"} => slate[p] = OwnDay(p)
    /\ RoleOf[p] # "pregame" /\ pc[p] \notin {"idle", "resolve", "done", "failed"} =>
          OwnDay(p) <= target[p] /\ target[p] <= Day(clock) + DayOffset[RoleOf[p]]
    /\ pc[p] = "create" => target[p] = slate[p]
    /\ pc[p] = "idle" => \A r \in DOMAIN runs : runs[r].by # p
    /\ \A r \in DOMAIN runs : runs[r].by = p => runs[r].target = slate[p]

SlateInv == Shaped /\ InTime /\ \A p \in Tasks : Slated(p)

(* A quote is of the day of its run, and of a game that has not begun.     *)
OfItsDay(q) ==
    /\ q.run \in DOMAIN runs
    /\ Day(q.start) = runs[q.run].target
    /\ runs[q.run].observed # NoTime /\ runs[q.run].observed < q.start

(* So is every event of an answer whose quotes are being written.          *)
Dated(p) ==
    /\ \A q \in tx[p].quotes : OfItsDay(q)
    /\ p \in Ingestions /\ pc[p] \in {"fetch", "saving"} => runs[current[p]].target = target[p]
    /\ p \in Ingestions /\ pc[p] = "saving" =>
          /\ runs[current[p]].observed # NoTime
          /\ \A ev \in pending[p] : Day(ev.start) = target[p] /\ runs[current[p]].observed < ev.start

DatesInv ==
    /\ Shaped /\ clock \in Nat
    /\ \A q \in quotes : OfItsDay(q)
    /\ \A p \in Processes : Dated(p)

(* A task whose work has ended well has a completed run of its role.       *)
HasCaptured(p) ==
    \E r \in DOMAIN runs : /\ runs[r].by = p /\ runs[r].status = "completed"
                           /\ runs[r].target = target[p]

Evaluates(p) ==
    /\ pc[p] = "failing" => exit[p] # 0
    /\ pc[p] = "workflow" => RoleOf[p] = "pregame"
    /\ RoleOf[p] # "pregame" /\ pc[p] = "exited" /\ exit[p] = 0 => HasCaptured(p)
    /\ pc[p] = "early_entry" => RoleOf[p] = "late_night" /\ HasCaptured(p)
    /\ pc[p] = "captured" <=> early[p] # 0
    /\ early[p] # 0 => /\ early[p] \in DOMAIN runs /\ runs[early[p]].by = p
                       /\ runs[early[p]].status = "completed"

EarlyInv == SlateInv /\ DatesInv /\ \A p \in Tasks : Evaluates(p)

LEMMA InitSlates == WindowsWithinTheDay /\ OverBeforeTheNextWindow /\ Init => SlateInv
<1> SUFFICES ASSUME WindowsWithinTheDay, OverBeforeTheNextWindow, Init PROVE SlateInv
  OBVIOUS
<1>1. Shaped
  BY DEF Init, Shaped
<1>2. InTime
  BY CaptureAssumption DEF Init, InTime, OverBeforeTheNextWindow
<1>3. \A p \in Tasks : Slated(p)
  BY DEF Init, Slated, Processes, Ingestions
<1> QED BY <1>1, <1>2, <1>3 DEF SlateInv

LEMMA TickKeepsTime ==
    ASSUME OverBeforeTheNextWindow, InTime, Tick
    PROVE  InTime' /\ Day(clock) \in Int /\ Day(clock') \in Int /\ Day(clock) <= Day(clock')
<1>1. clock \in Nat /\ clock' = clock + 1 /\ clock' <= Horizon /\ FirstFiring \in Int /\ Horizon \in Int
  BY CaptureAssumption DEF InTime, Tick
<1>2. InTime'
  <2>1. ASSUME NEW r \in DOMAIN ScheduledAt, NEW s \in ScheduledAt[r]
        PROVE  clock' < (Today + 1) * DayTicks + s
    <3>1. Today \in Int /\ s \in Int /\ DayTicks \in Int
      BY WithinDay, <1>1, CaptureAssumption, CanonicalAssumption DEF Today
    <3>2. (Today + 1) * DayTicks + s \in Int
      BY <3>1
    <3>3. Horizon < (Today + 1) * DayTicks + s
      BY DEF OverBeforeTheNextWindow
    <3> QED BY <1>1, <3>2, <3>3
  <2> QED BY <1>1, <2>1 DEF InTime
<1> QED BY <1>1, <1>2, DaysAscend, WithinDay

(* What the days are, as integers.                                         *)
LEMMA DaysTyped ==
    ASSUME Inv, InTime, NEW p \in Tasks
    PROVE  /\ Today \in Int /\ DayOffset[RoleOf[p]] \in Int /\ OwnDay(p) \in Int
           /\ Day(clock) \in Int /\ Today <= Day(clock) /\ target[p] \in Int
<1>1. clock \in Int /\ FirstFiring \in Int /\ FirstFiring <= clock /\ DayOffset[RoleOf[p]] \in Int
  BY CaptureAssumption DEF InTime
<1>2. Day(clock) \in Int /\ Day(FirstFiring) \in Int /\ Day(FirstFiring) <= Day(clock)
  BY <1>1, WithinDay, DaysAscend
<1>3. target[p] \in Int
  BY DEF Inv, Typed, Ingestions
<1> QED BY <1>1, <1>2, <1>3 DEF Today, OwnDay

LEMMA IngestMoves ==
    ASSUME Inv, Shaped, NEW p \in Ingestions, Ingest(p) \/ Crash(p)
    PROVE  /\ pc[p] \in {"create", "fetch", "saving", "failing"}
           /\ pc'[p] \in {"fetch", "saving", "failing", "exited"}
           /\ pc[p] = "failing" => pc'[p] = "exited"
<1>1. p \in Processes /\ DOMAIN pc = Processes
  BY DEF Inv, Typed, Processes
<1>2. CASE CreateRun(p) \/ FetchFails(p) \/ Fetch(p)
  BY <1>1, <1>2 DEF CreateRun, FetchFails, Fetch, Exit, Goto
<1>3. CASE SaveEvent(p)
  BY <1>1, <1>3 DEF SaveEvent, Abort, Goto
<1>4. CASE Commit(p) \/ SaveFails(p) \/ MarkFailed(p) \/ Crash(p)
  BY <1>1, <1>4 DEF Commit, SaveFails, MarkFailed, Crash, Abort, Exit, Goto
<1> QED BY <1>2, <1>3, <1>4 DEF Ingest

LEMMA OwnSlateKept ==
    ASSUME WindowsWithinTheDay, Inv, SlateInv, NEW p \in Tasks, TaskStep(p) \/ Crash(p)
    PROVE  Slated(p)'
<1>0. /\ p \in Processes /\ p \in Ingestions /\ DOMAIN pc = Processes /\ DOMAIN slate = Tasks
      /\ DOMAIN target = Ingestions /\ Slated(p) /\ InTime /\ Shaped
  BY DEF Inv, Typed, SlateInv, Shaped, Processes, Ingestions
<1>1. /\ Today \in Int /\ DayOffset[RoleOf[p]] \in Int /\ OwnDay(p) \in Int
      /\ Day(clock) \in Int /\ Today <= Day(clock) /\ target[p] \in Int
  BY <1>0, DaysTyped
<1>d. OwnDay(p) = Today + DayOffset[RoleOf[p]]
  BY DEF OwnDay
<1>r. RoleOf[p] \in DOMAIN ScheduledAt
  BY CaptureAssumption
<1>2. CASE Ingest(p) \/ Crash(p)
  <2>1. UNCHANGED <<clock, slate, target>> /\ RunsKept /\ NewRuns(p)
    BY <1>0, <1>2, IngestApart, IngestRuns
  <2>2. /\ pc[p] \in {"create", "fetch", "saving", "failing"}
        /\ pc'[p] \in {"fetch", "saving", "failing", "exited"}
        /\ pc[p] = "failing" => pc'[p] = "exited"
    BY <1>0, <1>2, IngestMoves
  <2>3. \A r \in DOMAIN runs' : runs'[r].by = p => runs'[r].target = slate[p]
    BY <1>0, <2>1 DEF RunsKept, NewRuns, Slated
  <2>4. Day(clock)' = Day(clock)
    BY <2>1
  <2> QED BY <1>0, <2>1, <2>2, <2>3, <2>4 DEF Slated, OwnDay
<1>3. CASE ~(Ingest(p) \/ Crash(p))
  <2>1. runs' = runs /\ clock' = clock
    BY <1>0, <1>3, TaskFrame DEF Frame
  <2>2. Day(clock)' = Day(clock)
    BY <2>1
  <2>3. CASE GuardTask(p)
    <3>1. RoleOf[p] # "pregame" /\ \A r \in DOMAIN runs : runs[r].by # p
      BY <1>0, <2>3 DEF GuardTask, Slated
    <3>2. CASE Valid(RoleOf[p], clock)
      <4>1. pc'[p] = "resolve" /\ slate'[p] = IntendedTarget(RoleOf[p], clock)
        BY <1>0, <2>3, <3>2 DEF GuardTask, Goto
      <4>2. slate'[p] = OwnDay(p)
        BY <1>0, <1>r, <3>2, <4>1, ValidToday DEF IntendedTarget, OwnDay
      <4> QED BY <2>1, <3>1, <4>1, <4>2 DEF Slated, OwnDay
    <3>3. CASE ~Valid(RoleOf[p], clock)
      <4>1. pc'[p] = "failed"
        BY <1>0, <2>3, <3>3 DEF GuardTask, Goto
      <4> QED BY <2>1, <3>1, <4>1 DEF Slated
    <3> QED BY <3>2, <3>3
  <2>4. CASE StartPregame(p)
    <3>1. RoleOf[p] = "pregame" /\ pc'[p] = "preflight" /\ slate' = slate
      BY <1>0, <2>4 DEF StartPregame, Goto, tasks
    <3> QED BY <1>0, <2>1, <3>1 DEF Slated
  <2>5. CASE ResolveTarget(p)
    <3>1. /\ pc[p] = "resolve" /\ pc'[p] = "preflight" /\ slate' = slate
          /\ target'[p] = Day(clock) + DayOffset[RoleOf[p]]
      BY <1>0, <2>5 DEF ResolveTarget, ResolvedTarget, Goto
    <3>2. OwnDay(p) <= target'[p]
      BY <1>1, <1>d, <3>1
    <3> QED BY <1>0, <1>1, <2>1, <2>2, <3>1, <3>2 DEF Slated, OwnDay
  <2>6. CASE DatabaseReady(p)
    <3>1. pc[p] = "database" /\ UNCHANGED <<slate, target>>
      BY <2>6 DEF DatabaseReady
    <3>2. CASE pc'[p] = "create"
      <4>1. RoleOf[p] # "pregame" /\ Valid(RoleOf[p], clock)
        BY <1>0, <2>6, <3>2 DEF DatabaseReady, Goto, ValidBeforeFirstPitch
      <4>2. Day(clock) = Today
        BY <1>0, <1>r, <4>1, ValidToday
      <4>3. slate[p] = OwnDay(p) /\ OwnDay(p) <= target[p] /\ target[p] <= Day(clock) + DayOffset[RoleOf[p]]
        BY <1>0, <3>1, <4>1 DEF Slated
      <4>4. target[p] = slate[p]
        <5>1. target[p] <= OwnDay(p)
          BY <1>d, <4>2, <4>3
        <5>2. OwnDay(p) <= target[p] /\ slate[p] = OwnDay(p)
          BY <4>3
        <5>3. OwnDay(p) \in Int /\ target[p] \in Int
          BY <1>1
        <5> QED BY <5>1, <5>2, <5>3
      <4> QED BY <2>1, <2>2, <3>1, <3>2, <4>1, <4>3, <4>4, <1>0 DEF Slated, OwnDay
    <3>3. CASE pc'[p] # "create"
      <4>1. pc'[p] \in {"failed", "workflow"}
        BY <1>0, <2>6, <3>3 DEF DatabaseReady, Goto
      <4> QED BY <1>0, <2>1, <2>2, <3>1, <4>1 DEF Slated, OwnDay
    <3> QED BY <3>2, <3>3
  <2>7. CASE AttemptEnds(p)
    <3>1. /\ pc[p] = "exited" /\ UNCHANGED <<slate, target>>
          /\ pc'[p] \in {"sleeping", "failed", "early_entry", "done"}
          /\ pc'[p] = "early_entry" => RoleOf[p] = "late_night"
      BY <1>0, <2>7 DEF AttemptEnds, Goto
    <3> QED BY <1>0, <2>1, <2>2, <3>1 DEF Slated, OwnDay
  <2>8. CASE Preflight(p) \/ DatabaseRefused(p) \/ DatabaseTimesOut(p) \/ RunPregame(p) \/ WakeUp(p)
              \/ CaptureEarlyEntry(p)
    <3>1. /\ pc[p] \notin {"idle", "resolve", "done", "failed"} /\ UNCHANGED <<slate, target>>
          /\ pc'[p] \in {"database", "failed", "exited", "preflight", "captured"}
      BY <1>0, <2>8 DEF Preflight, DatabaseRefused, DatabaseTimesOut, RunPregame, WakeUp,
         CaptureEarlyEntry, Goto
    <3> QED BY <1>0, <2>1, <2>2, <3>1 DEF Slated, OwnDay
  <2> QED BY <1>3, <2>3, <2>4, <2>5, <2>6, <2>7, <2>8 DEF TaskStep
<1> QED BY <1>2, <1>3

LEMMA SlatesKept ==
    WindowsWithinTheDay /\ OverBeforeTheNextWindow /\ Inv /\ SlateInv /\ [Next]_vars => SlateInv'
<1> SUFFICES ASSUME WindowsWithinTheDay, OverBeforeTheNextWindow, Inv, SlateInv, [Next]_vars
             PROVE  SlateInv'
  OBVIOUS
<1>0. Shaped /\ InTime /\ Shaped'
  BY ShapedKept DEF SlateInv
<1>1. ASSUME NEW p \in Processes, Step(p) PROVE SlateInv'
  <2>1. RunsKept /\ NewRuns(p) /\ Apart(p) /\ clock' = clock
    BY <1>0, <1>1, StepFrame
  <2>2. InTime' /\ Day(clock)' = Day(clock)
    BY <1>0, <2>1 DEF InTime
  <2>3. ASSUME NEW q \in Tasks PROVE Slated(q)'
    <3>0. q \in Processes /\ q \in Ingestions /\ Slated(q)
      BY DEF Processes, Ingestions, SlateInv
    <3>1. CASE q # p
      <4>1. pc'[q] = pc[q] /\ target'[q] = target[q] /\ slate'[q] = slate[q]
        BY <2>1, <3>0, <3>1 DEF Apart
      <4>2. \A r \in DOMAIN runs' : runs'[r].by = q => r \in DOMAIN runs /\ runs[r].by = q
                                                       /\ runs'[r].target = runs[r].target
        BY <2>1, <3>1 DEF RunsKept, NewRuns
      <4> QED BY <2>2, <3>0, <4>1, <4>2 DEF Slated, OwnDay
    <3>2. CASE q = p /\ (TaskStep(p) \/ Crash(p))
      BY <3>2, OwnSlateKept
    <3>3. CASE q = p /\ ~(TaskStep(p) \/ Crash(p))
      <4>1. \/ p \in Manuals /\ ManualStep(p)
            \/ p \in Syncs /\ SyncStep(p)
        BY <1>1, <3>3 DEF Step
      <4> QED BY <3>3, <4>1, CaptureAssumption
    <3> QED BY <3>1, <3>2, <3>3
  <2> QED BY <1>0, <2>2, <2>3 DEF SlateInv
<1>2. CASE Tick
  <2>1. InTime' /\ Day(clock) \in Int /\ Day(clock') \in Int /\ Day(clock) <= Day(clock')
    BY <1>0, <1>2, TickKeepsTime
  <2>2. UNCHANGED <<pc, slate, target, runs>>
    BY <1>2 DEF Tick, tasks, store
  <2>3. ASSUME NEW p \in Tasks PROVE Slated(p)'
    <3>1. DayOffset[RoleOf[p]] \in Int /\ target[p] \in Int /\ Slated(p)
      BY <1>0, DaysTyped DEF SlateInv
    <3>2. target[p] <= Day(clock) + DayOffset[RoleOf[p]] => target[p] <= Day(clock') + DayOffset[RoleOf[p]]
      BY <2>1, <3>1
    <3> QED BY <2>2, <3>1, <3>2 DEF Slated, OwnDay
  <2> QED BY <1>0, <2>1, <2>3 DEF SlateInv
<1>3. CASE UNCHANGED vars
  <2>1. UNCHANGED <<clock, pc, slate, target, runs>>
    BY <1>3 DEF vars, tasks, store
  <2>2. Day(clock)' = Day(clock)
    BY <2>1
  <2> QED BY <1>0, <2>1, <2>2 DEF SlateInv, InTime, Slated, OwnDay
<1> QED BY <1>1, <1>2, <1>3, NextIsStep

-----------------------------------------------------------------------------
(* The quotes of a run are of its day.                                     *)

LEMMA InitDates == Init => DatesInv
<1> SUFFICES ASSUME Init PROVE DatesInv
  OBVIOUS
<1>1. Shaped /\ clock \in Nat /\ quotes = {}
  BY CaptureAssumption DEF Init, Shaped
<1>2. \A p \in Processes : tx[p].quotes = {} /\ pc[p] \in {"idle", "done"}
  BY DEF Init, NoTx
<1> QED BY <1>1, <1>2 DEF DatesInv, Dated

LEMMA StaysOfItsDay ==
    ASSUME RunsKept, NEW q, OfItsDay(q)
    PROVE  OfItsDay(q)'
BY DEF RunsKept, OfItsDay

LEMMA OwnDatesKept ==
    ASSUME Inv, DatesInv, NEW p \in Ingestions, Ingest(p) \/ Crash(p)
    PROVE  Dated(p)' /\ \A q \in quotes' : OfItsDay(q)'
<1>0. /\ p \in Processes /\ DOMAIN pc = Processes /\ DOMAIN pending = Processes
      /\ DOMAIN tx = Processes /\ DOMAIN current = Ingestions
      /\ Shaped /\ Dated(p) /\ HasRun(p) /\ TxHolds(p) /\ runs \in Seq(RunRow)
  BY DEF Inv, Typed, DatesInv, Shaped, Processes
<1>1. RunsKept /\ target' = target
  BY <1>0, IngestApart, IngestRuns
<1>2. \A q \in quotes \cup tx[p].quotes : OfItsDay(q)'
  BY <1>0, <1>1, StaysOfItsDay DEF DatesInv, Dated
<1>3. ASSUME quotes' \subseteq quotes \cup tx[p].quotes, tx'[p].quotes = {} \/ tx' = tx,
             pc'[p] \notin {"fetch", "saving"}
      PROVE  Dated(p)' /\ \A q \in quotes' : OfItsDay(q)'
  <2>1. \A q \in tx'[p].quotes : OfItsDay(q)'
    BY <1>2, <1>3
  <2> QED BY <1>2, <1>3, <2>1 DEF Dated
<1>4. CASE CreateRun(p)
  <2>1. UNCHANGED <<tx, quotes>>
    BY <1>4 DEF CreateRun
  <2>2. CASE Duplicate(RoleOf[p], target[p])
    <3>1. pc'[p] = "exited"
      BY <1>0, <1>4, <2>2 DEF CreateRun, Exit, Goto
    <3> QED BY <1>3, <2>1, <3>1
  <2>3. CASE ~Duplicate(RoleOf[p], target[p])
    <3> DEFINE row == [role |-> RoleOf[p], target |-> target[p], by |-> p,
                       status |-> "running", observed |-> NoTime]
    <3>1. /\ runs' = Append(runs, row) /\ current'[p] = Len(runs) + 1 /\ pc'[p] = "fetch"
      BY <1>0, <1>4, <2>3 DEF CreateRun, Goto
    <3>2. row.target = target[p]
      OBVIOUS
    <3> HIDE DEF row
    <3>3. runs'[current'[p]].target = target'[p]
      BY <1>0, <1>1, <3>1, <3>2
    <3> QED BY <1>2, <2>1, <3>1, <3>3 DEF Dated
  <2> QED BY <2>2, <2>3
<1>5. CASE Fetch(p)
  <2>1. UNCHANGED <<tx, quotes, current>> /\ pc[p] = "fetch"
    BY <1>5 DEF Fetch
  <2>2. CASE pc'[p] = "saving"
    <3>1. /\ current[p] \in DOMAIN runs /\ runs[current[p]].target = target[p]
      BY <1>0, <2>1 DEF HasRun, Dated
    <3>2. runs'[current[p]].observed = clock
      <4>1. runs' = [runs EXCEPT ![current[p]].observed = clock]
        BY <1>5 DEF Fetch, RecordResponse
      <4>2. runs[current[p]] \in RunRow
        BY <1>0, <3>1
      <4>3. "observed" \in DOMAIN runs[current[p]]
        BY <4>2 DEF RunRow
      <4> QED BY <3>1, <4>1, <4>3
    <3>3. \A ev \in pending'[p] : InWindow(ev, target[p], clock)
      BY <1>0, <1>5, <2>2 DEF Fetch, Goto
    <3>4. clock # NoTime
      BY DEF DatesInv, NoTime
    <3>5. /\ runs'[current'[p]].observed # NoTime
          /\ \A ev \in pending'[p] : Day(ev.start) = target'[p] /\ runs'[current'[p]].observed < ev.start
      BY <1>1, <2>1, <3>2, <3>3, <3>4 DEF InWindow
    <3>6. runs'[current'[p]].target = target'[p]
      BY <1>1, <2>1, <3>1 DEF RunsKept
    <3> QED BY <1>2, <2>1, <2>2, <3>5, <3>6 DEF Dated
  <2>3. CASE pc'[p] # "saving"
    <3>1. pc'[p] = "failing"
      BY <1>0, <1>5, <2>3 DEF Fetch, Goto
    <3> QED BY <1>3, <2>1, <3>1
  <2> QED BY <2>2, <2>3
<1>6. CASE SaveEvent(p)
  <2>1. UNCHANGED <<quotes, runs, current>> /\ pc[p] = "saving"
    BY <1>6 DEF SaveEvent, store
  <2>2. CASE Abort(p)
    <3>1. pc'[p] = "saving" \/ pc'[p] = "failing"
      BY <1>0, <1>6 DEF SaveEvent, Goto
    <3>2. tx'[p].quotes = {} /\ pending'[p] = {}
      BY <1>0, <2>2 DEF Abort, NoTx
    <3> QED BY <1>0, <1>1, <1>2, <2>1, <3>1, <3>2 DEF Dated, DatesInv
  <2>3. CASE ~Abort(p)
    <3>1. PICK ev, new :
            /\ ev \in pending[p]
            /\ tx'[p].quotes = tx[p].quotes \cup {new}
            /\ new.run = current[p] /\ new.start = ev.start
            /\ pending'[p] = pending[p] \ {ev}
            /\ pc' = pc
      <4>1. PICK ev \in pending[p] :
              LET g == CHOOSE x \in Resolve(VisibleGames(p), VisibleSources(p), Odds, ev, nextGame) : TRUE
                  b == CHOOSE x \in ResolveBook(VisibleBooks(p), ev.key, ev.title) : TRUE
                  own == tx[p]
              IN  /\ tx' = [tx EXCEPT ![p] =
                       [games |-> IF g = nextGame THEN UpdateCanonicalGame(own.games, g, ev)
                                  ELSE own.games,
                        links |-> own.links \cup {[source |-> Odds, ext |-> ev.ext, game |-> g]},
                        books |-> own.books \cup {[key |-> ev.key, book |-> b]},
                        quotes |-> own.quotes \cup {Selection(p, ev, g, b)}]]
                  /\ pending' = [pending EXCEPT ![p] = @ \ {ev}]
                  /\ pc' = pc
        BY <1>6, <2>3 DEF SaveEvent
      <4>2. PICK g, b : tx'[p].quotes = tx[p].quotes \cup {Selection(p, ev, g, b)}
        BY <1>0, <4>1
      <4>3. Selection(p, ev, g, b).run = current[p] /\ Selection(p, ev, g, b).start = ev.start
        BY DEF Selection
      <4> QED BY <1>0, <4>1, <4>2, <4>3
    <3>3. /\ current[p] \in DOMAIN runs /\ runs[current[p]].observed # NoTime
          /\ runs[current[p]].target = target[p]
          /\ \A e \in pending[p] : Day(e.start) = target[p] /\ runs[current[p]].observed < e.start
      BY <1>0, <2>1 DEF HasRun, Dated
    <3>4. OfItsDay(new)'
      BY <2>1, <3>1, <3>3 DEF OfItsDay
    <3>5. \A q \in tx'[p].quotes : OfItsDay(q)'
      BY <1>2, <3>1, <3>4
    <3> QED BY <1>1, <1>2, <2>1, <3>1, <3>3, <3>5 DEF Dated
  <2> QED BY <2>2, <2>3
<1>7. CASE Commit(p)
  <2>1. quotes' = quotes \cup tx[p].quotes /\ tx'[p].quotes = {} /\ pc'[p] \in {"exited", "failing"}
    BY <1>0, <1>7 DEF Commit, Abort, NoTx, Exit, Goto
  <2> QED BY <1>3, <2>1
<1>8. CASE FetchFails(p) \/ MarkFailed(p)
  <2>1. UNCHANGED <<tx, quotes>> /\ pc'[p] \in {"exited", "failing"}
    BY <1>0, <1>8 DEF FetchFails, MarkFailed, Goto, store
  <2> QED BY <1>3, <2>1
<1>9. CASE SaveFails(p) \/ Crash(p)
  <2>1. quotes' = quotes /\ tx'[p].quotes = {} /\ pc'[p] \in {"exited", "failing"}
    BY <1>0, <1>9 DEF SaveFails, Crash, Abort, NoTx, Exit, Goto, store
  <2> QED BY <1>3, <2>1
<1> QED BY <1>4, <1>5, <1>6, <1>7, <1>8, <1>9 DEF Ingest

(* The quotes an open transaction holds are its own ingestion's to write.  *)
LEMMA OthersHoldTheirQuotes ==
    ASSUME Inv, Shaped, NEW p \in Processes, Step(p), ~(p \in Ingestions /\ (Ingest(p) \/ Crash(p)))
    PROVE  /\ quotes' = quotes
           /\ \A q \in tx'[p].quotes : q \in tx[p].quotes
           /\ p \in Ingestions => pc'[p] \notin {"fetch", "saving"}
<1>1. /\ DOMAIN pc = Processes /\ DOMAIN tx = Processes
      /\ DOMAIN tx[p] = {"games", "links", "books", "quotes"}
  BY DEF Inv, Typed
<1>2. CASE p \in Tasks /\ TaskStep(p)
  <2>1. UNCHANGED <<quotes, tx>> /\ pc'[p] \notin {"fetch", "saving"}
    <3>1. CASE GuardTask(p) \/ StartPregame(p) \/ ResolveTarget(p) \/ Preflight(p) \/ DatabaseReady(p)
      BY <1>1, <3>1 DEF GuardTask, StartPregame, ResolveTarget, Preflight, DatabaseReady, Goto, store
    <3>2. CASE ~(GuardTask(p) \/ StartPregame(p) \/ ResolveTarget(p) \/ Preflight(p) \/ DatabaseReady(p))
      <4>1. ~Ingest(p)
        BY <1>2 DEF Ingestions
      <4> QED BY <1>1, <1>2, <3>2, <4>1 DEF TaskStep, DatabaseRefused, DatabaseTimesOut, RunPregame,
                 AttemptEnds, WakeUp, CaptureEarlyEntry, Goto, store
    <3> QED BY <3>1, <3>2
  <2> QED BY <2>1
<1>3. CASE p \in Manuals /\ ManualStep(p)
  <2>1. ~Ingest(p)
    BY <1>3 DEF Ingestions
  <2> QED BY <1>1, <1>3, <2>1 DEF ManualStep, StartManual, ManualEnds, Goto, store
<1>4. CASE p \in Syncs /\ SyncStep(p)
  <2>1. quotes' = quotes /\ p \notin Ingestions
    BY <1>4, SyncFrame, CaptureAssumption DEF Ingestions
  <2>2. tx'[p].quotes = tx[p].quotes \/ tx'[p].quotes = {}
    <3>1. CASE SyncGame(p) /\ ~Abort(p)
      <4>1. PICK f, l :
              tx' = [tx EXCEPT ![p].games = f, ![p].links = l]
        BY <3>1 DEF SyncGame
      <4> QED BY <1>1, <4>1
    <3>2. CASE SyncGame(p) /\ Abort(p)
      BY <1>1, <3>2 DEF Abort, NoTx
    <3>3. CASE FetchSchedule(p) \/ CommitSchedule(p) \/ SyncFails(p)
      BY <1>1, <3>3 DEF FetchSchedule, CommitSchedule, SyncFails, Abort, NoTx
    <3> QED BY <1>4, <3>1, <3>2, <3>3 DEF SyncStep
  <2> QED BY <2>1, <2>2
<1> QED BY <1>2, <1>3, <1>4 DEF Step

LEMMA DatesKept == Inv /\ DatesInv /\ [Next]_vars => DatesInv'
<1> SUFFICES ASSUME Inv, DatesInv, [Next]_vars PROVE DatesInv'
  OBVIOUS
<1>0. Shaped /\ Shaped'
  BY ShapedKept DEF DatesInv
<1>1. ASSUME NEW p \in Processes, Step(p) PROVE DatesInv'
  <2>1. RunsKept /\ NewRuns(p) /\ Apart(p) /\ clock' = clock
    BY <1>0, <1>1, StepFrame
  <2>2. (\A q \in quotes' : OfItsDay(q)') /\ Dated(p)'
    <3>1. CASE p \in Ingestions /\ (Ingest(p) \/ Crash(p))
      BY <3>1, OwnDatesKept
    <3>2. CASE ~(p \in Ingestions /\ (Ingest(p) \/ Crash(p)))
      <4>1. /\ quotes' = quotes /\ \A q \in tx'[p].quotes : q \in tx[p].quotes
            /\ p \in Ingestions => pc'[p] \notin {"fetch", "saving"}
        BY <1>0, <1>1, <3>2, OthersHoldTheirQuotes
      <4>2. \A q \in quotes \cup tx[p].quotes : OfItsDay(q)'
        BY <2>1, StaysOfItsDay DEF DatesInv, Dated
      <4> QED BY <4>1, <4>2 DEF Dated
    <3> QED BY <3>1, <3>2
  <2>3. ASSUME NEW q \in Processes, q # p PROVE Dated(q)'
    <3>1. /\ pc'[q] = pc[q] /\ pending'[q] = pending[q] /\ tx'[q] = tx[q] /\ Dated(q)
          /\ q \in Ingestions => current'[q] = current[q] /\ target'[q] = target[q] /\ HasRun(q)
      BY <2>1, <2>3 DEF Apart, DatesInv, Inv
    <3>2. \A x \in tx'[q].quotes : OfItsDay(x)'
      BY <2>1, <3>1, StaysOfItsDay DEF Dated
    <3>3. q \in Ingestions /\ pc[q] \in {"fetch", "saving"} =>
            /\ runs'[current[q]].target = runs[current[q]].target
            /\ runs[current[q]].observed # NoTime => runs'[current[q]].observed = runs[current[q]].observed
      BY <2>1, <3>1 DEF HasRun, RunsKept
    <3> QED BY <3>1, <3>2, <3>3 DEF Dated
  <2> QED BY <1>0, <2>1, <2>2, <2>3 DEF DatesInv
<1>2. CASE Tick \/ UNCHANGED vars
  <2>1. UNCHANGED <<pc, target, current, pending, tx, runs, quotes>> /\ clock' \in Nat
    BY <1>2 DEF Tick, vars, tasks, store, DatesInv
  <2> QED BY <1>0, <2>1 DEF DatesInv, Dated, OfItsDay
<1> QED BY <1>1, <1>2, NextIsStep

(* A capture belongs to the slate its window was opened for: a task that   *)
(* resolves its target after midnight is refused by the second guard, so   *)
(* no run of it has another date than the one announced, and every quote   *)
(* is of that date and of a game not begun when the provider answered      *)
(* (orchestration/scheduled_execution.py, ingest/odds_api.py).             *)
THEOREM CapturesBelongToTheirSlate ==
    ASSUME WindowsWithinTheDay, OverBeforeTheNextWindow
    PROVE  Spec => []OwnSlate
<1>1. Inv /\ SlateInv /\ DatesInv => OwnSlate
  BY RunFields DEF SlateInv, Slated, DatesInv, OfItsDay, OwnSlate
<1>2. Init => SlateInv /\ DatesInv
  BY InitSlates, InitDates
<1>3. Inv /\ SlateInv /\ DatesInv /\ [Next]_vars => SlateInv' /\ DatesInv'
  BY SlatesKept, DatesKept
<1> QED BY <1>1, <1>2, <1>3, Invariant, PTL DEF Spec

-----------------------------------------------------------------------------
(* Early Entry.                                                            *)

LEMMA InitEarly == WindowsWithinTheDay /\ OverBeforeTheNextWindow /\ Init => EarlyInv
BY InitSlates, InitDates DEF Init, EarlyInv, Evaluates, Processes, Ingestions

LEMMA CapturedStays ==
    ASSUME RunsKept, NEW p, target'[p] = target[p], HasCaptured(p)
    PROVE  HasCaptured(p)'
BY DEF RunsKept, HasCaptured

(* The latest late-night run of the slate is the task's own: the index     *)
(* lets no other run hold its place.                                       *)
LEMMA OwnIsLatest ==
    ASSUME Inv, Shaped, NEW p \in Tasks, RoleOf[p] = "late_night", HasCaptured(p),
           NEW r \in LateNightRuns(target[p])
    PROVE  r \in DOMAIN runs /\ runs[r].by = p /\ runs[r].status = "completed" /\ r # 0
<1>1. PICK s \in DOMAIN runs : /\ runs[s].by = p /\ runs[s].status = "completed"
                               /\ runs[s].target = target[p]
  BY DEF HasCaptured
<1>2. runs[s].role = "late_night"
  BY <1>1 DEF Shaped
<1>3. r \in DOMAIN runs /\ runs[r].role = "late_night" /\ runs[r].target = target[p]
      /\ runs[r].status = "completed"
  BY DEF LateNightRuns
<1>4. r = s
  BY <1>1, <1>2, <1>3 DEF Inv, PlaceHeldOnce, Active
<1>5. r # 0
  BY <1>3, RunFields DEF Inv
<1> QED BY <1>1, <1>3, <1>4, <1>5

LEMMA OwnEvaluationKept ==
    ASSUME Inv, EarlyInv, NEW p \in Tasks, TaskStep(p) \/ Crash(p)
    PROVE  Evaluates(p)'
<1>0. /\ p \in Processes /\ p \in Ingestions /\ DOMAIN pc = Processes /\ DOMAIN exit = Ingestions
      /\ DOMAIN early = Tasks /\ Evaluates(p) /\ Dated(p) /\ Shaped /\ HasRun(p) /\ runs \in Seq(RunRow)
  BY DEF Inv, Typed, EarlyInv, SlateInv, DatesInv, Shaped, Processes, Ingestions
<1>e. early[p] # 0 => /\ early[p] \in DOMAIN runs /\ runs[early[p]].by = p
                      /\ runs[early[p]].status = "completed" /\ pc[p] = "captured"
  BY <1>0 DEF Evaluates
<1>1. CASE Ingest(p) \/ Crash(p)
  <2>1. early' = early /\ target' = target /\ RunsKept
    BY <1>0, <1>1, IngestApart, IngestRuns
  <2>2. /\ pc[p] \in {"create", "fetch", "saving", "failing"}
        /\ pc'[p] \in {"fetch", "saving", "failing", "exited"}
    BY <1>0, <1>1, IngestMoves
  <2>3. early[p] = 0
    BY <1>e, <2>2
  <2>4. pc'[p] = "failing" => exit'[p] # 0
    <3>1. CASE FetchFails(p) \/ Fetch(p)
      BY <1>0, <3>1 DEF FetchFails, Fetch, Goto
    <3>2. CASE SaveEvent(p)
      BY <1>0, <3>2 DEF SaveEvent, Abort, Goto
    <3>3. CASE Commit(p) \/ SaveFails(p)
      BY <1>0, <3>3 DEF Commit, SaveFails, Abort, Exit, Goto
    <3>4. CASE CreateRun(p) \/ MarkFailed(p) \/ Crash(p)
      BY <1>0, <3>4 DEF CreateRun, MarkFailed, Crash, Exit, Goto
    <3> QED BY <1>1, <3>1, <3>2, <3>3, <3>4 DEF Ingest
  <2>5. pc'[p] = "exited" /\ exit'[p] = 0 => HasCaptured(p)'
    <3>1. CASE Commit(p)
      <4>1. current[p] \in DOMAIN runs /\ runs[current[p]].by = p /\ runs[current[p]] \in RunRow
        BY <1>0, <3>1 DEF Commit, HasRun
      <4>2. "status" \in DOMAIN runs[current[p]]
        BY <4>1 DEF RunRow
      <4>3. runs' = [runs EXCEPT ![current[p]].status = "completed"]
        BY <3>1 DEF Commit
      <4>4. current[p] \in DOMAIN runs' /\ runs'[current[p]].status = "completed"
        BY <4>1, <4>2, <4>3
      <4>5. runs'[current[p]].by = p /\ runs'[current[p]].target = runs[current[p]].target
        BY <2>1, <4>1 DEF RunsKept
      <4>6. runs[current[p]].target = target[p]
        BY <1>0, <3>1 DEF Commit, Dated
      <4> QED BY <2>1, <4>4, <4>5, <4>6 DEF HasCaptured
    <3>2. CASE CreateRun(p) \/ Crash(p)
      BY <1>0, <3>2 DEF CreateRun, Crash, Exit, Goto
    <3>3. CASE FetchFails(p) \/ Fetch(p) \/ SaveEvent(p) \/ SaveFails(p)
      BY <1>0, <3>3 DEF FetchFails, Fetch, SaveEvent, SaveFails, Abort, Goto
    <3>4. CASE MarkFailed(p)
      BY <1>0, <3>4 DEF MarkFailed, Goto, Evaluates
    <3> QED BY <1>1, <3>1, <3>2, <3>3, <3>4 DEF Ingest
  <2> QED BY <2>1, <2>2, <2>3, <2>4, <2>5 DEF Evaluates
<1>2. CASE ~(Ingest(p) \/ Crash(p))
  <2>1. runs' = runs
    BY <1>0, <1>2, TaskFrame DEF Frame
  <2>2. target'[p] = target[p] => (HasCaptured(p)' <=> HasCaptured(p))
    BY <2>1 DEF HasCaptured
  <2>3. CASE CaptureEarlyEntry(p)
    <3>1. pc[p] = "early_entry" /\ exit' = exit /\ RoleOf[p] = "late_night" /\ HasCaptured(p) /\ early[p] = 0
      BY <1>0, <1>e, <2>3 DEF CaptureEarlyEntry, Evaluates
    <3>2. CASE pc'[p] = "failed"
      <4>1. early' = early
        BY <1>0, <2>3, <3>2 DEF CaptureEarlyEntry, Goto
      <4> QED BY <3>1, <3>2, <4>1 DEF Evaluates
    <3>3. CASE pc'[p] # "failed"
      <4>1. PICK r \in LateNightRuns(target[p]) : early' = [early EXCEPT ![p] = r]
        BY <1>0, <2>3, <3>3 DEF CaptureEarlyEntry, Goto
      <4>2. r \in DOMAIN runs /\ runs[r].by = p /\ runs[r].status = "completed" /\ r # 0
        BY <1>0, <3>1, OwnIsLatest
      <4>3. pc'[p] = "captured" /\ early'[p] = r
        BY <1>0, <2>3, <3>3, <4>1 DEF CaptureEarlyEntry, Goto
      <4> QED BY <2>1, <4>2, <4>3 DEF Evaluates
    <3> QED BY <3>2, <3>3
  <2>4. CASE AttemptEnds(p)
    <3>1. /\ pc[p] = "exited" /\ UNCHANGED <<early, target>>
          /\ pc'[p] \in {"sleeping", "failed", "early_entry", "done"}
          /\ pc'[p] = "early_entry" => RoleOf[p] = "late_night" /\ exit[p] = 0
      BY <1>0, <2>4 DEF AttemptEnds, Goto
    <3>2. pc'[p] = "early_entry" => HasCaptured(p)'
      BY <1>0, <2>2, <3>1 DEF Evaluates
    <3> QED BY <1>e, <2>1, <3>1, <3>2 DEF Evaluates
  <2>5. CASE DatabaseRefused(p) \/ DatabaseTimesOut(p) \/ RunPregame(p)
    <3>1. /\ pc[p] \in {"database", "workflow"} /\ UNCHANGED <<early, target>> /\ pc'[p] = "exited"
          /\ pc[p] = "workflow" \/ exit'[p] # 0
      BY <1>0, <2>5 DEF DatabaseRefused, DatabaseTimesOut, RunPregame, Goto
    <3> QED BY <1>0, <1>e, <2>1, <3>1 DEF Evaluates
  <2>6. CASE DatabaseReady(p)
    <3>1. /\ pc[p] = "database" /\ early' = early /\ pc'[p] \in {"failed", "workflow", "create"}
          /\ pc'[p] = "workflow" => RoleOf[p] = "pregame"
      BY <1>0, <2>6 DEF DatabaseReady, Goto
    <3> QED BY <1>e, <2>1, <3>1 DEF Evaluates
  <2>7. CASE GuardTask(p) \/ StartPregame(p) \/ ResolveTarget(p) \/ Preflight(p) \/ WakeUp(p)
    <3>1. /\ pc[p] # "captured" /\ early' = early
          /\ pc'[p] \in {"resolve", "failed", "preflight", "database"}
      BY <1>0, <2>7 DEF GuardTask, StartPregame, ResolveTarget, Preflight, WakeUp, Goto, tasks
    <3> QED BY <1>e, <2>1, <3>1 DEF Evaluates
  <2> QED BY <1>2, <2>3, <2>4, <2>5, <2>6, <2>7 DEF TaskStep
<1> QED BY <1>1, <1>2

LEMMA EarlyKept ==
    WindowsWithinTheDay /\ OverBeforeTheNextWindow /\ Inv /\ EarlyInv /\ [Next]_vars => EarlyInv'
<1> SUFFICES ASSUME WindowsWithinTheDay, OverBeforeTheNextWindow, Inv, EarlyInv, [Next]_vars
             PROVE  EarlyInv'
  OBVIOUS
<1>0. SlateInv' /\ DatesInv' /\ Shaped
  BY SlatesKept, DatesKept DEF EarlyInv, SlateInv
<1>1. ASSUME NEW p \in Processes, Step(p), NEW q \in Tasks PROVE Evaluates(q)'
  <2>0. q \in Processes /\ q \in Ingestions /\ Evaluates(q)
    BY DEF Processes, Ingestions, EarlyInv
  <2>1. RunsKept /\ Apart(p)
    BY <1>0, <1>1, StepFrame
  <2>2. CASE q # p
    <3>1. /\ pc'[q] = pc[q] /\ exit'[q] = exit[q] /\ early'[q] = early[q] /\ target'[q] = target[q]
      BY <2>0, <2>1, <2>2 DEF Apart
    <3>2. HasCaptured(q) => HasCaptured(q)'
      BY <2>1, <3>1, CapturedStays
    <3>3. early[q] # 0 => /\ early[q] \in DOMAIN runs' /\ runs'[early[q]].by = q
                          /\ runs'[early[q]].status = "completed"
      BY <2>0, <2>1 DEF Evaluates, RunsKept
    <3> QED BY <2>0, <3>1, <3>2, <3>3 DEF Evaluates
  <2>3. CASE q = p
    <3>1. TaskStep(p) \/ Crash(p)
      BY <1>1, <2>3, CaptureAssumption DEF Step
    <3> QED BY <2>3, <3>1, OwnEvaluationKept
  <2> QED BY <2>2, <2>3
<1>2. ASSUME Tick \/ UNCHANGED vars, NEW q \in Tasks PROVE Evaluates(q)'
  <2>1. UNCHANGED <<pc, exit, early, target, runs>>
    BY <1>2 DEF Tick, vars, tasks, store
  <2> QED BY <2>1 DEF EarlyInv, Evaluates, HasCaptured
<1> QED BY <1>0, <1>1, <1>2, NextIsStep DEF EarlyInv

(* Early Entry evaluates the odds its own task has captured for its slate: *)
(* it goes on only after an exit code of zero, which a run of that target  *)
(* has left completed, and the index leaves no other completed late-night  *)
(* run of the target to be the latest (the task wrappers,                  *)
(* analysis/moneyline_early_entry_service.py).                             *)
THEOREM EarlyEntryUsesItsOwnCapture ==
    ASSUME WindowsWithinTheDay, OverBeforeTheNextWindow
    PROVE  Spec => []EarlyEntryOfOwnSnapshot
<1>1. EarlyInv => EarlyEntryOfOwnSnapshot
  BY DEF EarlyInv, SlateInv, Slated, Evaluates, EarlyEntryOfOwnSnapshot
<1>2. Init => EarlyInv
  BY InitEarly
<1>3. Inv /\ EarlyInv /\ [Next]_vars => EarlyInv'
  BY EarlyKept
<1> QED BY <1>1, <1>2, <1>3, Invariant, PTL DEF Spec
=============================================================================
