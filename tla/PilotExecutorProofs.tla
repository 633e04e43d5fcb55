------------------------ MODULE PilotExecutorProofs ------------------------
(***************************************************************************)
(* Proofs about the historical-market pilot for any number of executors,   *)
(* recoveries, targets, I/O errors and crashes.                            *)
(***************************************************************************)
EXTENDS PilotExecutor, TLAPS

-----------------------------------------------------------------------------
(* What a durable write does, whether or not it fails *)

(* An append moves its process on, or to its error step, and writes the     *)
(* line or not; the torn ledger is never written to.                        *)
LEMMA AppendEffect ==
    ASSUME PilotTypeOK, NEW p \in Procs, NEW a \in Attempts,
           NEW s \in AttemptStates, NEW r \in BOOLEAN,
           NEW n, NEW e, Append(p, a, s, r, n, e)
    PROVE  /\ ledger' \in [Attempts -> AttemptStates \cup {"none"}]
           /\ retryOK' \in [Attempts -> BOOLEAN]
           /\ last' \in Attempts
           /\ ledgerDir' \in BOOLEAN /\ torn' \in BOOLEAN
           /\ faults' \in 0 .. MaxFaults
           /\ ledgerDir => ledgerDir'
           /\ ledger' # ledger => ~torn /\ ledgerDir'
           /\ ledger' \in {ledger, [ledger EXCEPT ![a] = s]}
           /\ \/ /\ pc' = [pc EXCEPT ![p] = n]
                 /\ ledger' = [ledger EXCEPT ![a] = s]
                 /\ ~torn
              \/ pc' = [pc EXCEPT ![p] = e]
<1> USE DEF PilotTypeOK, Goto, ledgerVars
<1>1. CASE /\ ~torn
           /\ WriteEntry(a, s, r)
           /\ Goto(p, n)
           /\ UNCHANGED <<torn, faults>>
  BY <1>1 DEF WriteEntry
<1>2. CASE /\ torn
           /\ Goto(p, e)
           /\ UNCHANGED <<ledgerVars, faults>>
  BY <1>2
<1>3. CASE /\ ~torn
           /\ faults < MaxFaults
           /\ faults' = faults + 1
           /\ Goto(p, e)
           /\ \/ /\ ledgerDir' \in {ledgerDir, TRUE}
                 /\ UNCHANGED <<ledger, retryOK, last, torn>>
              \/ /\ ledgerDir' = TRUE
                 /\ torn' = TRUE
                 /\ UNCHANGED <<ledger, retryOK, last>>
              \/ /\ WriteEntry(a, s, r)
                 /\ UNCHANGED torn
  <2>1. faults' \in 0 .. MaxFaults
    BY <1>3, PilotAssumption
  <2>2. CASE ledgerDir' \in {ledgerDir, TRUE} /\ UNCHANGED <<ledger, retryOK, last, torn>>
    <3>1. ledgerDir' \in BOOLEAN /\ (ledgerDir => ledgerDir')
      BY <2>2, Zenon
    <3> QED BY <1>3, <2>1, <2>2, <3>1
  <2>3. CASE ledgerDir' = TRUE /\ torn' = TRUE /\ UNCHANGED <<ledger, retryOK, last>>
    BY <1>3, <2>1, <2>3
  <2>4. CASE WriteEntry(a, s, r) /\ UNCHANGED torn
    BY <1>3, <2>1, <2>4 DEF WriteEntry
  <2> QED BY <1>3, <2>2, <2>3, <2>4
<1> QED BY <1>1, <1>2, <1>3 DEF Append

(* An exclusive write adds at most its own path, never one already there,   *)
(* and goes on only when the artifact is complete.                          *)
LEMMA CreateEffect ==
    ASSUME PilotTypeOK, NEW p \in Procs, NEW f \in Files,
           NEW n, NEW e, Create(p, f, n, e)
    PROVE  /\ files' \subseteq Files
           /\ damaged' \subseteq files'
           /\ faults' \in 0 .. MaxFaults
           /\ files \subseteq files'
           /\ files' \subseteq files \cup {f}
           /\ f \in files => files' = files
           /\ \/ /\ pc' = [pc EXCEPT ![p] = n]
                 /\ f \notin files
                 /\ f \in files'
              \/ pc' = [pc EXCEPT ![p] = e]
  BY PilotAssumption DEF Create, PilotTypeOK, Goto, fileVars

(* The same for an artifact of an attempt.                                  *)
LEMMA CreateEvidenceEffect ==
    ASSUME PilotTypeOK, NEW p \in Procs, NEW v \in Evidence,
           NEW n, NEW e, CreateEvidence(p, v, n, e)
    PROVE  /\ evidence' \subseteq Evidence
           /\ faults' \in 0 .. MaxFaults
           /\ evidence \subseteq evidence'
           /\ evidence' \subseteq evidence \cup {v}
           /\ \/ /\ pc' = [pc EXCEPT ![p] = n]
                 /\ v \in evidence'
              \/ pc' = [pc EXCEPT ![p] = e]
  BY PilotAssumption DEF CreateEvidence, PilotTypeOK, Goto

(* A manifest is written over nothing.                                      *)
LEMMA CreateManifestEffect ==
    ASSUME PilotTypeOK, NEW p \in Procs, NEW n, NEW e, CreateManifest(p, n, e)
    PROVE  /\ manifest' \in {"none", "partial", "complete"}
           /\ faults' \in 0 .. MaxFaults
           /\ manifest # "none" => UNCHANGED sealVars
           /\ \/ pc' = [pc EXCEPT ![p] = n]
              \/ pc' = [pc EXCEPT ![p] = e]
  BY PilotAssumption DEF CreateManifest, PilotTypeOK, Goto, sealVars

(* The parts of PilotTypeOK a step of a process, or an append, disturbs.    *)
ProcessesTyped ==
    /\ pc \in [Procs -> ExecutorPC \cup RecovererPC]
    /\ \A p \in Executors : pc[p] \in ExecutorPC
    /\ \A r \in Recoverers : pc[r] \in RecovererPC

LedgerTyped ==
    /\ ledger \in [Attempts -> AttemptStates \cup {"none"}]
    /\ retryOK \in [Attempts -> BOOLEAN]
    /\ last \in Attempts
    /\ ledgerDir \in BOOLEAN
    /\ torn \in BOOLEAN
    /\ faults \in 0 .. MaxFaults

(* A process stays within the steps of its own program.                     *)
LEMMA ProcessTypes ==
    ASSUME PilotTypeOK, NEW p \in Procs, NEW l, pc' = [pc EXCEPT ![p] = l],
           \/ p \in Executors /\ l \in ExecutorPC
           \/ p \in Recoverers /\ l \in RecovererPC
    PROVE  ProcessesTyped' /\ pc'[p] = l
  BY PilotAssumption DEF PilotTypeOK, ProcessesTyped, Procs

(* The attempt in hand and the one it may retry are attempts.               *)
LEMMA AttemptTypes ==
    ASSUME PilotTypeOK, NEW p \in Executors
    PROVE  Attempt(p) \in Attempts /\ Predecessor(p) \in Attempts
  BY DEF PilotTypeOK, Attempt, Predecessor, Attempts, Kind, Kinds

-----------------------------------------------------------------------------
(* Who may act *)

(* The lease excludes everyone else from the locked part.                  *)
LEMMA OthersWait ==
    ASSUME PilotInv, NEW p \in Procs, pc[p] \in LockedPC
    PROVE  /\ lock = p
           /\ \A q \in Procs : q # p => pc[q] \notin LockedPC
  BY DEF PilotInv, LeaseInv

(* What a step of the executor that holds the lease leaves alone.          *)
LEMMA HolderStep ==
    ASSUME PilotInv, NEW p \in Executors, NEW l,
           pc[p] \in AttemptPC \cup ClosingPC,
           l \in AttemptPC \cup ClosingPC \cup LeavingPC,
           pc' = [pc EXCEPT ![p] = l],
           lock' = lock, files \subseteq files',
           \A q \in Executors : q # p => tgt'[q] = tgt[q] /\ num'[q] = num[q]
    PROVE  /\ LeaseInv'
           /\ ClaimInv'
           /\ \A r \in Recoverers : RecoveryFacts(r)'
           /\ \A q \in Executors : q # p => AttemptFacts(q)' /\ ClosingFacts(q)'
<1>p. p \in Procs
  BY DEF Procs
<1>1. pc[p] \in LockedPC /\ l \in LockedPC
  BY DEF LockedPC, RecoveryLocked
<1>2. lock = p /\ \A q \in Procs : q # p => pc[q] \notin LockedPC
  BY <1>p, <1>1, OthersWait
<1>3. LeaseInv'
  BY <1>1, <1>2 DEF PilotInv, PilotTypeOK, LeaseInv
<1>4. pc[p] \in OwnerPC /\ l \in OwnerPC
  BY DEF OwnerPC
<1>5. /\ "claim" \in files
      /\ \A q \in Executors : q # p => pc[q] \notin OwnerPC
  BY <1>4 DEF PilotInv, ClaimInv
<1>6. ClaimInv'
  <2>1. l \notin BeforeClaim \cup BeforeLease
    BY DEF BeforeClaim, BeforeLease, AttemptPC, ClosingPC, LeavingPC
  <2>2. \A q \in Executors : q # p => pc'[q] \notin OwnerPC
    BY <1>5
  <2>3. BeforeLease \subseteq OwnerPC
    BY DEF OwnerPC
  <2>4. pc'[p] = l
    BY <1>p DEF PilotInv, PilotTypeOK
  <2>5. \A q \in Executors : q # p => pc'[q] = pc[q]
    BY <1>p DEF PilotInv, PilotTypeOK
  <2>6. \A q \in Executors :
            pc'[q] \in BeforeClaim \cup BeforeLease => tgt'[q] = 1 /\ num'[q] = 1
    BY <2>1, <2>4, <2>5 DEF PilotInv, ClaimInv
  <2> QED BY <1>4, <1>5, <2>1, <2>2, <2>3, <2>4, <2>6 DEF ClaimInv
<1>7. ASSUME NEW r \in Recoverers
      PROVE  RecoveryFacts(r)'
  <2>1. r \in Procs /\ r # p
    BY PilotAssumption DEF Procs
  <2>2. pc'[r] \notin LockedPC
    BY <1>2, <2>1
  <2>3. RecoveryPC \subseteq LockedPC
        /\ {"rrecord", "rreport", "rmanifest"} \subseteq LockedPC
    BY DEF RecoveryPC, LockedPC, RecoveryLocked
  <2> QED BY <2>2, <2>3 DEF RecoveryFacts
<1>8. ASSUME NEW q \in Executors, q # p
      PROVE  AttemptFacts(q)' /\ ClosingFacts(q)'
  <2>1. pc'[q] \notin OwnerPC
    BY <1>5, <1>8
  <2>2. AttemptPC \subseteq OwnerPC /\ ClosingPC \subseteq OwnerPC
        /\ {"report", "premanifest", "accept", "leave", "done"} \subseteq OwnerPC
    BY DEF OwnerPC, ClosingPC, LeavingPC
  <2> QED BY <2>1, <2>2 DEF AttemptFacts, ClosingFacts
<1> QED BY <1>3, <1>6, <1>7, <1>8

-----------------------------------------------------------------------------
(* The ledger *)

(* A line that may be appended: the reader accepts it and it is true.      *)
Legal(a, s) ==
    /\ <<ledger[a], s>> \in Transitions
    /\ s = "PROVABLE_PRE_SEND_FAILURE" => sends[a] = 0
    /\ s = "RESPONSE_CAPTURED" => sends[a] = 1 /\ <<"response", a>> \in evidence
    /\ s = "RESERVED" /\ a[2] = "RETRY" =>
          ledger[<<a[1], "PRIMARY">>] \in
              {"PROVABLE_PRE_SEND_FAILURE", "RESPONSE_CAPTURED"}

(* A legal line keeps the ledger truthful.                                  *)
LEMMA LegalWrite ==
    ASSUME PilotInv, NEW a \in Attempts, NEW s \in AttemptStates, Legal(a, s),
           ledger' = [ledger EXCEPT ![a] = s], ledgerDir',
           UNCHANGED <<sends, evidence>>
    PROVE  LedgerInv'
<1>1. LedgerTellsTheTruth'
  <2> SUFFICES ASSUME NEW b \in Attempts
               PROVE  /\ sends[b] > 0 =>
                          /\ ledger'[b] \notin {"none", "PROVABLE_PRE_SEND_FAILURE"}
                          /\ <<"request", b>> \in evidence
                      /\ ledger'[b] = "RESPONSE_CAPTURED" =>
                          /\ sends[b] = 1
                          /\ <<"response", b>> \in evidence
    BY DEF LedgerTellsTheTruth
  <2>1. CASE b = a
    BY <2>1 DEF PilotInv, PilotTypeOK, LedgerInv, LedgerTellsTheTruth, Legal,
                AttemptStates
  <2>2. CASE b # a
    BY <2>2 DEF PilotInv, PilotTypeOK, LedgerInv, LedgerTellsTheTruth
  <2> QED BY <2>1, <2>2
<1>2. ASSUME NEW t \in Targets, ledger'[<<t, "RETRY">>] # "none"
      PROVE  ledger'[<<t, "PRIMARY">>] \in {"PROVABLE_PRE_SEND_FAILURE",
                                            "RESPONSE_CAPTURED", "TERMINAL_STOP"}
  <2> DEFINE first == <<t, "PRIMARY">>
             second == <<t, "RETRY">>
  <2>1. first \in Attempts /\ second \in Attempts /\ first # second
    BY DEF Attempts, Kinds
  <2>2. ledger[second] # "none" =>
            ledger[first] \in {"PROVABLE_PRE_SEND_FAILURE",
                               "RESPONSE_CAPTURED", "TERMINAL_STOP"}
    BY DEF PilotInv, LedgerInv
  <2>3. CASE a = second
    <3>1. second[1] = t /\ second[2] = "RETRY"
      OBVIOUS
    <3>2. ledger[second] = "none" => s = "RESERVED"
      BY <2>3 DEF Legal, Transitions
    <3> QED BY <2>1, <2>2, <2>3, <3>1, <3>2 DEF PilotInv, PilotTypeOK, Legal
  <2>4. CASE a = first
    <3>1. ledger[second] # "none"
      BY <1>2, <2>1, <2>4 DEF PilotInv, PilotTypeOK
    <3>2. s = "TERMINAL_STOP"
      BY <2>2, <2>4, <3>1 DEF Legal, Transitions
    <3> QED BY <2>1, <2>4, <3>2 DEF PilotInv, PilotTypeOK
  <2>5. CASE a # first /\ a # second
    BY <1>2, <2>1, <2>2, <2>5 DEF PilotInv, PilotTypeOK
  <2> QED BY <2>3, <2>4, <2>5
<1> QED BY <1>1, <1>2 DEF LedgerInv

(* The lines the executor appends are legal.                               *)
LEMMA AppendsAreLegal ==
    ASSUME PilotInv, NEW p \in Executors
    PROVE  /\ Reserve(p) /\ ~torn => Legal(Attempt(p), "RESERVED")
           /\ pc[p] = "presend" => Legal(Attempt(p), "PROVABLE_PRE_SEND_FAILURE")
           /\ pc[p] = "sent" => Legal(Attempt(p), "SENT")
           /\ pc[p] = "record" => Legal(Attempt(p), "RESPONSE_CAPTURED")
           /\ pc[p] = "unknown" => Legal(Attempt(p), "SENT_UNKNOWN")
           /\ pc[p] = "terminal" => Legal(Attempt(p), "TERMINAL_STOP")
<1>1. Attempt(p) \in Attempts
  BY AttemptTypes DEF PilotInv
<1>2. Reserve(p) /\ ~torn => Legal(Attempt(p), "RESERVED")
  <2> SUFFICES ASSUME CanReserve(p)
               PROVE  Legal(Attempt(p), "RESERVED")
    BY DEF Reserve
  <2>1. ledger[Attempt(p)] = "none"
    BY <1>1 DEF CanReserve, Reserved
  <2>2. Attempt(p)[2] = "RETRY" =>
            ledger[<<Attempt(p)[1], "PRIMARY">>] \in
                {"PROVABLE_PRE_SEND_FAILURE", "RESPONSE_CAPTURED"}
    BY DEF CanReserve, Predecessor, Attempt
  <2> QED BY <2>1, <2>2 DEF Legal, Transitions
<1>3. pc[p] \in {"presend", "sent", "record", "unknown", "terminal"} =>
          AttemptInHand(p)
  BY DEF PilotInv, AttemptFacts, AttemptPC
<1> QED BY <1>2, <1>3 DEF AttemptInHand, Legal, Transitions, OpenStates

-----------------------------------------------------------------------------
(* One attempt *)

(* What is left to show for a step of _execute_target.                     *)
LEMMA AttemptStep ==
    ASSUME PilotInv, NEW p \in Executors, NEW l,
           pc[p] \in AttemptPC,
           l \in AttemptPC \cup {"report", "raising"},
           pc' = [pc EXCEPT ![p] = l],
           UNCHANGED <<lock, files, manifest>>,
           \A q \in Executors : q # p => tgt'[q] = tgt[q] /\ num'[q] = num[q],
           PilotTypeOK', LedgerInv', AttemptFacts(p)',
           l = "report" => /\ OpenAttempts' = {}
                           /\ failed'[p] \/ \A t \in Targets : Captured(t)'
    PROVE  PilotInv'
<1>1. l \in AttemptPC \cup ClosingPC \cup LeavingPC
  BY DEF ClosingPC, LeavingPC
<1>2. /\ LeaseInv'
      /\ ClaimInv'
      /\ \A r \in Recoverers : RecoveryFacts(r)'
      /\ \A q \in Executors : q # p => AttemptFacts(q)' /\ ClosingFacts(q)'
  BY <1>1, HolderStep
<1>3. manifest' = "none"
  BY DEF PilotInv, AttemptFacts
<1>4. pc'[p] = l
  BY DEF PilotInv, PilotTypeOK, Procs
<1>5. l \in ClosingPC \cup {"leave", "done", "premanifest"} => l = "report"
  BY DEF ClosingPC, AttemptPC
<1>6. ClosingFacts(p)'
  BY <1>3, <1>4, <1>5 DEF ClosingFacts, ClosingPC
<1>7. SealedIsClosed'
  BY <1>3 DEF SealedIsClosed
<1> QED BY <1>2, <1>6, <1>7 DEF PilotInv

(* Steps that write nothing durable: gates, connection, clock.             *)
LEMMA QuietLedger ==
    ASSUME PilotInv, UNCHANGED <<ledger, ledgerDir, sends, evidence>>
    PROVE  /\ LedgerInv'
           /\ OpenAttempts' = OpenAttempts
           /\ \A t : Captured(t)' = Captured(t)
  BY DEF PilotInv, LedgerInv, LedgerTellsTheTruth, OpenAttempts, Captured

(* The gates, the connection, the answer and the wait write nothing:        *)
(* about the calls of assert_authorization_unchanged and of the             *)
(* transport.                                                               *)
LEMMA GatesKeep ==
    ASSUME PilotInv, NEW p \in Executors,
           \/ GateBeforeBoundary(p) \/ Prepare(p) \/ GateAfterPrepare(p)
           \/ SendFailsLocally(p) \/ PreSendAuthorizationChanged(p)
           \/ Receive(p) \/ SleepAndRetry(p)
    PROVE  PilotInv'
<1> USE DEF Goto, locals, ledgerVars, fileVars, sealVars, envVars
<1> DEFINE From == {"gate", "prepare", "regate", "send", "presend", "receive",
                    "sleep"}
           To == {"prepare", "terminal", "regate", "presend", "unknown", "send",
                  "capture", "reserve"}
<1>1. pc[p] \in From /\ \E l \in To : pc' = [pc EXCEPT ![p] = l]
  BY DEF GateBeforeBoundary, Prepare, GateAfterPrepare, SendFailsLocally,
         PreSendAuthorizationChanged, Receive, SleepAndRetry
<1>2. PICK l \in To : pc' = [pc EXCEPT ![p] = l]
  BY <1>1
<1>3. From \subseteq AttemptPC /\ To \subseteq AttemptPC
  BY DEF AttemptPC
<1>4. ProcessesTyped' /\ pc'[p] = l
  BY <1>2, <1>3, ProcessTypes DEF PilotInv, ExecutorPC, Procs
<1>5. UNCHANGED <<ledgerVars, evidence, sends, lock, fileVars, sealVars, tgt>>
  BY DEF GateBeforeBoundary, Prepare, GateAfterPrepare, SendFailsLocally,
         PreSendAuthorizationChanged, Receive, SleepAndRetry
<1>6. PilotTypeOK'
  BY <1>4, <1>5 DEF PilotInv, PilotTypeOK, ProcessesTyped, GateBeforeBoundary, Prepare,
     GateAfterPrepare, SendFailsLocally, PreSendAuthorizationChanged,
     Receive, SleepAndRetry
<1>7. LedgerInv' /\ OpenAttempts' = OpenAttempts
      /\ \A t : Captured(t)' = Captured(t)
  BY <1>5, QuietLedger
<1>8. AttemptFacts(p)'
  <2>1. /\ manifest' = "none"
        /\ AttemptInHand(p)
        /\ \A a \in OpenAttempts : a = Attempt(p)
        /\ num[p] = 2 => ledger[Predecessor(p)] \in
                             {"PROVABLE_PRE_SEND_FAILURE", "RESPONSE_CAPTURED"}
        /\ \A t \in 1 .. tgt'[p] - 1 : Captured(t)'
    BY <1>1, <1>3, <1>5, <1>7 DEF PilotInv, PilotTypeOK, AttemptFacts
  <2>2. CASE SleepAndRetry(p)
    <3>1. num[p] = 1 /\ ledger[Attempt(p)] = "RESPONSE_CAPTURED"
      BY <2>1, <2>2 DEF AttemptInHand, SleepAndRetry
    <3>2. OpenAttempts = {}
      BY <2>1, <3>1 DEF OpenAttempts, OpenStates
    <3>3. ledger[Predecessor(p)] = "RESPONSE_CAPTURED"
      BY <3>1 DEF Attempt, Predecessor, Kind
    <3>4. /\ Predecessor(p)' = Predecessor(p)
          /\ Attempt(p)' \in Attempts
          /\ l = "terminal" => Attempt(p)' = Attempt(p)
          /\ l \in {"terminal", "reserve"}
      BY <1>2, <1>4, <1>5, <1>6, <2>2, AttemptTypes
      DEF SleepAndRetry, Predecessor, Attempt, Attempts, Kind, Kinds, PilotTypeOK
    <3>5. AttemptInHand(p)'
      BY <1>4, <1>5, <3>1, <3>2, <3>4 DEF AttemptInHand, OpenAttempts
    <3> QED BY <1>4, <1>5, <1>7, <2>1, <3>2, <3>3, <3>4, <3>5 DEF AttemptFacts
  <2>3. CASE ~SleepAndRetry(p)
    <3>1. Attempt(p)' = Attempt(p) /\ num' = num
      BY <1>5, <2>3 DEF Attempt, GateBeforeBoundary, Prepare, GateAfterPrepare, SendFailsLocally,
         PreSendAuthorizationChanged, Receive
    <3>2. \/ pc[p] \in {"gate", "prepare", "regate", "send"}
             /\ l \in {"prepare", "regate", "send", "presend", "unknown", "terminal"}
          \/ pc[p] = "presend" /\ l = "unknown"
          \/ pc[p] = "receive" /\ l \in {"capture", "unknown"}
      BY <1>4, <2>3 DEF GateBeforeBoundary, Prepare, GateAfterPrepare,
         SendFailsLocally, PreSendAuthorizationChanged, Receive, PilotInv,
         PilotTypeOK, Procs
    <3>3. AttemptInHand(p)'
      BY <1>4, <1>5, <2>1, <3>1, <3>2 DEF AttemptInHand, OpenStates
    <3> QED BY <2>1, <3>1, <3>2, <3>3, <1>5, <1>7 DEF AttemptFacts, Predecessor
  <2> QED BY <2>2, <2>3
<1>9. \A q \in Executors : q # p => num'[q] = num[q]
  BY DEF GateBeforeBoundary, Prepare, GateAfterPrepare, SendFailsLocally,
         PreSendAuthorizationChanged, Receive, SleepAndRetry, PilotInv, PilotTypeOK
<1> QED BY <1>1, <1>2, <1>3, <1>5, <1>6, <1>7, <1>8, <1>9, AttemptStep

(* A request counted as sent: its attempt is reserved and not yet sent.     *)
LEMMA SendsKeep ==
    ASSUME PilotInv, NEW p \in Executors, SendSucceeds(p) \/ EndHeadersFails(p)
    PROVE  PilotInv'
<1> USE DEF Goto, locals, ledgerVars, fileVars, sealVars, envVars
<1>1. /\ pc[p] = "send" /\ pc[p] \in AttemptPC
      /\ \E l \in {"sent", "unknown"} : pc' = [pc EXCEPT ![p] = l]
  BY DEF SendSucceeds, EndHeadersFails, AttemptPC
<1>2. PICK l \in {"sent", "unknown"} : pc' = [pc EXCEPT ![p] = l]
  BY <1>1
<1>3. l \in AttemptPC /\ l \in ExecutorPC
  BY DEF AttemptPC, ExecutorPC
<1>4. ProcessesTyped' /\ pc'[p] = l
  BY <1>2, <1>3, ProcessTypes DEF PilotInv, Procs
<1>5. UNCHANGED <<ledgerVars, evidence, lock, fileVars, sealVars, tgt, num>>
  BY DEF SendSucceeds, EndHeadersFails
<1>6. /\ Attempt(p) \in Attempts
      /\ sends' = [sends EXCEPT ![Attempt(p)] = @ + 1]
  BY AttemptTypes DEF PilotInv, SendSucceeds, EndHeadersFails, CountSend
<1>7. /\ manifest = "none"
      /\ ledger[Attempt(p)] = "RESERVED"
      /\ sends[Attempt(p)] = 0
      /\ <<"request", Attempt(p)>> \in evidence
      /\ \A a \in OpenAttempts : a = Attempt(p)
      /\ num[p] = 2 => ledger[Predecessor(p)] \in
                           {"PROVABLE_PRE_SEND_FAILURE", "RESPONSE_CAPTURED"}
      /\ \A t \in 1 .. tgt[p] - 1 : Captured(t)
  BY <1>1 DEF PilotInv, AttemptFacts, AttemptInHand
<1>8. /\ sends' \in [Attempts -> 0 .. 1]
      /\ sends'[Attempt(p)] = 1
      /\ \A a \in Attempts : a # Attempt(p) => sends'[a] = sends[a]
  BY <1>6, <1>7 DEF PilotInv, PilotTypeOK
<1>9. PilotTypeOK'
  BY <1>4, <1>5, <1>8 DEF PilotInv, PilotTypeOK, ProcessesTyped, SendSucceeds, EndHeadersFails
<1>10. LedgerInv'
  BY <1>5, <1>7, <1>8 DEF PilotInv, LedgerInv, LedgerTellsTheTruth
<1>11. AttemptFacts(p)'
  <2>1. Attempt(p)' = Attempt(p) /\ Predecessor(p)' = Predecessor(p)
        /\ OpenAttempts' = OpenAttempts /\ \A t : Captured(t)' = Captured(t)
    BY <1>5 DEF Attempt, Predecessor, OpenAttempts, Captured
  <2>2. AttemptInHand(p)'
    BY <1>4, <1>5, <1>7, <1>8, <2>1 DEF AttemptInHand, OpenStates
  <2> QED BY <1>5, <1>7, <2>1, <2>2 DEF AttemptFacts
<1> QED BY <1>1, <1>2, <1>3, <1>5, <1>9, <1>10, <1>11, AttemptStep

(* A line for the attempt in hand leaves the targets behind it, and the     *)
(* first attempt of a retry, as they are.                                   *)
LEMMA LineInHand ==
    ASSUME PilotInv, NEW p \in Executors, pc[p] \in AttemptPC,
           NEW a \in Attempts, NEW s \in AttemptStates,
           a = Attempt(p) \/ ledger[a] \in OpenStates,
           ledger' \in {ledger, [ledger EXCEPT ![a] = s]}
    PROVE  /\ num[p] = 2 => ledger'[Predecessor(p)] \in
                                {"PROVABLE_PRE_SEND_FAILURE", "RESPONSE_CAPTURED"}
           /\ \A t \in 1 .. tgt[p] - 1 : \E k \in Kinds :
                  ledger'[<<t, k>>] = "RESPONSE_CAPTURED"
<1>1. /\ num[p] = 2 => ledger[Predecessor(p)] \in
                           {"PROVABLE_PRE_SEND_FAILURE", "RESPONSE_CAPTURED"}
      /\ \A t \in 1 .. tgt[p] - 1 : Captured(t)
  BY DEF PilotInv, AttemptFacts
<1>2. num[p] = 2 => Predecessor(p) # a
  BY <1>1 DEF Predecessor, Attempt, Kind, OpenStates
<1>3. ASSUME NEW t \in 1 .. tgt[p] - 1
      PROVE  \E k \in Kinds : ledger'[<<t, k>>] = "RESPONSE_CAPTURED"
  <2>1. PICK k \in Kinds : ledger[<<t, k>>] = "RESPONSE_CAPTURED"
    BY <1>1 DEF Captured
  <2>2. tgt[p] \in Targets /\ t \in Targets /\ t # tgt[p]
    BY PilotAssumption DEF PilotInv, PilotTypeOK, Targets
  <2>3. <<t, k>> \in Attempts /\ <<t, k>> # a
    BY <2>1, <2>2 DEF Attempts, Attempt, OpenStates
  <2> QED BY <2>1, <2>3 DEF PilotInv, PilotTypeOK
<1> QED BY <1>1, <1>2, <1>3, AttemptTypes DEF PilotInv, PilotTypeOK

(* What is left to show for an append by the executor in hand.              *)
LEMMA AppendStep ==
    ASSUME PilotInv, NEW p \in Executors,
           pc[p] \in AttemptPC \ {"unwind", "handler"},
           NEW s \in AttemptStates, NEW r \in BOOLEAN,
           NEW n \in AttemptPC \cup {"report"},
           ~torn => Legal(Attempt(p), s),
           Append(p, Attempt(p), s, r, n, "unwind"),
           UNCHANGED <<tgt, evidence, sends>>
    PROVE  /\ ProcessesTyped' /\ LedgerTyped'
           /\ LedgerInv'
           /\ \A t \in 1 .. tgt[p] - 1 : Captured(t)'
           /\ num[p] = 2 => ledger'[Predecessor(p)] \in
                                {"PROVABLE_PRE_SEND_FAILURE", "RESPONSE_CAPTURED"}
           /\ \A b \in OpenAttempts' : b = Attempt(p)
           /\ \/ /\ pc' = [pc EXCEPT ![p] = n]
                 /\ pc'[p] = n
                 /\ ledger'[Attempt(p)] = s
                 /\ ~torn
              \/ /\ pc' = [pc EXCEPT ![p] = "unwind"]
                 /\ pc'[p] = "unwind"
<1>1. p \in Procs /\ Attempt(p) \in Attempts /\ PilotTypeOK
  BY AttemptTypes DEF PilotInv, Procs
<1>2. /\ ledger' \in [Attempts -> AttemptStates \cup {"none"}]
      /\ ledgerDir' \in BOOLEAN
      /\ ledgerDir => ledgerDir'
      /\ ledger' # ledger => ~torn /\ ledgerDir'
      /\ ledger' \in {ledger, [ledger EXCEPT ![Attempt(p)] = s]}
      /\ \/ /\ pc' = [pc EXCEPT ![p] = n]
            /\ ledger' = [ledger EXCEPT ![Attempt(p)] = s]
            /\ ~torn
         \/ pc' = [pc EXCEPT ![p] = "unwind"]
  BY <1>1, AppendEffect
<1>3. LedgerInv'
  <2>1. CASE ledger' = ledger
    BY <1>2, <2>1 DEF PilotInv, LedgerInv, LedgerTellsTheTruth
  <2>2. CASE ledger' # ledger
    BY <1>1, <1>2, <2>2, LegalWrite
  <2> QED BY <2>1, <2>2
<1>4. /\ num[p] = 2 => ledger'[Predecessor(p)] \in
                           {"PROVABLE_PRE_SEND_FAILURE", "RESPONSE_CAPTURED"}
      /\ \A t \in 1 .. tgt[p] - 1 : Captured(t)'
  BY <1>1, <1>2, LineInHand DEF Captured
<1>5. \A b \in OpenAttempts' : b = Attempt(p)
  <2>1. \A b \in OpenAttempts : b = Attempt(p)
    BY DEF PilotInv, AttemptFacts
  <2> QED BY <1>1, <1>2, <2>1 DEF OpenAttempts, PilotTypeOK
<1>6. /\ pc' = [pc EXCEPT ![p] = n] => pc'[p] = n
      /\ pc' = [pc EXCEPT ![p] = "unwind"] => pc'[p] = "unwind"
  BY <1>1 DEF PilotTypeOK
<1>7. ledger' = [ledger EXCEPT ![Attempt(p)] = s] => ledger'[Attempt(p)] = s
  BY <1>1 DEF PilotTypeOK
<1>8. LedgerTyped'
  BY <1>1, AppendEffect DEF LedgerTyped
<1>9. ProcessesTyped'
  <2>1. n \in ExecutorPC /\ "unwind" \in ExecutorPC
    BY DEF ExecutorPC, AttemptPC, ClosingPC
  <2> QED BY <1>1, <1>2, <2>1, ProcessTypes DEF ProcessesTyped
<1> QED BY <1>2, <1>3, <1>4, <1>5, <1>6, <1>7, <1>8, <1>9

(* AttemptLedger.reserve keeps the invariant.                               *)
LEMMA ReserveKeeps ==
    ASSUME PilotInv, NEW p \in Executors, Reserve(p)
    PROVE  PilotInv'
<1> USE DEF locals, fileVars, sealVars, envVars
<1>1. pc[p] = "reserve" /\ pc[p] \in AttemptPC \ {"unwind", "handler"}
  BY DEF Reserve, AttemptPC
<1>2. /\ ProcessesTyped' /\ LedgerTyped' /\ LedgerInv'
      /\ \A t \in 1 .. tgt[p] - 1 : Captured(t)'
      /\ num[p] = 2 => ledger'[Predecessor(p)] \in
                           {"PROVABLE_PRE_SEND_FAILURE", "RESPONSE_CAPTURED"}
      /\ \A b \in OpenAttempts' : b = Attempt(p)
      /\ \/ /\ pc' = [pc EXCEPT ![p] = "request"]
            /\ pc'[p] = "request"
            /\ ledger'[Attempt(p)] = "RESERVED"
            /\ ~torn
         \/ /\ pc' = [pc EXCEPT ![p] = "unwind"]
            /\ pc'[p] = "unwind"
  BY <1>1, AppendsAreLegal, AppendStep DEF Reserve, AttemptStates, AttemptPC
<1>3. PilotTypeOK'
  BY <1>2 DEF PilotInv, PilotTypeOK, ProcessesTyped, LedgerTyped, Reserve
<1>4. AttemptFacts(p)'
  <2>1. Attempt(p)' = Attempt(p) /\ Predecessor(p)' = Predecessor(p)
        /\ UNCHANGED <<manifest, sends, tgt, num>>
    BY DEF Reserve, Attempt, Predecessor
  <2>2. manifest = "none"
    BY <1>1 DEF PilotInv, AttemptFacts
  <2>3. pc'[p] = "request" => sends[Attempt(p)] = 0
    <3> SUFFICES ASSUME pc'[p] = "request"
                 PROVE  sends[Attempt(p)] = 0
      OBVIOUS
    <3>1. Legal(Attempt(p), "RESERVED")
      BY <1>2, AppendsAreLegal
    <3>2. ledger[Attempt(p)] = "none"
      BY <3>1 DEF Legal, Transitions
    <3>3. Attempt(p) \in Attempts /\ ~(sends[Attempt(p)] > 0)
      BY <3>2, AttemptTypes DEF PilotInv, LedgerInv, LedgerTellsTheTruth
    <3>4. sends[Attempt(p)] \in 0 .. 1
      BY <3>3 DEF PilotInv, PilotTypeOK
    <3> QED BY <3>3, <3>4
  <2>4. AttemptInHand(p)'
    BY <1>2, <2>1, <2>3 DEF AttemptInHand
  <2> QED BY <1>2, <2>1, <2>2, <2>4 DEF AttemptFacts
<1> QED BY <1>1, <1>2, <1>3, <1>4, AttemptStep DEF Reserve, AttemptPC

(* The lines that end, or settle, the attempt in hand.                      *)
LEMMA StopsKeep ==
    ASSUME PilotInv, NEW p \in Executors,
           RecordSentUnknown(p) \/ RecordTerminalStop(p)
    PROVE  PilotInv'
<1> USE DEF locals, fileVars, sealVars, envVars
<1>1. PICK l \in {"unknown", "terminal"}, s \in {"SENT_UNKNOWN", "TERMINAL_STOP"} :
          /\ StopAttempt(p, l, s)
          /\ l = "unknown" <=> s = "SENT_UNKNOWN"
  BY DEF RecordSentUnknown, RecordTerminalStop
<1>2. pc[p] = l /\ pc[p] \in AttemptPC \ {"unwind", "handler"}
  BY <1>1 DEF StopAttempt, AttemptPC
<1>3. s \in AttemptStates /\ s \notin OpenStates
  BY DEF AttemptStates, OpenStates
<1>4. /\ ProcessesTyped' /\ LedgerTyped' /\ LedgerInv'
      /\ \A t \in 1 .. tgt[p] - 1 : Captured(t)'
      /\ num[p] = 2 => ledger'[Predecessor(p)] \in
                           {"PROVABLE_PRE_SEND_FAILURE", "RESPONSE_CAPTURED"}
      /\ \A b \in OpenAttempts' : b = Attempt(p)
      /\ \/ /\ pc' = [pc EXCEPT ![p] = "report"]
            /\ pc'[p] = "report"
            /\ ledger'[Attempt(p)] = s
         \/ /\ pc' = [pc EXCEPT ![p] = "unwind"]
            /\ pc'[p] = "unwind"
  <2>1. Legal(Attempt(p), s)
    BY <1>1, <1>2, AppendsAreLegal
  <2> QED BY <1>1, <1>2, <1>3, <2>1, AppendStep DEF StopAttempt
<1>5. failed' \in [Executors -> BOOLEAN]
  <2>1. PICK b \in BOOLEAN : failed' = [failed EXCEPT ![p] = b]
    BY <1>1, Zenon DEF StopAttempt, PilotInv, PilotTypeOK
  <2> QED BY <2>1 DEF PilotInv, PilotTypeOK
<1>6. PilotTypeOK'
  BY <1>1, <1>4, <1>5
  DEF PilotInv, PilotTypeOK, ProcessesTyped, LedgerTyped, StopAttempt
<1>7. AttemptFacts(p)'
  <2>1. Attempt(p)' = Attempt(p) /\ Predecessor(p)' = Predecessor(p)
        /\ UNCHANGED <<manifest, sends, tgt, num>>
    BY <1>1 DEF StopAttempt, Attempt, Predecessor
  <2>2. manifest = "none"
    BY <1>2 DEF PilotInv, AttemptFacts
  <2>3. pc'[p] = "unwind" => AttemptInHand(p)'
    BY DEF AttemptInHand
  <2>4. "report" \notin AttemptPC
    BY DEF AttemptPC
  <2> QED BY <1>4, <2>1, <2>2, <2>3, <2>4 DEF AttemptFacts
<1>8. pc'[p] = "report" => OpenAttempts' = {} /\ failed'[p]
  <2>1. pc'[p] = "report" => OpenAttempts' = {}
    BY <1>3, <1>4 DEF OpenAttempts
  <2>2. pc'[p] = "report" => failed'[p]
    BY <1>1 DEF StopAttempt, PilotInv, PilotTypeOK
  <2> QED BY <2>1, <2>2
<1>9. "unwind" \in AttemptPC
  BY DEF AttemptPC
<1> QED BY <1>1, <1>2, <1>4, <1>6, <1>7, <1>8, <1>9, AttemptStep DEF StopAttempt

(* The SENT line, after the request left, keeps the invariant.              *)
LEMMA RecordSentKeeps ==
    ASSUME PilotInv, NEW p \in Executors, RecordSent(p)
    PROVE  PilotInv'
<1> USE DEF locals, fileVars, sealVars, envVars
<1>1. pc[p] = "sent" /\ pc[p] \in AttemptPC \ {"unwind", "handler"}
  BY DEF RecordSent, AttemptPC
<1>2. /\ ProcessesTyped' /\ LedgerTyped' /\ LedgerInv'
      /\ \A t \in 1 .. tgt[p] - 1 : Captured(t)'
      /\ num[p] = 2 => ledger'[Predecessor(p)] \in
                           {"PROVABLE_PRE_SEND_FAILURE", "RESPONSE_CAPTURED"}
      /\ \A b \in OpenAttempts' : b = Attempt(p)
      /\ \/ /\ pc' = [pc EXCEPT ![p] = "receive"]
            /\ pc'[p] = "receive"
            /\ ledger'[Attempt(p)] = "SENT"
         \/ /\ pc' = [pc EXCEPT ![p] = "unwind"]
            /\ pc'[p] = "unwind"
  BY <1>1, AppendsAreLegal, AppendStep DEF RecordSent, AttemptStates, AttemptPC
<1>3. PilotTypeOK'
  BY <1>2 DEF PilotInv, PilotTypeOK, ProcessesTyped, LedgerTyped, RecordSent
<1>4. AttemptFacts(p)'
  <2>1. Attempt(p)' = Attempt(p) /\ Predecessor(p)' = Predecessor(p)
        /\ UNCHANGED <<manifest, sends, tgt, num>>
    BY DEF RecordSent, Attempt, Predecessor
  <2>2. manifest = "none" /\ sends[Attempt(p)] = 1
    BY <1>1 DEF PilotInv, AttemptFacts, AttemptInHand
  <2>3. AttemptInHand(p)'
    BY <1>2, <2>1, <2>2 DEF AttemptInHand
  <2> QED BY <1>2, <2>1, <2>2, <2>3 DEF AttemptFacts
<1> QED BY <1>1, <1>2, <1>3, <1>4, AttemptStep DEF RecordSent, AttemptPC

(* The RESPONSE_CAPTURED line keeps the invariant: the response is on       *)
(* disk by then.                                                            *)
LEMMA RecordResponseKeeps ==
    ASSUME PilotInv, NEW p \in Executors, RecordResponse(p)
    PROVE  PilotInv'
<1> USE DEF locals, fileVars, sealVars, envVars
<1>1. pc[p] = "record" /\ pc[p] \in AttemptPC \ {"unwind", "handler"}
  BY DEF RecordResponse, AttemptPC
<1>2. PICK n \in {"advance", "sleep", "terminal"}, r \in BOOLEAN :
          /\ Append(p, Attempt(p), "RESPONSE_CAPTURED", r, n, "unwind")
          /\ n = "sleep" => num[p] = 1
  <2>1. PICK fits \in BOOLEAN :
            LET retry == resp[p] = "transient" /\ num[p] = 1 /\ fits
            IN  Append(p, Attempt(p), "RESPONSE_CAPTURED", retry,
                       CASE resp[p] = "ok" -> "advance"
                         [] retry          -> "sleep"
                         [] OTHER          -> "terminal",
                       "unwind")
    BY DEF RecordResponse
  <2> DEFINE retry == resp[p] = "transient" /\ num[p] = 1 /\ fits
  <2>2. CASE resp[p] = "ok"
    BY <2>1, <2>2
  <2>3. CASE resp[p] # "ok" /\ retry
    BY <2>1, <2>3
  <2>4. CASE resp[p] # "ok" /\ ~retry
    BY <2>1, <2>4
  <2> QED BY <2>2, <2>3, <2>4
<1>3. /\ ProcessesTyped' /\ LedgerTyped' /\ LedgerInv'
      /\ \A t \in 1 .. tgt[p] - 1 : Captured(t)'
      /\ num[p] = 2 => ledger'[Predecessor(p)] \in
                           {"PROVABLE_PRE_SEND_FAILURE", "RESPONSE_CAPTURED"}
      /\ \A b \in OpenAttempts' : b = Attempt(p)
      /\ \/ /\ pc' = [pc EXCEPT ![p] = n]
            /\ pc'[p] = n
            /\ ledger'[Attempt(p)] = "RESPONSE_CAPTURED"
         \/ /\ pc' = [pc EXCEPT ![p] = "unwind"]
            /\ pc'[p] = "unwind"
  <2>1. n \in AttemptPC /\ "RESPONSE_CAPTURED" \in AttemptStates
    BY DEF AttemptPC, AttemptStates
  <2> QED BY <1>1, <1>2, <2>1, AppendsAreLegal, AppendStep DEF RecordResponse
<1>4. PilotTypeOK'
  BY <1>3 DEF PilotInv, PilotTypeOK, ProcessesTyped, LedgerTyped, RecordResponse
<1>5. AttemptFacts(p)'
  <2>1. Attempt(p)' = Attempt(p) /\ Predecessor(p)' = Predecessor(p)
        /\ UNCHANGED <<manifest, sends, tgt, num>>
    BY DEF RecordResponse, Attempt, Predecessor
  <2>2. manifest = "none"
    BY <1>1 DEF PilotInv, AttemptFacts
  <2>3. AttemptInHand(p)'
    BY <1>2, <1>3, <2>1 DEF AttemptInHand
  <2> QED BY <1>3, <2>1, <2>2, <2>3 DEF AttemptFacts
<1>6. n \in AttemptPC /\ "unwind" \in AttemptPC
  BY DEF AttemptPC
<1> QED BY <1>1, <1>3, <1>4, <1>5, <1>6, AttemptStep DEF RecordResponse, AttemptPC

(* The PROVABLE_PRE_SEND_FAILURE line keeps the invariant, and a retry      *)
(* starts from a first attempt that was never sent.                         *)
LEMMA RecordPreSendFailureKeeps ==
    ASSUME PilotInv, NEW p \in Executors, RecordPreSendFailure(p)
    PROVE  PilotInv'
<1> USE DEF locals, fileVars, sealVars, envVars
<1> DEFINE retry == num[p] = 1 /\ ~expired
           n == IF retry THEN "reserve" ELSE "terminal"
<1>1. pc[p] = "presend" /\ pc[p] \in AttemptPC \ {"unwind", "handler"}
  BY DEF RecordPreSendFailure, AttemptPC
<1>2. /\ ProcessesTyped' /\ LedgerTyped' /\ LedgerInv'
      /\ \A t \in 1 .. tgt[p] - 1 : Captured(t)'
      /\ num[p] = 2 => ledger'[Predecessor(p)] \in
                           {"PROVABLE_PRE_SEND_FAILURE", "RESPONSE_CAPTURED"}
      /\ \A b \in OpenAttempts' : b = Attempt(p)
      /\ \/ /\ pc' = [pc EXCEPT ![p] = n]
            /\ pc'[p] = n
            /\ ledger'[Attempt(p)] = "PROVABLE_PRE_SEND_FAILURE"
         \/ /\ pc' = [pc EXCEPT ![p] = "unwind"]
            /\ pc'[p] = "unwind"
  <2>1. /\ n \in AttemptPC
        /\ "PROVABLE_PRE_SEND_FAILURE" \in AttemptStates
        /\ retry \in BOOLEAN
    BY DEF AttemptPC, AttemptStates
  <2>2. Append(p, Attempt(p), "PROVABLE_PRE_SEND_FAILURE", retry, n, "unwind")
    BY DEF RecordPreSendFailure
  <2>3. UNCHANGED <<tgt, evidence, sends>>
    BY DEF RecordPreSendFailure
  <2> HIDE DEF n, retry
  <2> QED BY <1>1, <2>1, <2>2, <2>3, AppendsAreLegal, AppendStep
<1>3. \/ num' = num /\ pc'[p] # "reserve"
      \/ /\ pc'[p] = "reserve" /\ retry
         /\ num' = [num EXCEPT ![p] = 2]
  <2>1. num' = [num EXCEPT ![p] = IF retry /\ pc'[p] = "reserve" THEN 2 ELSE @]
    BY DEF RecordPreSendFailure
  <2>2. pc'[p] = "reserve" => retry
    BY <1>2
  <2> QED BY <2>1, <2>2 DEF PilotInv, PilotTypeOK
<1>4. PilotTypeOK'
  BY <1>2, <1>3
  DEF PilotInv, PilotTypeOK, ProcessesTyped, LedgerTyped, RecordPreSendFailure
<1>5. AttemptFacts(p)'
  <2>1. Predecessor(p)' = Predecessor(p) /\ UNCHANGED <<manifest, sends, tgt>>
    BY DEF RecordPreSendFailure, Predecessor
  <2>2. manifest = "none"
    BY <1>1 DEF PilotInv, AttemptFacts
  <2>3. CASE num' = num /\ pc'[p] # "reserve"
    <3>1. Attempt(p)' = Attempt(p)
      BY <2>1, <2>3 DEF Attempt
    <3>2. AttemptInHand(p)'
      BY <1>2, <2>3, <3>1 DEF AttemptInHand
    <3> QED BY <1>2, <2>1, <2>2, <2>3, <3>1, <3>2 DEF AttemptFacts
  <2>4. CASE pc'[p] = "reserve" /\ retry /\ num' = [num EXCEPT ![p] = 2]
    <3>1. Attempt(p) = Predecessor(p)
      BY <2>4 DEF Attempt, Predecessor, Kind
    <3>2. ledger'[Predecessor(p)] = "PROVABLE_PRE_SEND_FAILURE"
      BY <1>2, <2>4, <3>1
    <3>3. OpenAttempts' = {}
      BY <1>2, <3>1, <3>2 DEF OpenAttempts, OpenStates
    <3>4. Attempt(p)' \in Attempts
      BY <1>4, AttemptTypes DEF PilotTypeOK, Attempt, Attempts, Kind, Kinds
    <3>5. AttemptInHand(p)'
      BY <2>4, <3>3, <3>4 DEF AttemptInHand, OpenAttempts
    <3> QED BY <1>2, <2>1, <2>2, <2>4, <3>2, <3>3, <3>5 DEF AttemptFacts
  <2> QED BY <1>3, <2>3, <2>4
<1>6. n \in AttemptPC /\ "unwind" \in AttemptPC
  BY DEF AttemptPC
<1> QED BY <1>1, <1>2, <1>4, <1>5, <1>6, AttemptStep DEF RecordPreSendFailure, AttemptPC

(* The evidence of an attempt: only the response proves an answer.         *)
LEMMA EvidenceStep ==
    ASSUME PilotInv, UNCHANGED <<ledger, ledgerDir, sends>>,
           evidence \subseteq evidence'
    PROVE  /\ LedgerInv'
           /\ OpenAttempts' = OpenAttempts
           /\ \A t : Captured(t)' = Captured(t)
  BY DEF PilotInv, LedgerInv, LedgerTellsTheTruth, OpenAttempts, Captured

(* The request evidence of an attempt keeps the invariant.                  *)
LEMMA WriteAttemptRequestKeeps ==
    ASSUME PilotInv, NEW p \in Executors, WriteAttemptRequest(p)
    PROVE  PilotInv'
<1> USE DEF locals, ledgerVars, fileVars, sealVars, envVars
<1>1. pc[p] = "request" /\ pc[p] \in AttemptPC /\ p \in Procs
  BY DEF WriteAttemptRequest, AttemptPC, Procs
<1>2. <<"request", Attempt(p)>> \in Evidence
  BY AttemptTypes DEF PilotInv, Evidence
<1>3. /\ evidence' \subseteq Evidence
      /\ faults' \in 0 .. MaxFaults
      /\ evidence \subseteq evidence'
      /\ \/ /\ pc' = [pc EXCEPT ![p] = "gate"]
            /\ <<"request", Attempt(p)>> \in evidence'
         \/ pc' = [pc EXCEPT ![p] = "terminal"]
  BY <1>1, <1>2, CreateEvidenceEffect DEF PilotInv, WriteAttemptRequest
<1>4. PICK l \in {"gate", "terminal"} :
          /\ pc' = [pc EXCEPT ![p] = l]
          /\ l = "gate" => <<"request", Attempt(p)>> \in evidence'
  BY <1>3
<1>5. l \in AttemptPC /\ l \in ExecutorPC
  BY DEF AttemptPC, ExecutorPC
<1>6. ProcessesTyped' /\ pc'[p] = l
  BY <1>1, <1>4, <1>5, ProcessTypes DEF PilotInv
<1>7. PilotTypeOK'
  BY <1>3, <1>6 DEF PilotInv, PilotTypeOK, ProcessesTyped, WriteAttemptRequest
<1>8. LedgerInv' /\ OpenAttempts' = OpenAttempts
      /\ \A t : Captured(t)' = Captured(t)
  BY <1>3, EvidenceStep DEF WriteAttemptRequest
<1>9. AttemptFacts(p)'
  <2>1. Attempt(p)' = Attempt(p) /\ Predecessor(p)' = Predecessor(p)
        /\ UNCHANGED <<manifest, ledger, sends, tgt, num>>
    BY DEF WriteAttemptRequest, Attempt, Predecessor
  <2>2. AttemptFacts(p)
    BY DEF PilotInv
  <2>3. AttemptInHand(p)'
    BY <1>1, <1>4, <1>6, <2>1, <2>2 DEF AttemptFacts, AttemptInHand
  <2> QED BY <1>1, <1>8, <2>1, <2>2, <2>3 DEF AttemptFacts
<1> QED BY <1>1, <1>4, <1>5, <1>7, <1>8, <1>9, AttemptStep DEF WriteAttemptRequest

(* The response evidence, or its failure, keeps the invariant.              *)
LEMMA CaptureKeeps ==
    ASSUME PilotInv, NEW p \in Executors, Capture(p)
    PROVE  PilotInv'
<1> USE DEF locals, ledgerVars, fileVars, sealVars, envVars
<1>1. pc[p] = "capture" /\ pc[p] \in AttemptPC /\ p \in Procs
  BY DEF Capture, AttemptPC, Procs
<1>2. \A k \in {"response", "unusable"} : <<k, Attempt(p)>> \in Evidence
  BY AttemptTypes DEF PilotInv, Evidence
<1>3. PICK l \in {"unknown", "unwind", "terminal", "record"} :
          /\ pc' = [pc EXCEPT ![p] = l]
          /\ evidence' \subseteq Evidence
          /\ faults' \in 0 .. MaxFaults
          /\ evidence \subseteq evidence'
          /\ l = "record" => <<"response", Attempt(p)>> \in evidence'
  <2>1. CASE Goto(p, "unknown") /\ UNCHANGED <<evidence, faults>>
    BY <2>1 DEF Goto, PilotInv, PilotTypeOK
  <2>2. CASE CreateEvidence(p, <<"unusable", Attempt(p)>>, "unknown", "unwind")
    BY <1>1, <1>2, <2>2, CreateEvidenceEffect DEF PilotInv
  <2>3. CASE CreateEvidence(p, <<"unusable", Attempt(p)>>, "terminal", "unwind")
    BY <1>1, <1>2, <2>3, CreateEvidenceEffect DEF PilotInv
  <2>4. CASE CreateEvidence(p, <<"response", Attempt(p)>>, "record", "unknown")
    BY <1>1, <1>2, <2>4, CreateEvidenceEffect DEF PilotInv
  <2> QED BY <2>1, <2>2, <2>3, <2>4 DEF Capture, AfterFailedResponse
<1>4. l \in AttemptPC /\ l \in ExecutorPC
  BY DEF AttemptPC, ExecutorPC
<1>5. ProcessesTyped' /\ pc'[p] = l
  BY <1>1, <1>3, <1>4, ProcessTypes DEF PilotInv
<1>6. PilotTypeOK'
  BY <1>3, <1>5 DEF PilotInv, PilotTypeOK, ProcessesTyped, Capture
<1>7. LedgerInv' /\ OpenAttempts' = OpenAttempts
      /\ \A t : Captured(t)' = Captured(t)
  BY <1>3, EvidenceStep DEF Capture
<1>8. AttemptFacts(p)'
  <2>1. Attempt(p)' = Attempt(p) /\ Predecessor(p)' = Predecessor(p)
        /\ UNCHANGED <<manifest, ledger, sends, tgt, num>>
    BY DEF Capture, Attempt, Predecessor
  <2>2. AttemptFacts(p)
    BY DEF PilotInv
  <2>3. AttemptInHand(p)'
    BY <1>1, <1>3, <1>5, <2>1, <2>2 DEF AttemptFacts, AttemptInHand, OpenStates
  <2> QED BY <1>1, <1>7, <2>1, <2>2, <2>3 DEF AttemptFacts
<1> QED BY <1>1, <1>3, <1>4, <1>6, <1>7, <1>8, AttemptStep DEF Capture

(* The loop goes on from an answered target, and ends with all of them      *)
(* answered.                                                                *)
LEMMA NextTargetKeeps ==
    ASSUME PilotInv, NEW p \in Executors, NextTarget(p)
    PROVE  PilotInv'
<1> USE DEF Goto, ledgerVars, fileVars, sealVars, envVars
<1>1. pc[p] = "advance" /\ pc[p] \in AttemptPC /\ p \in Procs
  BY DEF NextTarget, AttemptPC, Procs
<1>2. PICK l \in {"reserve", "report"} : /\ pc' = [pc EXCEPT ![p] = l]
                                         /\ l = "reserve" <=> tgt[p] < NTargets
  BY DEF NextTarget
<1>3. l \in AttemptPC \cup {"report"} /\ l \in ExecutorPC
  BY DEF AttemptPC, ExecutorPC, ClosingPC
<1>4. ProcessesTyped' /\ pc'[p] = l
  BY <1>1, <1>2, <1>3, ProcessTypes DEF PilotInv
<1>5. tgt[p] \in Targets /\ NTargets \in Nat
  BY PilotAssumption DEF PilotInv, PilotTypeOK
<1>6. tgt' \in [Executors -> Targets]
  BY <1>5 DEF NextTarget, PilotInv, PilotTypeOK, Targets
<1>7. PilotTypeOK'
  BY <1>4, <1>6 DEF PilotInv, PilotTypeOK, ProcessesTyped, NextTarget
<1>8. LedgerInv' /\ OpenAttempts' = OpenAttempts
      /\ \A t : Captured(t)' = Captured(t)
  BY QuietLedger DEF NextTarget
<1>9. /\ manifest = "none"
      /\ ledger[Attempt(p)] = "RESPONSE_CAPTURED"
      /\ \A a \in OpenAttempts : a = Attempt(p)
      /\ \A t \in 1 .. tgt[p] - 1 : Captured(t)
  BY <1>1 DEF PilotInv, AttemptFacts, AttemptInHand
<1>10. OpenAttempts = {}
  BY <1>9 DEF OpenAttempts, OpenStates
<1>11. Captured(tgt[p])
  BY <1>9 DEF Captured, Attempt, Kind, Kinds
<1>12. \A t \in 1 .. tgt[p] : Captured(t)
  BY <1>5, <1>9, <1>11 DEF Targets
<1>13. AttemptFacts(p)'
  <2>1. CASE l = "report"
    BY <1>4, <2>1 DEF AttemptFacts, AttemptPC
  <2>2. CASE l = "reserve"
    <3>1. /\ tgt'[p] = tgt[p] + 1 /\ num'[p] = 1
          /\ UNCHANGED <<ledger, manifest>>
      BY <1>2, <2>2 DEF NextTarget, PilotInv, PilotTypeOK
    <3>2. tgt'[p] - 1 = tgt[p]
      BY <1>5, <3>1 DEF Targets
    <3>3. Attempt(p)' \in Attempts
      BY <1>6, <3>1 DEF Attempt, Attempts, Kind, Kinds
    <3>4. AttemptInHand(p)'
      BY <1>4, <1>10, <2>2, <3>1, <3>3 DEF AttemptInHand, OpenAttempts
    <3> QED BY <1>8, <1>9, <1>10, <1>12, <3>1, <3>2, <3>4 DEF AttemptFacts
  <2> QED BY <2>1, <2>2
<1>14. l = "report" => \A t \in Targets : Captured(t)'
  BY <1>2, <1>5, <1>8, <1>12 DEF Targets
<1>15. \A q \in Executors : q # p => tgt'[q] = tgt[q] /\ num'[q] = num[q]
  BY DEF NextTarget, PilotInv, PilotTypeOK
<1> QED BY <1>1, <1>2, <1>3, <1>7, <1>8, <1>10, <1>13, <1>14, <1>15, AttemptStep
        DEF NextTarget

(* A refused reservation ends the run with a failure, and leaves nothing    *)
(* open.                                                                    *)
LEMMA ReserveRefusedKeeps ==
    ASSUME PilotInv, NEW p \in Executors, ReserveRefused(p)
    PROVE  PilotInv'
<1> USE DEF Goto, ledgerVars, fileVars, sealVars, envVars
<1>1. pc[p] = "reserve" /\ pc[p] \in AttemptPC /\ p \in Procs
  BY DEF ReserveRefused, AttemptPC, Procs
<1>2. PICK l \in {"unwind", "report"} :
          /\ pc' = [pc EXCEPT ![p] = l]
          /\ l = "report" => failed' = [failed EXCEPT ![p] = TRUE]
          /\ l = "unwind" => failed' = failed
  BY DEF ReserveRefused, FailTarget
<1>3. l \in AttemptPC \cup {"report"} /\ l \in ExecutorPC
  BY DEF AttemptPC, ExecutorPC, ClosingPC
<1>4. ProcessesTyped' /\ pc'[p] = l
  BY <1>1, <1>2, <1>3, ProcessTypes DEF PilotInv
<1>5. failed' \in [Executors -> BOOLEAN] /\ (l = "report" => failed'[p])
  BY <1>2 DEF PilotInv, PilotTypeOK
<1>6. PilotTypeOK'
  BY <1>4, <1>5 DEF PilotInv, PilotTypeOK, ProcessesTyped, ReserveRefused
<1>7. LedgerInv' /\ OpenAttempts' = OpenAttempts
      /\ \A t : Captured(t)' = Captured(t)
  BY QuietLedger DEF ReserveRefused
<1>8. AttemptFacts(p) /\ OpenAttempts = {}
  BY <1>1 DEF PilotInv, AttemptFacts, AttemptInHand, OpenAttempts
<1>9. AttemptFacts(p)'
  <2>1. CASE l = "report"
    BY <1>4, <2>1 DEF AttemptFacts, AttemptPC
  <2>2. CASE l = "unwind"
    <3>1. AttemptInHand(p)'
      BY <1>4, <2>2 DEF AttemptInHand
    <3>2. UNCHANGED <<tgt, num, ledger, manifest>>
      BY DEF ReserveRefused
    <3> QED BY <1>1, <1>4, <1>7, <1>8, <2>2, <3>1, <3>2
            DEF AttemptFacts, Predecessor
  <2> QED BY <2>1, <2>2
<1> QED BY <1>1, <1>2, <1>3, <1>5, <1>6, <1>7, <1>8, <1>9, AttemptStep
        DEF ReserveRefused

(* The clean-up closes an attempt that is open, whichever it is.           *)
LEMMA UnwindKeeps ==
    ASSUME PilotInv, NEW p \in Executors, Unwind(p)
    PROVE  PilotInv'
<1> USE DEF locals, fileVars, sealVars, envVars
<1>1. pc[p] = "unwind" /\ pc[p] \in AttemptPC /\ p \in Procs
  BY DEF Unwind, AttemptPC, Procs
<1>2. last \in Attempts /\ PilotTypeOK /\ "SENT_UNKNOWN" \in AttemptStates
  BY DEF PilotInv, PilotTypeOK, AttemptStates
<1>3. /\ pc' = [pc EXCEPT ![p] = "handler"]
      /\ LedgerTyped'
      /\ \/ UNCHANGED ledgerVars
         \/ /\ ledger[last] \in OpenStates
            /\ ledger' # ledger => ledgerDir'
            /\ ledgerDir => ledgerDir'
            /\ ledger' \in {ledger, [ledger EXCEPT ![last] = "SENT_UNKNOWN"]}
  <2>1. CASE MustClose(p)
    <3>1. Append(p, last, "SENT_UNKNOWN", FALSE, "handler", "handler")
      BY <2>1 DEF Unwind
    <3>2. LedgerTyped'
      BY <1>1, <1>2, <3>1, AppendEffect DEF LedgerTyped
    <3>3. pc' = [pc EXCEPT ![p] = "handler"]
      BY <3>1 DEF Append, Goto
    <3>4. /\ ledger' # ledger => ledgerDir'
          /\ ledgerDir => ledgerDir'
          /\ ledger' \in {ledger, [ledger EXCEPT ![last] = "SENT_UNKNOWN"]}
      BY <1>1, <1>2, <3>1, AppendEffect
    <3> QED BY <2>1, <3>2, <3>3, <3>4 DEF MustClose
  <2>2. CASE ~MustClose(p)
    BY <2>2 DEF Unwind, Goto, LedgerTyped, ledgerVars, PilotInv, PilotTypeOK
  <2> QED BY <2>1, <2>2
<1>4. "handler" \in AttemptPC /\ "handler" \in ExecutorPC
  BY DEF AttemptPC, ExecutorPC
<1>5. ProcessesTyped' /\ pc'[p] = "handler"
  BY <1>1, <1>3, <1>4, ProcessTypes DEF PilotInv
<1>6. PilotTypeOK'
  BY <1>3, <1>5
  DEF PilotInv, PilotTypeOK, ProcessesTyped, LedgerTyped, Unwind
<1>7. /\ LedgerInv'
      /\ num[p] = 2 => ledger'[Predecessor(p)] \in
                           {"PROVABLE_PRE_SEND_FAILURE", "RESPONSE_CAPTURED"}
      /\ \A t \in 1 .. tgt[p] - 1 : Captured(t)'
  <2>1. AttemptFacts(p) /\ UNCHANGED <<sends, evidence>>
    BY DEF PilotInv, Unwind
  <2>2. CASE ledger' = ledger /\ (ledgerDir => ledgerDir')
    <3>1. LedgerInv'
      BY <2>1, <2>2 DEF PilotInv, LedgerInv, LedgerTellsTheTruth
    <3> QED BY <1>1, <2>1, <2>2, <3>1 DEF AttemptFacts, Captured
  <2>3. CASE /\ ledger[last] \in OpenStates
             /\ ledgerDir'
             /\ ledger' = [ledger EXCEPT ![last] = "SENT_UNKNOWN"]
    <3>1. Legal(last, "SENT_UNKNOWN")
      BY <2>3 DEF Legal, Transitions, OpenStates
    <3>2. LedgerInv'
      BY <1>2, <2>1, <2>3, <3>1, LegalWrite
    <3> QED BY <1>1, <1>2, <2>3, <3>2, LineInHand DEF Captured
  <2> QED BY <1>3, <2>2, <2>3 DEF ledgerVars
<1>8. AttemptFacts(p)'
  <2>1. manifest = "none" /\ UNCHANGED <<tgt, num, manifest>>
    BY <1>1 DEF PilotInv, AttemptFacts, Unwind
  <2>2. AttemptInHand(p)'
    BY <1>5 DEF AttemptInHand
  <2> QED BY <1>5, <1>7, <2>1, <2>2 DEF AttemptFacts, Predecessor
<1> QED BY <1>1, <1>3, <1>4, <1>6, <1>7, <1>8, AttemptStep DEF Unwind

(* The handler of run() reports only a readable ledger with nothing open.   *)
LEMMA HandleEvidenceErrorKeeps ==
    ASSUME PilotInv, NEW p \in Executors, HandleEvidenceError(p)
    PROVE  PilotInv'
<1> USE DEF Goto, ledgerVars, fileVars, sealVars, envVars
<1>1. pc[p] = "handler" /\ pc[p] \in AttemptPC /\ p \in Procs
  BY DEF HandleEvidenceError, AttemptPC, Procs
<1>2. PICK l \in {"raising", "report"} :
          /\ pc' = [pc EXCEPT ![p] = l]
          /\ l = "report" => /\ failed' = [failed EXCEPT ![p] = TRUE]
                             /\ OpenAttempts = {}
          /\ l = "raising" => failed' = failed
  BY DEF HandleEvidenceError, FailTarget, Unresolved
<1>3. l \in {"report", "raising"} /\ l \in ExecutorPC /\ l \notin AttemptPC
  BY DEF AttemptPC, ExecutorPC, ClosingPC, LeavingPC
<1>4. ProcessesTyped' /\ pc'[p] = l
  BY <1>1, <1>2, <1>3, ProcessTypes DEF PilotInv
<1>5. failed' \in [Executors -> BOOLEAN] /\ (l = "report" => failed'[p])
  BY <1>2 DEF PilotInv, PilotTypeOK
<1>6. PilotTypeOK'
  BY <1>4, <1>5 DEF PilotInv, PilotTypeOK, ProcessesTyped, HandleEvidenceError
<1>7. LedgerInv' /\ OpenAttempts' = OpenAttempts
  BY QuietLedger DEF HandleEvidenceError
<1>8. AttemptFacts(p)'
  BY <1>3, <1>4 DEF AttemptFacts
<1> QED BY <1>1, <1>2, <1>3, <1>5, <1>6, <1>7, <1>8, AttemptStep
        DEF HandleEvidenceError

(* Every step of _execute_target.                                          *)
LEMMA ExecuteTargetKeeps ==
    ASSUME PilotInv, NEW p \in Executors, ExecuteTarget(p)
    PROVE  PilotInv'
  BY ReserveRefusedKeeps, ReserveKeeps, WriteAttemptRequestKeeps, GatesKeep,
     SendsKeep, RecordPreSendFailureKeeps, RecordSentKeeps, CaptureKeeps,
     RecordResponseKeeps, NextTargetKeeps, StopsKeep, UnwindKeeps,
     HandleEvidenceErrorKeeps DEF ExecuteTarget

-----------------------------------------------------------------------------
(* Report and manifest *)

(* What the closing executor must show: nothing is open, and the store is   *)
(* sealed at most by itself.                                                *)
LEMMA ClosingStep ==
    ASSUME PilotInv, NEW p \in Executors, NEW l,
           pc[p] \in ClosingPC, l \in {"premanifest", "accept", "leave", "raising"},
           pc' = [pc EXCEPT ![p] = l],
           UNCHANGED <<tgt, num, lock, ledgerVars, evidence, sends>>,
           files \subseteq files',
           PilotTypeOK',
           failed[p] => failed'[p],
           l = "premanifest" => manifest' = "none"
    PROVE  PilotInv'
<1> USE DEF ledgerVars
<1>1. l \in AttemptPC \cup ClosingPC \cup LeavingPC /\ l # "report"
  BY DEF ClosingPC, LeavingPC
<1>2. /\ LeaseInv'
      /\ ClaimInv'
      /\ \A r \in Recoverers : RecoveryFacts(r)'
      /\ \A q \in Executors : q # p => AttemptFacts(q)' /\ ClosingFacts(q)'
  BY <1>1, HolderStep
<1>3. /\ LedgerInv'
      /\ OpenAttempts' = OpenAttempts
      /\ \A t : Captured(t)' = Captured(t)
  BY QuietLedger
<1>4. /\ OpenAttempts = {}
      /\ failed[p] \/ \A t \in Targets : Captured(t)
  BY DEF PilotInv, ClosingFacts, ClosingPC
<1>5. pc'[p] = l
  BY DEF PilotInv, PilotTypeOK, Procs
<1>6. AttemptFacts(p)'
  BY <1>5 DEF AttemptFacts, AttemptPC
<1>7. ClosingFacts(p)'
  BY <1>1, <1>3, <1>4, <1>5 DEF ClosingFacts
<1>8. SealedIsClosed'
  BY <1>3, <1>4 DEF SealedIsClosed
<1> QED BY <1>2, <1>3, <1>6, <1>7, <1>8 DEF PilotInv

(* Report, manifest and acceptance keep the invariant.                      *)
LEMMA FinishRunKeeps ==
    ASSUME PilotInv, NEW p \in Executors, FinishRun(p)
    PROVE  PilotInv'
<1> USE DEF locals, sealVars, envVars
<1>1. pc[p] \in ClosingPC /\ p \in Procs /\ PilotTypeOK
  BY DEF FinishRun, WriteReport, WriteManifest, Accept, ClosingPC, Procs, PilotInv
<1>2. {"report", "integrity_failure"} \subseteq Files
  BY DEF Files
<1>3. {"premanifest", "accept", "leave", "raising"} \subseteq ExecutorPC
  BY DEF ExecutorPC, ClosingPC, LeavingPC
<1>4. CASE WriteReport(p)
  <2>1. PICK l \in {"premanifest", "raising"} : pc' = [pc EXCEPT ![p] = l]
    BY <1>1, <1>2, <1>4, CreateEffect DEF WriteReport
  <2>2. /\ files' \subseteq Files /\ damaged' \subseteq files'
        /\ faults' \in 0 .. MaxFaults /\ files \subseteq files'
    BY <1>1, <1>2, <1>4, CreateEffect DEF WriteReport
  <2>3. failed' \in [Executors -> BOOLEAN] /\ (failed[p] => failed'[p])
    <3>1. PICK b \in BOOLEAN : /\ failed' = [failed EXCEPT ![p] = b]
                               /\ failed[p] => b
      BY <1>1, <1>4, Zenon DEF WriteReport, PilotTypeOK
    <3> QED BY <1>1, <3>1 DEF PilotTypeOK
  <2>4. ProcessesTyped' /\ pc'[p] = l
    BY <1>1, <1>3, <2>1, ProcessTypes
  <2>5. PilotTypeOK'
    BY <1>1, <1>4, <2>2, <2>3, <2>4
    DEF PilotTypeOK, ProcessesTyped, WriteReport, ledgerVars
  <2>6. manifest' = "none"
    BY <1>4 DEF WriteReport, PilotInv, ClosingFacts
  <2> QED BY <1>1, <1>4, <2>1, <2>2, <2>3, <2>5, <2>6, ClosingStep DEF WriteReport
<1>5. CASE WriteManifest(p) \/ Accept(p)
  <2>1. PICK l \in {"accept", "leave", "raising"} : pc' = [pc EXCEPT ![p] = l]
    BY <1>1, <1>2, <1>5, CreateEffect, CreateManifestEffect
    DEF WriteManifest, Accept, RejectRun, Goto
  <2>2. /\ files' \subseteq Files /\ damaged' \subseteq files'
        /\ faults' \in 0 .. MaxFaults /\ files \subseteq files'
        /\ manifest' \in {"none", "partial", "complete"}
    BY <1>1, <1>2, <1>5, CreateEffect, CreateManifestEffect
    DEF WriteManifest, Accept, RejectRun, PilotTypeOK, fileVars
  <2>3. ProcessesTyped' /\ pc'[p] = l
    BY <1>1, <1>3, <2>1, ProcessTypes
  <2>4. UNCHANGED <<locals, ledgerVars, evidence, lock, sends, envVars>>
    BY <1>5 DEF WriteManifest, Accept
  <2>5. PilotTypeOK'
    BY <1>1, <2>2, <2>3, <2>4 DEF PilotTypeOK, ProcessesTyped, ledgerVars
  <2> QED BY <1>1, <2>1, <2>2, <2>4, <2>5, ClosingStep
<1> QED BY <1>4, <1>5 DEF FinishRun

-----------------------------------------------------------------------------
(* Recovery *)

(* What is left to show for a step of a recovery that holds the lease.      *)
LEMMA RecoveryStep ==
    ASSUME PilotInv, NEW r \in Recoverers, NEW l,
           pc[r] \in RecoveryLocked \ LeavingPC, l \in RecoveryLocked,
           pc' = [pc EXCEPT ![r] = l],
           lock' = lock, files \subseteq files', UNCHANGED <<tgt, num, failed>>,
           ledgerDir => ledgerDir',
           pc[r] = "revalidate" => UNCHANGED <<ledgerDir, manifest>>,
           \A t \in Targets : Captured(t) => Captured(t)',
           PilotTypeOK', LedgerInv', SealedIsClosed', RecoveryFacts(r)'
    PROVE  PilotInv'
<1>r. r \in Procs /\ r \notin Executors
  BY PilotAssumption DEF Procs
<1>1. pc[r] \in LockedPC /\ l \in LockedPC
  BY DEF LockedPC
<1>2. lock = r /\ \A q \in Procs : q # r => pc[q] \notin LockedPC
  BY <1>r, <1>1, OthersWait
<1>3. LeaseInv'
  BY <1>1, <1>2 DEF PilotInv, PilotTypeOK, LeaseInv
<1>4. \A q \in Executors : pc'[q] = pc[q] /\ pc[q] \notin LockedPC
  BY <1>r, <1>2 DEF Procs
<1>5. pc[r] \in RecoveryPC => ledgerDir /\ "claim" \in files
  BY DEF PilotInv, RecoveryFacts, ClaimInv
<1>6. pc[r] = "revalidate" \/ pc[r] \in RecoveryPC
  BY DEF RecoveryPC
<1>7. ClaimInv'
  <2>1. CASE pc[r] = "revalidate"
    BY <1>4, <2>1 DEF PilotInv, ClaimInv
  <2>2. CASE pc[r] \in RecoveryPC
    BY <1>4, <1>5, <2>2 DEF PilotInv, ClaimInv
  <2> QED BY <1>6, <2>1, <2>2
<1>8. ASSUME NEW q \in Recoverers, q # r
      PROVE  RecoveryFacts(q)'
  <2>1. q \in Procs /\ pc'[q] \notin LockedPC
    BY <1>2, <1>8 DEF Procs
  <2>2. RecoveryPC \subseteq LockedPC
        /\ {"rrecord", "rreport", "rmanifest"} \subseteq LockedPC
    BY DEF RecoveryPC, LockedPC, RecoveryLocked
  <2> QED BY <2>1, <2>2 DEF RecoveryFacts
<1>9. ASSUME NEW q \in Executors
      PROVE  AttemptFacts(q)' /\ ClosingFacts(q)'
  <2>1. AttemptPC \subseteq LockedPC /\ ClosingPC \subseteq LockedPC
        /\ {"report", "premanifest", "accept", "leave"} \subseteq LockedPC
    BY DEF LockedPC, ClosingPC, RecoveryLocked, LeavingPC
  <2>2. ClosingFacts(q)
    BY DEF PilotInv
  <2> QED BY <1>4, <2>1, <2>2 DEF AttemptFacts, ClosingFacts
<1> QED BY <1>3, <1>7, <1>8, <1>9 DEF PilotInv

(* Steps that write no line to the ledger.                                 *)
LEMMA RecoveryFileStep ==
    ASSUME PilotInv, NEW r \in Recoverers, NEW l,
           pc[r] \in RecoveryLocked \ LeavingPC, l \in RecoveryLocked,
           pc' = [pc EXCEPT ![r] = l],
           UNCHANGED <<tgt, num, failed, lock, ledgerVars, evidence, sends>>,
           files \subseteq files', PilotTypeOK',
           pc[r] = "revalidate" => UNCHANGED manifest,
           OpenAttempts # {} => UNCHANGED manifest,
           RecoveryFacts(r)'
    PROVE  PilotInv'
<1> USE DEF ledgerVars
<1>1. LedgerInv' /\ OpenAttempts' = OpenAttempts
      /\ \A t : Captured(t)' = Captured(t)
  BY QuietLedger
<1>2. SealedIsClosed'
  BY <1>1 DEF PilotInv, SealedIsClosed
<1> QED BY <1>1, <1>2, RecoveryStep

(* What recovery checks again under the lease is what its later steps       *)
(* rely on.                                                                 *)
LEMMA RevalidateKeeps ==
    ASSUME PilotInv, NEW r \in Recoverers, Revalidate(r)
    PROVE  PilotInv'
<1> USE DEF Goto, locals, fileVars, sealVars, envVars
<1>1. PICK l \in {"rprovenance", "raising"} :
          /\ pc[r] = "revalidate"
          /\ pc' = [pc EXCEPT ![r] = l]
          /\ l = "rprovenance" => manifest = "none" /\ ledgerDir
  BY DEF Revalidate, StillRecoverable, Recoverable
<1>2. /\ pc[r] \in RecoveryLocked \ LeavingPC
      /\ l \in RecoveryLocked /\ l \in RecovererPC /\ r \in Procs
  BY <1>1 DEF RecoveryLocked, LeavingPC, RecovererPC, Procs
<1>3. ProcessesTyped' /\ pc'[r] = l
  BY <1>1, <1>2, ProcessTypes DEF PilotInv
<1>4. PilotTypeOK'
  BY <1>3 DEF PilotInv, PilotTypeOK, ProcessesTyped, Revalidate, ledgerVars
<1>5. RecoveryFacts(r)'
  BY <1>1, <1>3 DEF RecoveryFacts, RecoveryPC, LeavingPC, Revalidate, ledgerVars
<1> QED BY <1>1, <1>2, <1>4, <1>5, RecoveryFileStep DEF Revalidate

(* The files of a recovery keep the invariant.                              *)
LEMMA RecoveryFilesKeep ==
    ASSUME PilotInv, NEW r \in Recoverers,
           \/ WriteRecoveryProvenance(r) \/ WriteRecoveryRecord(r)
           \/ WriteRecoveryReport(r)
    PROVE  PilotInv'
<1> USE DEF locals, sealVars, envVars
<1>1. PICK l \in {"rprovenance", "rrecord", "rreport"},
           n \in {"rscan", "rreport", "rmanifest"},
           f \in {"recovery_provenance", "recovery_record", "recovery_report"} :
          /\ WriteRecoveryFile(r, l, f, n)
          /\ n = "rscan" <=> l = "rprovenance"
  BY DEF WriteRecoveryProvenance, WriteRecoveryRecord, WriteRecoveryReport
<1>2. /\ f \in Files /\ r \in Procs /\ PilotTypeOK
      /\ pc[r] = l /\ l \in RecoveryPC /\ l \in RecoveryLocked \ LeavingPC
      /\ {n, "raising"} \subseteq RecoveryLocked /\ {n, "raising"} \subseteq RecovererPC
  BY <1>1 DEF Files, WriteRecoveryFile, RecoveryPC, RecoveryLocked, LeavingPC,
              RecovererPC, Procs, PilotInv
<1>3. PICK m \in {n, "raising"} : pc' = [pc EXCEPT ![r] = m]
  BY <1>1, <1>2, CreateEffect DEF WriteRecoveryFile
<1>4. /\ files' \subseteq Files /\ damaged' \subseteq files'
      /\ faults' \in 0 .. MaxFaults /\ files \subseteq files'
  BY <1>1, <1>2, CreateEffect DEF WriteRecoveryFile
<1>5. ProcessesTyped' /\ pc'[r] = m
  BY <1>2, <1>3, ProcessTypes
<1>6. UNCHANGED <<locals, ledgerVars, evidence, sealVars, lock, sends, envVars>>
  BY <1>1 DEF WriteRecoveryFile
<1>7. PilotTypeOK'
  BY <1>2, <1>4, <1>5, <1>6 DEF PilotTypeOK, ProcessesTyped, ledgerVars
<1>8. RecoveryFacts(r)'
  <2>1. /\ ledgerDir /\ manifest = "none"
        /\ l \in {"rrecord", "rreport"} => OpenAttempts = {}
    BY <1>2 DEF PilotInv, RecoveryFacts
  <2>2. ledgerDir' /\ manifest' = "none" /\ OpenAttempts' = OpenAttempts
    BY <1>6, <2>1 DEF ledgerVars, OpenAttempts
  <2> QED BY <1>1, <1>5, <2>1, <2>2 DEF RecoveryFacts
<1> QED BY <1>2, <1>3, <1>4, <1>6, <1>7, <1>8, RecoveryFileStep

(* Recovery seals a store only when nothing in it is open.                  *)
LEMMA SealRecoveredKeeps ==
    ASSUME PilotInv, NEW r \in Recoverers, SealRecovered(r) \/ VerifyRecovered(r)
    PROVE  PilotInv'
<1> USE DEF Goto, locals, fileVars, envVars
<1>1. /\ pc[r] \in {"rmanifest", "rverify"} /\ r \in Procs /\ PilotTypeOK
      /\ pc[r] \in RecoveryPC /\ pc[r] \in RecoveryLocked \ LeavingPC
  BY DEF SealRecovered, VerifyRecovered, RecoveryPC, RecoveryLocked, LeavingPC,
         Procs, PilotInv
<1>2. PICK l \in {"rverify", "leave", "raising"} : pc' = [pc EXCEPT ![r] = l]
  BY <1>1, CreateManifestEffect DEF SealRecovered, VerifyRecovered
<1>3. l \in RecoveryLocked /\ l \in RecovererPC
  BY DEF RecoveryLocked, RecovererPC, LeavingPC
<1>4. ProcessesTyped' /\ pc'[r] = l
  BY <1>1, <1>2, <1>3, ProcessTypes
<1>5. /\ manifest' \in {"none", "partial", "complete"}
      /\ faults' \in 0 .. MaxFaults
      /\ manifest' # manifest => pc[r] = "rmanifest"
  BY <1>1, CreateManifestEffect DEF SealRecovered, VerifyRecovered, PilotTypeOK,
     sealVars
<1>6. UNCHANGED <<locals, ledgerVars, fileVars, evidence, lock, sends, envVars>>
  BY DEF SealRecovered, VerifyRecovered
<1>7. PilotTypeOK'
  BY <1>1, <1>4, <1>5, <1>6 DEF PilotTypeOK, ProcessesTyped, ledgerVars
<1>8. ledgerDir /\ (pc[r] = "rmanifest" => OpenAttempts = {})
  BY <1>1 DEF PilotInv, RecoveryFacts
<1>9. RecoveryFacts(r)'
  BY <1>4, <1>6, <1>8 DEF RecoveryFacts, RecoveryPC, LeavingPC, ledgerVars
<1> QED BY <1>1, <1>2, <1>3, <1>5, <1>6, <1>7, <1>8, <1>9, RecoveryFileStep

(* recover_incomplete closes open attempts, and goes on only when none is   *)
(* left.                                                                    *)
LEMMA RecoverIncompleteKeeps ==
    ASSUME PilotInv, NEW r \in Recoverers, RecoverIncomplete(r)
    PROVE  PilotInv'
<1> USE DEF locals, fileVars, sealVars, envVars
<1>1. /\ pc[r] = "rscan" /\ r \in Procs /\ PilotTypeOK
      /\ pc[r] \in RecoveryPC /\ pc[r] \in RecoveryLocked \ LeavingPC
      /\ UNCHANGED <<locals, fileVars, evidence, sealVars, lock, sends, envVars>>
  BY DEF RecoverIncomplete, RecoveryPC, RecoveryLocked, LeavingPC, Procs, PilotInv
<1>2. ledgerDir /\ manifest = "none"
  BY <1>1 DEF PilotInv, RecoveryFacts
<1>3. CASE /\ OpenAttempts = {}
           /\ Goto(r, "rrecord")
           /\ UNCHANGED <<ledgerVars, faults>>
  <2>1. "rrecord" \in RecoveryLocked /\ "rrecord" \in RecovererPC
    BY DEF RecoveryLocked, RecovererPC
  <2>2. ProcessesTyped' /\ pc'[r] = "rrecord"
    BY <1>1, <1>3, <2>1, ProcessTypes DEF Goto
  <2>3. PilotTypeOK'
    BY <1>1, <1>3, <2>2 DEF PilotTypeOK, ProcessesTyped, ledgerVars
  <2>4. RecoveryFacts(r)'
    BY <1>1, <1>2, <1>3 DEF RecoveryFacts, OpenAttempts, ledgerVars
  <2> QED BY <1>1, <1>3, <2>1, <2>3, <2>4, RecoveryFileStep DEF Goto
<1>4. ASSUME NEW a \in OpenAttempts,
             Append(r, a, "SENT_UNKNOWN", FALSE, "rscan", "raising")
      PROVE  PilotInv'
  <2>1. /\ a \in Attempts /\ ledger[a] \in OpenStates
        /\ "SENT_UNKNOWN" \in AttemptStates
    BY DEF OpenAttempts, AttemptStates
  <2>2. LedgerTyped'
    BY <1>1, <1>4, <2>1, AppendEffect DEF LedgerTyped
  <2>3. /\ ledgerDir => ledgerDir'
        /\ ledger' \in {ledger, [ledger EXCEPT ![a] = "SENT_UNKNOWN"]}
    BY <1>1, <1>4, <2>1, AppendEffect
  <2>4. PICK l \in {"rscan", "raising"} : pc' = [pc EXCEPT ![r] = l]
    BY <1>4 DEF Append, Goto
  <2>5. l \in RecoveryLocked /\ l \in RecovererPC
    BY DEF RecoveryLocked, RecovererPC, LeavingPC
  <2>6. ProcessesTyped' /\ pc'[r] = l
    BY <1>1, <2>4, <2>5, ProcessTypes
  <2>7. PilotTypeOK'
    BY <1>1, <2>2, <2>6 DEF PilotTypeOK, ProcessesTyped, LedgerTyped
  <2>8. LedgerInv'
    <3>1. CASE ledger' = ledger
      BY <1>1, <1>2, <2>3, <3>1 DEF PilotInv, LedgerInv, LedgerTellsTheTruth
    <3>2. CASE ledger' = [ledger EXCEPT ![a] = "SENT_UNKNOWN"]
      <4>1. Legal(a, "SENT_UNKNOWN")
        BY <2>1 DEF Legal, Transitions, OpenStates
      <4> QED BY <1>1, <1>2, <2>1, <2>3, <3>2, <4>1, LegalWrite
    <3> QED BY <2>3, <3>1, <3>2
  <2>9. \A t \in Targets : Captured(t) => Captured(t)'
    <3> SUFFICES ASSUME NEW t \in Targets, NEW k \in Kinds,
                        ledger[<<t, k>>] = "RESPONSE_CAPTURED"
                 PROVE  ledger'[<<t, k>>] = "RESPONSE_CAPTURED"
      BY DEF Captured
    <3>1. <<t, k>> \in Attempts /\ <<t, k>> # a
      BY <2>1 DEF OpenStates, Attempts
    <3> QED BY <1>1, <2>3, <3>1 DEF PilotTypeOK
  <2>10. RecoveryFacts(r)' /\ SealedIsClosed'
    BY <1>1, <1>2, <2>3, <2>6 DEF RecoveryFacts, SealedIsClosed
  <2> QED BY <1>1, <2>3, <2>4, <2>5, <2>7, <2>8, <2>9, <2>10, RecoveryStep
<1> QED BY <1>3, <1>4 DEF RecoverIncomplete

-----------------------------------------------------------------------------
(* Everything else: before the lease, after the run, and the environment *)

(* A process outside the locked part moves to another place outside it.    *)
LEMMA OutsideStep ==
    ASSUME PilotInv, NEW p \in Procs, NEW l,
           pc' = [pc EXCEPT ![p] = l],
           l \notin LockedPC,
           \A q \in Procs : q # p /\ pc[q] \in LockedPC => lock' = lock,
           UNCHANGED <<tgt, num, failed, ledgerVars, evidence, manifest, sends>>,
           files \subseteq files',
           p \in Executors /\ l \in OwnerPC =>
               /\ pc[p] \in OwnerPC \/ "claim" \notin files
               /\ "claim" \in files'
               /\ l = "done" => pc[p] = "leave",
           p \in Executors /\ l \in BeforeClaim \cup BeforeLease =>
               pc[p] \in BeforeClaim \cup BeforeLease,
           PilotTypeOK'
    PROVE  PilotInv'
<1> USE DEF ledgerVars
<1>1. \A q \in Procs : pc'[q] = IF q = p THEN l ELSE pc[q]
  BY DEF PilotInv, PilotTypeOK
<1>2. Executors \subseteq Procs /\ Recoverers \subseteq Procs
  BY DEF Procs
<1>3. LeaseInv'
  BY <1>1 DEF PilotInv, LeaseInv
<1>4. BeforeLease \cap {"done"} = {} /\ BeforeLease \subseteq OwnerPC
      /\ BeforeClaim \cap OwnerPC = {}
  BY DEF BeforeLease, BeforeClaim, OwnerPC, AttemptPC, ClosingPC, LeavingPC
<1>5. ClaimInv'
  <2>1. \A q \in Executors : pc[q] \in OwnerPC => "claim" \in files
    BY DEF PilotInv, ClaimInv
  <2>2. /\ "claim" \notin files => ~ledgerDir /\ manifest = "none"
        /\ \A q \in Executors :
              pc[q] \in BeforeLease => ~ledgerDir /\ manifest = "none"
        /\ \A q, q2 \in Executors :
              pc[q] \in OwnerPC /\ pc[q2] \in OwnerPC => q = q2
    BY DEF PilotInv, ClaimInv
  <2>3. \A q, q2 \in Executors :
            pc'[q] \in OwnerPC /\ pc'[q2] \in OwnerPC => q = q2
    BY <1>1, <1>2, <2>1, <2>2
  <2>4. \A q \in Executors : pc'[q] \in OwnerPC => "claim" \in files'
    BY <1>1, <1>2, <2>1
  <2>5. \A q \in Executors :
            pc'[q] \in BeforeLease => ~ledgerDir /\ manifest = "none"
    BY <1>1, <1>2, <1>4, <2>2
  <2>6. \A q \in Executors :
            pc'[q] \in BeforeClaim \cup BeforeLease => tgt'[q] = 1 /\ num'[q] = 1
    BY <1>1, <1>2 DEF PilotInv, ClaimInv
  <2> QED BY <2>2, <2>3, <2>4, <2>5, <2>6 DEF ClaimInv
<1>6. /\ LedgerInv'
      /\ OpenAttempts' = OpenAttempts
      /\ \A t : Captured(t)' = Captured(t)
  BY QuietLedger
<1>7. ASSUME NEW q \in Executors
      PROVE  AttemptFacts(q)' /\ ClosingFacts(q)'
  <2>1. AttemptFacts(q) /\ ClosingFacts(q)
    BY DEF PilotInv
  <2>2. AttemptPC \subseteq LockedPC /\ ClosingPC \subseteq LockedPC
        /\ {"report", "premanifest", "accept", "leave"} \subseteq LockedPC
    BY DEF LockedPC, ClosingPC, RecoveryLocked, LeavingPC
  <2>3. Attempt(q)' = Attempt(q) /\ Predecessor(q)' = Predecessor(q)
    BY DEF Attempt, Predecessor
  <2>4. CASE q = p
    <3>1. pc'[q] = l
      BY <1>1, <2>4
    <3>2. l = "done" => failed[p] \/ \A t \in Targets : Captured(t)
      BY <1>7, <2>1, <2>4 DEF ClosingFacts, OwnerPC
    <3> QED BY <1>6, <2>2, <2>4, <3>1, <3>2 DEF AttemptFacts, ClosingFacts
  <2>5. CASE q # p
    <3>1. pc'[q] = pc[q]
      BY <1>1, <1>2, <2>5
    <3>2. AttemptInHand(q)' <=> AttemptInHand(q)
      BY <2>3, <3>1 DEF AttemptInHand
    <3> QED BY <1>6, <2>1, <2>3, <3>1, <3>2 DEF AttemptFacts, ClosingFacts
  <2> QED BY <2>4, <2>5
<1>8. ASSUME NEW r \in Recoverers
      PROVE  RecoveryFacts(r)'
  <2>1. RecoveryFacts(r) /\ r \in Procs
    BY <1>2 DEF PilotInv
  <2>2. RecoveryPC \subseteq LockedPC
        /\ {"rrecord", "rreport", "rmanifest"} \subseteq LockedPC
    BY DEF RecoveryPC, LockedPC, RecoveryLocked
  <2> QED BY <1>1, <1>6, <2>1, <2>2 DEF RecoveryFacts
<1>9. SealedIsClosed'
  BY <1>6 DEF PilotInv, SealedIsClosed
<1> QED BY <1>3, <1>5, <1>6, <1>7, <1>8, <1>9 DEF PilotInv

(* Before the lease, claim.json alone decides who owns the store.           *)
LEMMA StartRunKeeps ==
    ASSUME PilotInv, NEW p \in Executors, StartRun(p), ~AcquireLease(p)
    PROVE  PilotInv'
<1> USE DEF Goto, locals, sealVars, envVars
<1>p. p \in Procs /\ PilotTypeOK
  BY DEF Procs, PilotInv
<1>1. \/ LoadAuthorization(p) \/ InitializeNew(p)
      \/ \E f \in Identity, l \in BeforeClaim \cup BeforeLease, n \in BeforeLease :
            /\ WriteIdentity(p, l, f, n)
            /\ l = "claim" => f = "claim"
            /\ l # "claim" => l \in BeforeLease
  BY DEF StartRun, ClaimAuthorization, WriteRuntimeProvenance, WriteRunIdentity,
         Identity, BeforeClaim, BeforeLease
<1>2. /\ \A l \in BeforeClaim \cup BeforeLease \cup {"refused"} :
             l \notin LockedPC /\ l \in ExecutorPC
      /\ \A l \in BeforeClaim \cup {"refused"} : l \notin OwnerPC
  BY DEF BeforeClaim, BeforeLease, LockedPC, AttemptPC, ClosingPC, LeavingPC,
         RecoveryLocked, OwnerPC, ExecutorPC, Ended
<1>3. CASE LoadAuthorization(p) \/ InitializeNew(p)
  <2>1. /\ pc[p] \in BeforeClaim
        /\ \E l \in BeforeClaim \cup {"refused"} : pc' = [pc EXCEPT ![p] = l]
    BY <1>3 DEF LoadAuthorization, InitializeNew, BeforeClaim
  <2> PICK l \in BeforeClaim \cup {"refused"} : pc' = [pc EXCEPT ![p] = l]
    BY <2>1
  <2>2. ProcessesTyped' /\ pc'[p] = l
    BY <1>p, <1>2, <2>1, ProcessTypes
  <2>3. UNCHANGED <<locals, ledgerVars, fileVars, evidence, sealVars, lock,
                    sends, envVars, faults>>
    BY <1>3 DEF LoadAuthorization, InitializeNew
  <2>4. PilotTypeOK'
    BY <1>p, <2>2, <2>3 DEF PilotTypeOK, ProcessesTyped, ledgerVars, fileVars
  <2> QED BY <1>p, <1>2, <2>1, <2>3, <2>4, OutsideStep DEF fileVars
<1>4. ASSUME NEW f \in Identity, NEW l \in BeforeClaim \cup BeforeLease,
             NEW n \in BeforeLease, WriteIdentity(p, l, f, n),
             l = "claim" => f = "claim", l # "claim" => l \in BeforeLease
      PROVE  PilotInv'
  <2>1. f \in Files
    BY DEF Files
  <2>2. /\ files' \subseteq Files /\ damaged' \subseteq files'
        /\ faults' \in 0 .. MaxFaults /\ files \subseteq files'
    BY <1>4, <1>p, <2>1, CreateEffect DEF WriteIdentity
  <2>3. PICK m \in {n, "refused"} : /\ pc' = [pc EXCEPT ![p] = m]
                                    /\ m = n /\ m # "refused" =>
                                           f \notin files /\ f \in files'
    BY <1>4, <1>p, <2>1, CreateEffect DEF WriteIdentity
  <2>4. UNCHANGED <<locals, ledgerVars, evidence, sealVars, lock, sends, envVars>>
        /\ pc[p] = l
    BY <1>4 DEF WriteIdentity
  <2>5. ProcessesTyped' /\ pc'[p] = m
    BY <1>p, <1>2, <2>3, ProcessTypes
  <2>6. PilotTypeOK'
    BY <1>p, <2>2, <2>4, <2>5 DEF PilotTypeOK, ProcessesTyped, ledgerVars
  <2>7. m \in OwnerPC => /\ pc[p] \in OwnerPC \/ "claim" \notin files
                         /\ "claim" \in files'
                         /\ m # "done"
    <3>1. m \in OwnerPC => m = n /\ m # "refused" /\ m # "done"
      BY <1>2, <2>3 DEF BeforeLease
    <3>2. CASE l = "claim"
      BY <1>4, <2>3, <2>4, <3>1, <3>2
    <3>3. CASE l # "claim"
      <4>1. pc[p] \in OwnerPC
        BY <1>4, <2>4, <3>3 DEF OwnerPC
      <4>2. "claim" \in files'
        BY <2>2, <4>1 DEF PilotInv, ClaimInv
      <4> QED BY <2>4, <3>1, <4>1, <4>2
    <3> QED BY <3>2, <3>3
  <2> QED BY <1>p, <1>2, <2>2, <2>3, <2>4, <2>6, <2>7, OutsideStep
<1> QED BY <1>1, <1>3, <1>4 DEF StartRun

(* The executor that holds the claim finds an untouched store.             *)
LEMMA AcquireLeaseKeeps ==
    ASSUME PilotInv, NEW p \in Executors, AcquireLease(p)
    PROVE  PilotInv'
<1> USE DEF Goto, locals, ledgerVars, fileVars, sealVars, envVars
<1>1. /\ pc[p] = "lease" /\ pc[p] \in BeforeLease /\ pc[p] \in OwnerPC
      /\ p \in Procs /\ p # NoOne
  BY PilotAssumption DEF AcquireLease, BeforeLease, OwnerPC, Procs
<1>2. UNCHANGED <<locals, ledgerVars, fileVars, evidence, sealVars, sends,
                  envVars, faults>>
  BY DEF AcquireLease
<1>3. CASE lock # NoOne
  <2>1. pc' = [pc EXCEPT ![p] = "refused"] /\ lock' = lock
    BY <1>3 DEF AcquireLease
  <2>2. /\ "refused" \in ExecutorPC /\ "refused" \notin LockedPC
        /\ "refused" \notin OwnerPC \cup BeforeClaim \cup BeforeLease
    BY DEF ExecutorPC, Ended, LockedPC, OwnerPC, BeforeClaim, BeforeLease,
           AttemptPC, ClosingPC, LeavingPC, RecoveryLocked
  <2>3. ProcessesTyped'
    BY <1>1, <2>1, <2>2, ProcessTypes DEF PilotInv
  <2>4. PilotTypeOK'
    BY <1>2, <2>1, <2>3 DEF PilotInv, PilotTypeOK, ProcessesTyped
  <2> QED BY <1>1, <1>2, <2>1, <2>2, <2>4, OutsideStep
<1>4. CASE lock = NoOne
  <2>1. pc' = [pc EXCEPT ![p] = "reserve"] /\ lock' = p
    BY <1>4 DEF AcquireLease
  <2>2. /\ "reserve" \in ExecutorPC /\ "reserve" \in AttemptPC
        /\ "reserve" \notin BeforeClaim \cup BeforeLease \cup ClosingPC
        /\ "reserve" \in OwnerPC
    BY DEF ExecutorPC, OwnerPC, BeforeClaim, BeforeLease, AttemptPC, ClosingPC
  <2>3. ProcessesTyped' /\ pc'[p] = "reserve"
    BY <1>1, <2>1, <2>2, ProcessTypes DEF PilotInv
  <2>4. PilotTypeOK'
    BY <1>1, <1>2, <2>1, <2>3 DEF PilotInv, PilotTypeOK, ProcessesTyped
  <2>5. \A q \in Procs : pc[q] \notin LockedPC
    BY <1>4, PilotAssumption DEF PilotInv, LeaseInv
  <2>6. \A q \in Procs : q # p => pc'[q] = pc[q]
    BY <2>1 DEF PilotInv, PilotTypeOK
  <2>7. LeaseInv'
    BY <2>1, <2>5, <2>6 DEF LeaseInv
  <2>8. Executors \subseteq Procs /\ Recoverers \subseteq Procs /\ p \notin Recoverers
    BY PilotAssumption DEF Procs
  <2>9. ClaimInv'
    BY <1>1, <1>2, <2>2, <2>3, <2>6, <2>8 DEF PilotInv, ClaimInv
  <2>10. /\ LedgerInv'
         /\ OpenAttempts' = OpenAttempts
         /\ \A t : Captured(t)' = Captured(t)
    BY <1>2, QuietLedger
  <2>11. /\ ~ledgerDir /\ manifest = "none" /\ tgt[p] = 1 /\ num[p] = 1
         /\ \A a \in Attempts : ledger[a] = "none"
    BY <1>1 DEF PilotInv, ClaimInv, LedgerInv
  <2>12. OpenAttempts = {}
    BY <2>11 DEF OpenAttempts, OpenStates
  <2>13. AttemptFacts(p)' /\ ClosingFacts(p)'
    <3>1. Attempt(p)' \in Attempts
      BY <2>4, AttemptTypes DEF PilotTypeOK, Attempt, Attempts, Kind, Kinds
    <3>2. AttemptInHand(p)'
      BY <2>3, <2>10, <2>12, <3>1 DEF AttemptInHand, OpenAttempts
    <3> QED BY <1>2, <2>2, <2>3, <2>10, <2>11, <2>12, <3>2
            DEF AttemptFacts, ClosingFacts
  <2>14. ASSUME NEW q \in Executors, q # p
         PROVE  AttemptFacts(q)' /\ ClosingFacts(q)'
    <3>1. pc'[q] = pc[q] /\ pc[q] \notin OwnerPC
      BY <1>1, <2>6, <2>8, <2>14 DEF PilotInv, ClaimInv
    <3>2. AttemptPC \subseteq OwnerPC /\ ClosingPC \subseteq OwnerPC
          /\ {"report", "premanifest", "accept", "leave", "done"} \subseteq OwnerPC
      BY DEF OwnerPC, ClosingPC, LeavingPC
    <3> QED BY <3>1, <3>2 DEF AttemptFacts, ClosingFacts
  <2>15. ASSUME NEW r \in Recoverers
         PROVE  RecoveryFacts(r)'
    <3>1. pc'[r] = pc[r] /\ RecoveryFacts(r)
      BY <2>6, <2>8 DEF PilotInv
    <3> QED BY <1>2, <2>10, <3>1 DEF RecoveryFacts
  <2>16. SealedIsClosed'
    BY <1>2, <2>11 DEF SealedIsClosed
  <2> QED BY <2>4, <2>7, <2>9, <2>10, <2>13, <2>14, <2>15, <2>16 DEF PilotInv
<1> QED BY <1>3, <1>4

(* Starting a recovery, leaving the lease, dying.                          *)
LEMMA RecoveryStartKeeps ==
    ASSUME PilotInv, NEW r \in Recoverers, Prevalidate(r) \/ AcquireRecoveryLease(r)
    PROVE  PilotInv'
<1> USE DEF Goto, locals, ledgerVars, fileVars, sealVars, envVars
<1>1. r \in Procs /\ r \notin Executors /\ r # NoOne
  BY PilotAssumption DEF Procs
<1>2. UNCHANGED <<locals, ledgerVars, fileVars, evidence, sealVars, sends,
                  envVars, faults>>
  BY DEF Prevalidate, AcquireRecoveryLease
<1>3. CASE pc' # [pc EXCEPT ![r] = "revalidate"]
  <2>1. PICK l \in {"rlease", "refused"} : pc' = [pc EXCEPT ![r] = l]
    BY <1>3 DEF Prevalidate, AcquireRecoveryLease
  <2>2. l \in RecovererPC /\ l \notin LockedPC
    BY DEF RecovererPC, Ended, LockedPC, AttemptPC, ClosingPC, LeavingPC,
           RecoveryLocked
  <2>3. ProcessesTyped'
    BY <1>1, <2>1, <2>2, ProcessTypes DEF PilotInv
  <2>4. lock' = lock
    BY <1>3 DEF Prevalidate, AcquireRecoveryLease
  <2>5. PilotTypeOK'
    BY <1>2, <2>3, <2>4 DEF PilotInv, PilotTypeOK, ProcessesTyped
  <2> QED BY <1>1, <1>2, <2>1, <2>2, <2>4, <2>5, OutsideStep
<1>4. CASE pc' = [pc EXCEPT ![r] = "revalidate"]
  <2>1. pc[r] \in {"idle", "rlease"} /\ lock = NoOne /\ lock' = r
    BY <1>1, <1>4 DEF Prevalidate, AcquireRecoveryLease, PilotInv, PilotTypeOK
  <2>2. "revalidate" \in RecovererPC /\ "revalidate" \notin RecoveryPC
    BY DEF RecovererPC, RecoveryLocked, RecoveryPC
  <2>3. ProcessesTyped' /\ pc'[r] = "revalidate"
    BY <1>1, <1>4, <2>2, ProcessTypes DEF PilotInv
  <2>4. PilotTypeOK'
    BY <1>1, <1>2, <2>1, <2>3 DEF PilotInv, PilotTypeOK, ProcessesTyped
  <2>5. \A q \in Procs : pc[q] \notin LockedPC
    BY <2>1, PilotAssumption DEF PilotInv, LeaseInv
  <2>6. \A q \in Procs : q # r => pc'[q] = pc[q]
    BY <1>4 DEF PilotInv, PilotTypeOK
  <2>7. LeaseInv'
    BY <2>1, <2>5, <2>6 DEF LeaseInv
  <2>8. \A q \in Executors : q \in Procs /\ q # r /\ pc'[q] = pc[q]
    BY <1>1, <2>6 DEF Procs
  <2>9. ClaimInv'
    BY <1>2, <2>8 DEF PilotInv, ClaimInv
  <2>10. /\ LedgerInv'
         /\ OpenAttempts' = OpenAttempts
         /\ \A t : Captured(t)' = Captured(t)
    BY <1>2, QuietLedger
  <2>11. ASSUME NEW q \in Executors
         PROVE  AttemptFacts(q)' /\ ClosingFacts(q)'
    <3>1. pc'[q] = pc[q] /\ pc[q] \notin AttemptPC /\ ClosingFacts(q)
      BY <2>5, <2>8 DEF PilotInv, LockedPC
    <3> QED BY <1>2, <2>10, <3>1 DEF AttemptFacts, ClosingFacts
  <2>12. ASSUME NEW q \in Recoverers
         PROVE  RecoveryFacts(q)'
    <3>1. q \in Procs /\ RecoveryFacts(q)
      BY DEF PilotInv, Procs
    <3> QED BY <1>2, <2>2, <2>3, <2>6, <2>10, <3>1 DEF RecoveryFacts
  <2>13. SealedIsClosed'
    BY <1>2, <2>10 DEF PilotInv, SealedIsClosed
  <2> QED BY <2>4, <2>7, <2>9, <2>10, <2>11, <2>12, <2>13 DEF PilotInv
<1> QED BY <1>3, <1>4

(* The end of a process, ordinary or not, gives up the lease at most.       *)
LEMMA LeavingKeeps ==
    ASSUME PilotInv, NEW p \in Procs, ReleaseLease(p) \/ Crash(p)
    PROVE  PilotInv'
<1> USE DEF Goto, locals, ledgerVars, fileVars, sealVars, envVars
<1>1. PICK l \in {"done", "raised", "crashed"} :
          /\ pc' = [pc EXCEPT ![p] = l]
          /\ l = "done" => pc[p] = "leave"
  BY DEF ReleaseLease, Crash, LeavingPC
<1>2. /\ l \in Ended
      /\ l \in ExecutorPC
      /\ l \in RecovererPC
      /\ l \notin LockedPC
      /\ l \notin BeforeClaim \cup BeforeLease
      /\ l \in OwnerPC => l = "done"
  BY DEF ExecutorPC, RecovererPC, Ended, LockedPC, OwnerPC, AttemptPC, ClosingPC,
         LeavingPC, RecoveryLocked, BeforeClaim, BeforeLease
<1>3. /\ UNCHANGED <<locals, ledgerVars, fileVars, evidence, sealVars, sends,
                     authChanged, expired, faults>>
      /\ lock' = IF lock = p THEN NoOne ELSE lock
      /\ crashes' \in 0 .. MaxCrashes
  <2>1. crashes \in 0 .. MaxCrashes /\ MaxCrashes \in Nat
    BY PilotAssumption DEF PilotInv, PilotTypeOK
  <2> QED BY <2>1 DEF ReleaseLease, Crash
<1>4. ProcessesTyped'
  BY <1>1, <1>2, ProcessTypes DEF PilotInv, Procs
<1>5. PilotTypeOK'
  BY <1>3, <1>4 DEF PilotInv, PilotTypeOK, ProcessesTyped
<1>6. \A q \in Procs : q # p /\ pc[q] \in LockedPC => lock' = lock
  BY <1>3 DEF PilotInv, LeaseInv
<1>7. p \in Executors /\ l \in OwnerPC =>
          pc[p] \in OwnerPC /\ "claim" \in files' /\ (l = "done" => pc[p] = "leave")
  <2>1. "leave" \in OwnerPC
    BY DEF OwnerPC, LeavingPC
  <2> QED BY <1>1, <1>2, <1>3, <2>1 DEF PilotInv, ClaimInv
<1> QED BY <1>1, <1>2, <1>3, <1>5, <1>6, <1>7, OutsideStep

(* The authorization file and the clock may change at any time.             *)
LEMMA QuietKeeps ==
    ASSUME PilotInv, ChangeAuthorization \/ CloseWindow \/ UNCHANGED vars
    PROVE  PilotInv'
<1> USE DEF locals, ledgerVars, fileVars, sealVars, envVars
<1>1. UNCHANGED <<pc, locals, ledgerVars, fileVars, evidence, sealVars, lock,
                  sends, crashes, faults>>
      /\ authChanged' \in BOOLEAN /\ expired' \in BOOLEAN
  BY DEF ChangeAuthorization, CloseWindow, vars, PilotInv, PilotTypeOK
<1>2. PilotTypeOK'
  BY <1>1 DEF PilotInv, PilotTypeOK
<1>3. /\ LedgerInv'
      /\ OpenAttempts' = OpenAttempts
      /\ \A t : Captured(t)' = Captured(t)
  BY <1>1, QuietLedger
<1>4. LeaseInv' /\ ClaimInv' /\ SealedIsClosed'
  BY <1>1, <1>3 DEF PilotInv, LeaseInv, ClaimInv, SealedIsClosed
<1>5. ASSUME NEW p \in Executors
      PROVE  AttemptFacts(p)' /\ ClosingFacts(p)'
  <2>1. AttemptFacts(p) /\ ClosingFacts(p)
    BY DEF PilotInv
  <2>2. Attempt(p)' = Attempt(p) /\ Predecessor(p)' = Predecessor(p)
    BY <1>1 DEF Attempt, Predecessor
  <2>3. AttemptInHand(p)' <=> AttemptInHand(p)
    BY <1>1, <2>2 DEF AttemptInHand
  <2> QED BY <1>1, <1>3, <2>1, <2>2, <2>3 DEF AttemptFacts, ClosingFacts
<1>6. \A r \in Recoverers : RecoveryFacts(r)'
  BY <1>1, <1>3 DEF PilotInv, RecoveryFacts
<1> QED BY <1>2, <1>3, <1>4, <1>5, <1>6 DEF PilotInv

-----------------------------------------------------------------------------
(* The invariant *)

(* An empty store satisfies the invariant.                                  *)
LEMMA InitKeeps == Init => PilotInv
<1> SUFFICES ASSUME Init
             PROVE  PilotInv
  OBVIOUS
<1>1. PilotTypeOK
  <2>1. "idle" \in ExecutorPC /\ "idle" \in RecovererPC
    BY DEF ExecutorPC, RecovererPC, BeforeClaim
  <2>2. ProcessesTyped
    BY <2>1 DEF Init, ProcessesTyped, Procs
  <2>3. 1 \in Targets /\ <<1, "PRIMARY">> \in Attempts
    BY PilotAssumption DEF Targets, Attempts, Kinds
  <2>4. LedgerTyped
    <3>1. 0 \in 0 .. MaxFaults
      BY PilotAssumption
    <3>2. last \in Attempts
      BY <2>3 DEF Init
    <3>3. ledger \in [Attempts -> AttemptStates \cup {"none"}]
      BY DEF Init
    <3>4. retryOK \in [Attempts -> BOOLEAN]
      BY DEF Init
    <3> QED BY <3>1, <3>2, <3>3, <3>4 DEF Init, LedgerTyped
  <2>5. /\ tgt \in [Executors -> Targets]
        /\ num \in [Executors -> {1, 2}]
        /\ exch \in [Executors -> BOOLEAN]
        /\ resp \in [Executors -> Responses]
        /\ failed \in [Executors -> BOOLEAN]
    BY <2>3 DEF Init, Responses
  <2>6. /\ files \subseteq Files
        /\ damaged \subseteq files
        /\ evidence \subseteq Evidence
        /\ manifest \in {"none", "partial", "complete"}
        /\ lock \in Procs \cup {NoOne}
    BY DEF Init
  <2>7. sends \in [Attempts -> 0 .. 1]
    BY DEF Init
  <2>8. authChanged \in BOOLEAN /\ expired \in BOOLEAN
    BY DEF Init
  <2>9. crashes \in 0 .. MaxCrashes
    BY PilotAssumption DEF Init
  <2> QED BY <2>2, <2>4, <2>5, <2>6, <2>7, <2>8, <2>9
          DEF PilotTypeOK, ProcessesTyped, LedgerTyped
<1>2. \A p \in Procs : pc[p] = "idle"
  BY DEF Init
<1>3. "idle" \notin LockedPC \cup OwnerPC \cup BeforeLease
  BY DEF LockedPC, OwnerPC, AttemptPC, ClosingPC, RecoveryLocked, LeavingPC,
         BeforeLease
<1>4. LeaseInv
  BY <1>2, <1>3 DEF LeaseInv
<1>5. ClaimInv
  BY <1>2, <1>3 DEF Init, ClaimInv, Procs
<1>6. LedgerInv
  BY DEF Init, LedgerInv, LedgerTellsTheTruth, Attempts, Kinds
<1>7. ASSUME NEW p \in Executors
      PROVE  AttemptFacts(p) /\ ClosingFacts(p)
  BY <1>2 DEF AttemptFacts, ClosingFacts, AttemptPC, ClosingPC, Procs
<1>8. ASSUME NEW r \in Recoverers
      PROVE  RecoveryFacts(r)
  BY <1>2 DEF RecoveryFacts, RecoveryPC, RecoveryLocked, Procs
<1>9. SealedIsClosed
  BY DEF Init, SealedIsClosed
<1> QED BY <1>1, <1>4, <1>5, <1>6, <1>7, <1>8, <1>9 DEF PilotInv

(* Every step keeps the invariant.                                          *)
LEMMA NextKeeps == PilotInv /\ [Next]_vars => PilotInv'
<1> SUFFICES ASSUME PilotInv, [Next]_vars
             PROVE  PilotInv'
  OBVIOUS
<1>1. ASSUME NEW p \in Executors, StartRun(p)
      PROVE  PilotInv'
  BY <1>1, StartRunKeeps, AcquireLeaseKeeps
<1>2. ASSUME NEW p \in Executors, ExecuteTarget(p) \/ FinishRun(p)
      PROVE  PilotInv'
  BY <1>2, ExecuteTargetKeeps, FinishRunKeeps
<1>3. ASSUME NEW r \in Recoverers, Recover(r)
      PROVE  PilotInv'
  BY <1>3, RecoveryStartKeeps, RevalidateKeeps, RecoveryFilesKeep,
     RecoverIncompleteKeeps, SealRecoveredKeeps DEF Recover
<1>4. ASSUME NEW p \in Procs, ReleaseLease(p) \/ Crash(p)
      PROVE  PilotInv'
  BY <1>4, LeavingKeeps
<1>5. CASE ChangeAuthorization \/ CloseWindow \/ UNCHANGED vars
  BY <1>5, QuietKeeps
<1> QED BY <1>1, <1>2, <1>3, <1>4, <1>5 DEF Next

(* PilotInv is inductive: it holds of every store the executors and         *)
(* recoveries of the pilot can leave behind.                                *)
THEOREM PilotInvariant == Spec => []PilotInv
<1>1. Init => PilotInv
  BY InitKeeps
<1>2. PilotInv /\ [Next]_vars => PilotInv'
  BY NextKeeps
<1> QED BY <1>1, <1>2, PTL DEF Spec

(* Every variable of the pilot stays within its range; in particular no     *)
(* attempt is ever sent twice.                                              *)
THEOREM PilotTypeCorrect == Spec => []PilotTypeOK
<1>1. PilotInv => PilotTypeOK
  BY DEF PilotInv
<1> QED BY <1>1, PilotInvariant, PTL

(* A request that may have left the host is never recorded as unsent, and   *)
(* a response recorded as captured was asked for and is on disk: about      *)
(* _execute_target, its clean-up and recover_incomplete.                    *)
THEOREM LedgerIsTruthful == Spec => []LedgerTellsTheTruth
<1>1. PilotInv => LedgerTellsTheTruth
  BY DEF PilotInv, LedgerInv
<1> QED BY <1>1, PilotInvariant, PTL

(* Nobody seals a store with an attempt whose fate is open: about run()'s   *)
(* handler for evidence errors, the lease, and recover().                   *)
THEOREM SealedStoreIsClosed == Spec => []SealedIsClosed
<1>1. PilotInv => SealedIsClosed
  BY DEF PilotInv
<1> QED BY <1>1, PilotInvariant, PTL

(* A run that reports no failure has every target's answer on disk: about   *)
(* the results run() collects and the report it builds from them.           *)
THEOREM SufficientRunIsComplete == Spec => []SufficientIsComplete
<1>1. PilotInv => SufficientIsComplete
  <2> SUFFICES ASSUME PilotInv, NEW p \in Executors,
                      pc[p] \in {"premanifest", "accept", "leave", "done"},
                      ~failed[p], NEW t \in Targets
               PROVE  \E k \in Kinds :
                          /\ ledger[<<t, k>>] = "RESPONSE_CAPTURED"
                          /\ <<"response", <<t, k>>>> \in evidence
    BY DEF SufficientIsComplete
  <2>1. PICK k \in Kinds : ledger[<<t, k>>] = "RESPONSE_CAPTURED"
    BY DEF PilotInv, ClosingFacts, Captured
  <2>2. <<t, k>> \in Attempts
    BY DEF Attempts
  <2> QED BY <2>1, <2>2 DEF PilotInv, LedgerInv, LedgerTellsTheTruth
<1> QED BY <1>1, PilotInvariant, PTL

-----------------------------------------------------------------------------
(* What one step writes.  The properties of steps and the refinement need   *)
(* only this, so each action is looked at once.                             *)

disk == <<ledger, torn, files, evidence, sealVars>>

NothingWritten == UNCHANGED <<disk, sends>>

LineWritten ==
    /\ manifest = "none"
    /\ \A a \in Attempts : ledger'[a] # ledger[a] =>
           <<ledger[a], ledger'[a]>> \in Transitions
    /\ UNCHANGED <<files, evidence, sealVars, sends>>

EvidenceWritten ==
    /\ manifest = "none"
    /\ \E p \in Executors, k \in {"request", "response", "unusable"} :
          /\ k = "response" => pc[p] = "capture"
          /\ evidence' \in {evidence, evidence \cup {<<k, Attempt(p)>>}}
    /\ UNCHANGED <<ledger, torn, files, sealVars, sends>>

RequestSent ==
    /\ \E p \in Executors : pc[p] = "send" /\ CountSend(p)
    /\ UNCHANGED disk

FileWritten ==
    /\ \/ manifest = "none"
       \/ /\ files' = files \cup {"integrity_failure"}
          /\ lock \in Executors
    /\ UNCHANGED <<ledger, torn, evidence, sealVars, sends>>

StoreSealed ==
    /\ manifest = "none"
    /\ UNCHANGED <<ledger, torn, files, evidence, sends>>

StepEffect ==
    \/ NothingWritten \/ LineWritten \/ EvidenceWritten \/ RequestSent
    \/ FileWritten \/ StoreSealed

(* A line that is legal for the reader, written to an unsealed store.       *)
LEMMA AppendWritesLine ==
    ASSUME PilotTypeOK, NEW p \in Procs, NEW a \in Attempts,
           NEW s \in AttemptStates, NEW r \in BOOLEAN,
           NEW n, NEW e, Append(p, a, s, r, n, e),
           ~torn => <<ledger[a], s>> \in Transitions,
           manifest = "none",
           UNCHANGED <<files, evidence, sealVars, sends>>
    PROVE  LineWritten
<1>1. /\ ledger' # ledger => ~torn
      /\ ledger' \in {ledger, [ledger EXCEPT ![a] = s]}
  BY AppendEffect
<1>2. ledger \in [Attempts -> AttemptStates \cup {"none"}]
  BY DEF PilotTypeOK
<1>3. ASSUME NEW b \in Attempts, ledger'[b] # ledger[b]
      PROVE  <<ledger[b], ledger'[b]>> \in Transitions
  BY <1>1, <1>2, <1>3
<1> QED BY <1>3 DEF LineWritten

(* What a step of an attempt writes: all the appends of _execute_target.    *)
LEMMA AttemptWrites ==
    ASSUME PilotInv, NEW p \in Executors, ExecuteTarget(p)
    PROVE  StepEffect
<1> USE DEF locals, fileVars, sealVars, envVars
<1>1. p \in Procs /\ PilotTypeOK /\ Attempt(p) \in Attempts /\ last \in Attempts
  BY AttemptTypes DEF PilotInv, PilotTypeOK, Procs
<1>2. pc[p] \in AttemptPC => manifest = "none"
  BY DEF PilotInv, AttemptFacts
<1>3. CASE \/ GateBeforeBoundary(p) \/ Prepare(p) \/ GateAfterPrepare(p)
           \/ SendFailsLocally(p) \/ PreSendAuthorizationChanged(p)
           \/ Receive(p) \/ SleepAndRetry(p) \/ NextTarget(p)
           \/ ReserveRefused(p) \/ HandleEvidenceError(p)
  <2>1. NothingWritten
    BY <1>3 DEF GateBeforeBoundary, Prepare, GateAfterPrepare, SendFailsLocally,
       PreSendAuthorizationChanged, Receive, SleepAndRetry, NextTarget,
       ReserveRefused, HandleEvidenceError, NothingWritten, disk, ledgerVars
  <2> QED BY <2>1 DEF StepEffect
<1>4. CASE SendSucceeds(p) \/ EndHeadersFails(p)
  BY <1>4 DEF SendSucceeds, EndHeadersFails, StepEffect, RequestSent, disk,
     ledgerVars
<1>5. CASE WriteAttemptRequest(p) \/ Capture(p)
  <2>1. /\ pc[p] \in {"request", "capture"}
        /\ UNCHANGED <<ledger, torn, files, sealVars, sends>>
    BY <1>5 DEF WriteAttemptRequest, Capture, ledgerVars
  <2>2. manifest = "none"
    BY <1>2, <2>1 DEF AttemptPC
  <2>3. \E k \in {"request", "response", "unusable"} :
            /\ k = "response" => pc[p] = "capture"
            /\ evidence' \in {evidence, evidence \cup {<<k, Attempt(p)>>}}
    BY <1>5 DEF WriteAttemptRequest, Capture, CreateEvidence
  <2> QED BY <2>1, <2>2, <2>3 DEF StepEffect, EvidenceWritten
<1>6. CASE Reserve(p)
  <2>1. pc[p] = "reserve" /\ manifest = "none"
    BY <1>2, <1>6 DEF Reserve, AttemptPC
  <2>2. ~torn => <<ledger[Attempt(p)], "RESERVED">> \in Transitions
    BY <1>6, AppendsAreLegal DEF Legal
  <2>3. LineWritten
    BY <1>1, <1>6, <2>1, <2>2, AppendWritesLine DEF Reserve, AttemptStates
  <2> QED BY <2>3 DEF StepEffect
<1>7. CASE \/ RecordPreSendFailure(p) \/ RecordSent(p) \/ RecordResponse(p)
           \/ RecordSentUnknown(p) \/ RecordTerminalStop(p)
  <2>1. PICK s \in AttemptStates, r \in BOOLEAN :
            /\ \E n, e : Append(p, Attempt(p), s, r, n, e)
            /\ <<ledger[Attempt(p)], s>> \in Transitions
    <3>1. CASE RecordPreSendFailure(p)
      <4>1. pc[p] = "presend"
        BY <3>1 DEF RecordPreSendFailure
      <4>2. \E r \in BOOLEAN : \E n, e :
                Append(p, Attempt(p), "PROVABLE_PRE_SEND_FAILURE", r, n, e)
        BY <3>1 DEF RecordPreSendFailure
      <4> QED BY <4>1, <4>2, AppendsAreLegal DEF Legal, AttemptStates
    <3>2. CASE RecordSent(p)
      BY <3>2, AppendsAreLegal DEF RecordSent, Legal, AttemptStates
    <3>3. CASE RecordResponse(p)
      <4>1. pc[p] = "record"
        BY <3>3 DEF RecordResponse
      <4>2. \E r \in BOOLEAN : \E n, e :
                Append(p, Attempt(p), "RESPONSE_CAPTURED", r, n, e)
        BY <3>3 DEF RecordResponse
      <4> QED BY <4>1, <4>2, AppendsAreLegal DEF Legal, AttemptStates
    <3>4. CASE RecordSentUnknown(p)
      BY <3>4, AppendsAreLegal
         DEF RecordSentUnknown, StopAttempt, Legal, AttemptStates
    <3>5. CASE RecordTerminalStop(p)
      BY <3>5, AppendsAreLegal
         DEF RecordTerminalStop, StopAttempt, Legal, AttemptStates
    <3> QED BY <1>7, <3>1, <3>2, <3>3, <3>4, <3>5
  <2>2. /\ pc[p] \in {"presend", "sent", "record", "unknown", "terminal"}
        /\ UNCHANGED <<files, evidence, sealVars, sends>>
    BY <1>7 DEF RecordPreSendFailure, RecordSent, RecordResponse,
       RecordSentUnknown, RecordTerminalStop, StopAttempt
  <2>3. manifest = "none"
    BY <1>2, <2>2 DEF AttemptPC
  <2>4. LineWritten
    BY <1>1, <2>1, <2>2, <2>3, AppendWritesLine
  <2> QED BY <2>4 DEF StepEffect
<1>8. CASE Unwind(p)
  <2>1. /\ manifest = "none"
        /\ UNCHANGED <<files, evidence, sealVars, sends>>
    BY <1>2, <1>8 DEF Unwind, AttemptPC
  <2>2. CASE MustClose(p)
    <3>1. <<ledger[last], "SENT_UNKNOWN">> \in Transitions
      BY <2>2 DEF MustClose, OpenStates, Transitions
    <3>2. LineWritten
      BY <1>1, <1>8, <2>1, <2>2, <3>1, AppendWritesLine DEF Unwind, AttemptStates
    <3> QED BY <3>2 DEF StepEffect
  <2>3. CASE ~MustClose(p)
    BY <1>8, <2>1, <2>3 DEF Unwind, StepEffect, NothingWritten, disk, ledgerVars
  <2> QED BY <2>2, <2>3
<1> QED BY <1>3, <1>4, <1>5, <1>6, <1>7, <1>8 DEF ExecuteTarget

(* What the run writes before it holds the lease.                           *)
LEMMA StartWrites ==
    ASSUME PilotInv, NEW p \in Executors, StartRun(p)
    PROVE  StepEffect
<1> USE DEF locals, envVars
<1>1. CASE LoadAuthorization(p) \/ InitializeNew(p) \/ AcquireLease(p)
  BY <1>1 DEF LoadAuthorization, InitializeNew, AcquireLease, StepEffect,
     NothingWritten, disk, ledgerVars, fileVars
<1>2. CASE WriteIdentity(p, "claim", "claim", "authorize")
  <2>1. UNCHANGED <<ledger, torn, evidence, sealVars, sends>>
    BY <1>2 DEF WriteIdentity, ledgerVars
  <2>2. CASE "claim" \in files
    <3>1. files' = files
      BY <1>2, <2>2 DEF WriteIdentity, Create, fileVars
    <3> QED BY <2>1, <3>1 DEF StepEffect, NothingWritten, disk
  <2>3. CASE "claim" \notin files
    BY <2>1, <2>3 DEF PilotInv, ClaimInv, StepEffect, FileWritten
  <2> QED BY <2>2, <2>3
<1>3. CASE \/ WriteIdentity(p, "authorize", "authorization", "provenance")
           \/ WriteRuntimeProvenance(p) \/ WriteRunIdentity(p)
  <2>1. /\ pc[p] \in BeforeLease
        /\ UNCHANGED <<ledger, torn, evidence, sealVars, sends>>
    BY <1>3 DEF WriteRuntimeProvenance, WriteRunIdentity, WriteIdentity,
       BeforeLease, ledgerVars
  <2> QED BY <2>1 DEF PilotInv, ClaimInv, StepEffect, FileWritten
<1> QED BY <1>1, <1>2, <1>3 DEF StartRun, ClaimAuthorization

(* What closing a run writes.                                               *)
LEMMA FinishWrites ==
    ASSUME PilotInv, NEW p \in Executors, FinishRun(p)
    PROVE  StepEffect
<1> USE DEF locals, envVars
<1>1. CASE WriteReport(p)
  <2>1. manifest = "none"
    BY <1>1 DEF WriteReport, PilotInv, ClosingFacts
  <2> QED BY <1>1, <2>1 DEF WriteReport, StepEffect, FileWritten, ledgerVars
<1>2. CASE WriteManifest(p)
  <2>1. manifest = "none"
    BY <1>2 DEF WriteManifest, PilotInv, ClosingFacts
  <2>2. CASE authChanged
    BY <1>2, <2>1, <2>2
       DEF WriteManifest, RejectRun, StepEffect, FileWritten, ledgerVars
  <2>3. CASE ~authChanged
    BY <1>2, <2>1, <2>3
       DEF WriteManifest, StepEffect, StoreSealed, ledgerVars, fileVars
  <2> QED BY <2>2, <2>3
<1>3. CASE Accept(p)
  <2>1. lock \in Executors
    <3>1. p \in Procs /\ pc[p] \in LockedPC
      BY <1>3 DEF Accept, LockedPC, ClosingPC, Procs
    <3> QED BY <3>1 DEF PilotInv, LeaseInv
  <2>2. /\ files' \in {files, files \cup {"integrity_failure"}}
        /\ UNCHANGED <<ledger, torn, evidence, sealVars, sends>>
    BY <1>3 DEF Accept, RejectRun, Create, fileVars, ledgerVars
  <2> QED BY <2>1, <2>2 DEF StepEffect, FileWritten, NothingWritten, disk
<1> QED BY <1>1, <1>2, <1>3 DEF FinishRun

(* What a recovery writes.                                                  *)
LEMMA RecoveryWrites ==
    ASSUME PilotInv, NEW r \in Recoverers, Recover(r)
    PROVE  StepEffect
<1> USE DEF locals, envVars
<1>1. r \in Procs /\ PilotTypeOK
  BY DEF PilotInv, Procs
<1>2. pc[r] \in {"rprovenance", "rscan", "rrecord", "rreport", "rmanifest"} =>
          manifest = "none"
  BY DEF PilotInv, RecoveryFacts, RecoveryPC, RecoveryLocked, LeavingPC
<1>3. CASE \/ Prevalidate(r) \/ AcquireRecoveryLease(r) \/ Revalidate(r)
           \/ VerifyRecovered(r)
  BY <1>3 DEF Prevalidate, AcquireRecoveryLease, Revalidate, VerifyRecovered,
     StepEffect, NothingWritten, disk, ledgerVars, fileVars
<1>4. CASE \/ WriteRecoveryProvenance(r) \/ WriteRecoveryRecord(r)
           \/ WriteRecoveryReport(r)
  BY <1>2, <1>4 DEF WriteRecoveryProvenance, WriteRecoveryRecord,
     WriteRecoveryReport, WriteRecoveryFile, StepEffect, FileWritten, ledgerVars
<1>5. CASE RecoverIncomplete(r)
  <2>1. /\ manifest = "none"
        /\ UNCHANGED <<files, evidence, sealVars, sends>>
    BY <1>2, <1>5 DEF RecoverIncomplete, fileVars
  <2>2. CASE UNCHANGED ledgerVars
    BY <2>1, <2>2 DEF StepEffect, NothingWritten, disk, ledgerVars
  <2>3. ASSUME NEW a \in OpenAttempts,
               Append(r, a, "SENT_UNKNOWN", FALSE, "rscan", "raising")
        PROVE  StepEffect
    <3>1. a \in Attempts /\ <<ledger[a], "SENT_UNKNOWN">> \in Transitions
      BY DEF OpenAttempts, OpenStates, Transitions
    <3>2. LineWritten
      BY <1>1, <2>1, <2>3, <3>1, AppendWritesLine DEF AttemptStates
    <3> QED BY <3>2 DEF StepEffect
  <2> QED BY <1>5, <2>2, <2>3 DEF RecoverIncomplete
<1>6. CASE SealRecovered(r)
  BY <1>2, <1>6 DEF SealRecovered, StepEffect, StoreSealed, ledgerVars, fileVars
<1> QED BY <1>3, <1>4, <1>5, <1>6 DEF Recover

(* Every step writes at most one thing, and only to an unsealed store,      *)
(* except for the rejection of a run by the executor that sealed it.        *)
LEMMA StepWrites == PilotInv /\ [Next]_vars => StepEffect
<1> SUFFICES ASSUME PilotInv, [Next]_vars
             PROVE  StepEffect
  OBVIOUS
<1>1. ASSUME NEW p \in Executors, StartRun(p) \/ ExecuteTarget(p) \/ FinishRun(p)
      PROVE  StepEffect
  BY <1>1, StartWrites, AttemptWrites, FinishWrites
<1>2. ASSUME NEW r \in Recoverers, Recover(r)
      PROVE  StepEffect
  BY <1>2, RecoveryWrites
<1>3. ASSUME NEW p \in Procs, ReleaseLease(p) \/ Crash(p)
      PROVE  StepEffect
  BY <1>3 DEF ReleaseLease, Crash, StepEffect, NothingWritten, disk, ledgerVars,
     fileVars
<1>4. CASE ChangeAuthorization \/ CloseWindow \/ UNCHANGED vars
  BY <1>4 DEF ChangeAuthorization, CloseWindow, vars, StepEffect,
     NothingWritten, disk, ledgerVars, fileVars
<1> QED BY <1>1, <1>2, <1>3, <1>4 DEF Next

(* No executor or recovery ever appends a line the reader of the ledger     *)
(* would refuse: about _validate_transitions and every caller of append.    *)
THEOREM LedgerIsReadable == Spec => LedgerStaysReadable
<1>1. PilotInv /\ [Next]_vars =>
          [\A a \in Attempts : ledger'[a] # ledger[a] =>
               <<ledger[a], ledger'[a]>> \in Transitions]_vars
  <2> SUFFICES ASSUME PilotInv, [Next]_vars
               PROVE  \A a \in Attempts : ledger'[a] # ledger[a] =>
                          <<ledger[a], ledger'[a]>> \in Transitions
    OBVIOUS
  <2>1. StepEffect
    BY StepWrites
  <2> QED BY <2>1 DEF StepEffect, NothingWritten, LineWritten, EvidenceWritten,
             RequestSent, FileWritten, StoreSealed, disk
<1> QED BY <1>1, PilotInvariant, PTL DEF Spec, LedgerStaysReadable

(* A sealed store stays as it was sealed, whatever the other processes do;  *)
(* only the executor that holds the lease may add its rejection.            *)
THEOREM SealedStoreIsFinal == Spec => SealIsFinal
<1>1. PilotInv /\ [Next]_vars =>
          [Verifies => \/ Verifies'
                       \/ /\ files' = files \cup {"integrity_failure"}
                          /\ lock \in Executors]_vars
  <2> SUFFICES ASSUME PilotInv, [Next]_vars, Verifies
               PROVE  \/ Verifies'
                      \/ /\ files' = files \cup {"integrity_failure"}
                         /\ lock \in Executors
    OBVIOUS
  <2>1. StepEffect
    BY StepWrites
  <2>2. manifest # "none"
    BY DEF Verifies
  <2>3. \/ UNCHANGED disk
        \/ /\ files' = files \cup {"integrity_failure"}
           /\ lock \in Executors
    BY <2>1, <2>2 DEF StepEffect, NothingWritten, LineWritten, EvidenceWritten,
       RequestSent, FileWritten, StoreSealed
  <2> QED BY <2>3 DEF disk, sealVars, Verifies, Contents
<1> QED BY <1>1, PilotInvariant, PTL DEF Spec, SealIsFinal

-----------------------------------------------------------------------------
(* The promise about the provider *)

(* What the ledger says of the requests of an attempt.                      *)
LEMMA SendsRecorded ==
    ASSUME PilotInv, NEW a \in Attempts
    PROVE  /\ sends[a] \in {0, 1}
           /\ ledger[a] \in {"none", "PROVABLE_PRE_SEND_FAILURE"} => sends[a] = 0
           /\ ledger[a] = "RESPONSE_CAPTURED" =>
                 sends[a] = 1 /\ <<"response", a>> \in evidence
<1>1. sends[a] \in 0 .. 1
  BY DEF PilotInv, PilotTypeOK
<1>2. LedgerTellsTheTruth
  BY DEF PilotInv, LedgerInv
<1>3. ledger[a] \in {"none", "PROVABLE_PRE_SEND_FAILURE"} => ~(sends[a] > 0)
  BY <1>2 DEF LedgerTellsTheTruth
<1>4. ledger[a] = "RESPONSE_CAPTURED" =>
          sends[a] = 1 /\ <<"response", a>> \in evidence
  BY <1>2 DEF LedgerTellsTheTruth
<1> QED BY <1>1, <1>3, <1>4

(* The retry of a target is sent only when the ledger shows a first attempt *)
(* that was never sent or was answered.                                     *)
LEMMA SendKeepsPromise ==
    ASSUME PilotInv, RequestSent
    PROVE  \E t \in Targets : Contract!Call(t)
<1> DEFINE first(t) == <<t, "PRIMARY">>
           second(t) == <<t, "RETRY">>
           calls == [t \in Targets |-> sends[first(t)] + sends[second(t)]]
           answered == {t \in Targets : <<"response", first(t)>> \in evidence}
<1>1. PICK p \in Executors : pc[p] = "send" /\ CountSend(p)
  BY DEF RequestSent
<1>2. /\ ledger[Attempt(p)] = "RESERVED" /\ sends[Attempt(p)] = 0
      /\ manifest = "none"
      /\ num[p] = 2 => ledger[Predecessor(p)] \in
                           {"PROVABLE_PRE_SEND_FAILURE", "RESPONSE_CAPTURED"}
  BY <1>1 DEF PilotInv, AttemptFacts, AttemptPC, AttemptInHand
<1>3. PICK t \in Targets : t = tgt[p]
  BY DEF PilotInv, PilotTypeOK
<1>4. /\ first(t) \in Attempts /\ second(t) \in Attempts
      /\ Attempt(p) \in {first(t), second(t)}
      /\ Attempt(p) = first(t) \/ num[p] = 2
      /\ Predecessor(p) = first(t)
  BY <1>3 DEF PilotInv, PilotTypeOK, Attempt, Predecessor, Kind, Attempts, Kinds
<1>5. \/ sends[first(t)] = 0 /\ sends[second(t)] = 0
      \/ /\ sends[first(t)] = 1 /\ sends[second(t)] = 0
         /\ <<"response", first(t)>> \in evidence
  <2>1. CASE Attempt(p) = first(t)
    <3>1. ledger[second(t)] = "none"
      BY <1>2, <2>1 DEF PilotInv, LedgerInv
    <3> QED BY <1>2, <1>4, <2>1, <3>1, SendsRecorded
  <2>2. CASE Attempt(p) = second(t) /\ Attempt(p) # first(t)
    <3>1. /\ sends[second(t)] = 0
          /\ ledger[first(t)] \in {"PROVABLE_PRE_SEND_FAILURE",
                                   "RESPONSE_CAPTURED"}
      BY <1>2, <1>4, <2>2
    <3> QED BY <1>4, <3>1, SendsRecorded
  <2> QED BY <1>4, <2>1, <2>2
<1>6. calls' = [calls EXCEPT ![t] = @ + 1]
  <2> SUFFICES ASSUME NEW u \in Targets
               PROVE  sends'[first(u)] + sends'[second(u)] =
                          IF u = t
                          THEN sends[first(u)] + sends[second(u)] + 1
                          ELSE sends[first(u)] + sends[second(u)]
    OBVIOUS
  <2>1. sends' = [sends EXCEPT ![Attempt(p)] = sends[Attempt(p)] + 1]
    BY <1>1 DEF CountSend
  <2>2. first(u) \in Attempts /\ second(u) \in Attempts /\ first(u) # second(u)
    BY DEF Attempts, Kinds
  <2>3. sends \in [Attempts -> 0 .. 1]
    BY DEF PilotInv, PilotTypeOK
  <2> QED BY <1>4, <2>1, <2>2, <2>3
<1>7. \/ calls[t] = 0
      \/ calls[t] = 1 /\ t \in answered
  BY <1>5
<1>8. UNCHANGED <<evidence, manifest>>
  BY DEF RequestSent, disk, sealVars
<1>9. answered' = answered /\ (manifest # "none")' = (manifest # "none")
  BY <1>8
<1> QED BY <1>2, <1>6, <1>7, <1>9 DEF Contract!Call

(* Evidence becomes durable as an answer to the first request, or does not  *)
(* concern the promise.                                                     *)
LEMMA EvidenceKeepsPromise ==
    ASSUME PilotInv, EvidenceWritten
    PROVE  (\E t \in Targets : Contract!Answer(t)) \/ UNCHANGED Contract!vars
<1> DEFINE first(t) == <<t, "PRIMARY">>
           second(t) == <<t, "RETRY">>
           answered == {t \in Targets : <<"response", first(t)>> \in evidence}
<1>1. PICK p \in Executors, k \in {"request", "response", "unusable"} :
          /\ k = "response" => pc[p] = "capture"
          /\ evidence' \in {evidence, evidence \cup {<<k, Attempt(p)>>}}
  BY DEF EvidenceWritten
<1>2. PICK t \in Targets : t = tgt[p]
  BY DEF PilotInv, PilotTypeOK
<1>3. UNCHANGED <<sends, manifest>> /\ manifest = "none"
  BY DEF EvidenceWritten, sealVars
<1>4. CASE k = "response" /\ num[p] = 1 /\ evidence' # evidence
  <2>1. Attempt(p) = first(t)
    BY <1>2, <1>4 DEF Attempt, Kind
  <2>2. ledger[first(t)] = "SENT" /\ sends[first(t)] = 1
    BY <1>1, <1>4, <2>1 DEF PilotInv, AttemptFacts, AttemptPC, AttemptInHand
  <2>3. ledger[second(t)] = "none"
    BY <2>2 DEF PilotInv, LedgerInv
  <2>4. second(t) \in Attempts
    BY DEF Attempts, Kinds
  <2>5. sends[second(t)] = 0
    BY <2>3, <2>4, SendsRecorded
  <2>6. answered' = answered \cup {t}
    <3>1. evidence' = evidence \cup {<<"response", first(t)>>}
      BY <1>1, <1>4, <2>1
    <3> QED BY <3>1
  <2> QED BY <1>3, <2>2, <2>5, <2>6 DEF Contract!Answer
<1>5. CASE ~(k = "response" /\ num[p] = 1 /\ evidence' # evidence)
  <2>1. \A u \in Targets : <<k, Attempt(p)>> = <<"response", first(u)>> =>
            k = "response" /\ num[p] = 1
    BY DEF PilotInv, PilotTypeOK, Attempt, Kind
  <2>2. answered' = answered
    BY <1>1, <1>5, <2>1
  <2> QED BY <1>3, <2>2 DEF Contract!vars
<1> QED BY <1>4, <1>5

(* The pilot implements PilotContract: every step is a call, an answer or   *)
(* the seal of the contract, or none of its business.                       *)
THEOREM PilotKeepsPromise == Spec => PilotPromise
<1>1. Init => Contract!Init
  <2> SUFFICES ASSUME Init
               PROVE  Contract!Init
    OBVIOUS
  <2>1. \A t \in Targets : sends[<<t, "PRIMARY">>] = 0 /\ sends[<<t, "RETRY">>] = 0
    BY DEF Init, Attempts, Kinds
  <2>2. evidence = {} /\ manifest = "none"
    BY DEF Init
  <2> QED BY <2>1, <2>2 DEF Contract!Init
<1>2. PilotInv /\ [Next]_vars => [Contract!Next]_(Contract!vars)
  <2> SUFFICES ASSUME PilotInv, [Next]_vars
               PROVE  Contract!Next \/ UNCHANGED Contract!vars
    OBVIOUS
  <2>1. CASE NothingWritten \/ LineWritten \/ FileWritten
    BY <2>1 DEF NothingWritten, LineWritten, FileWritten, disk, sealVars,
       Contract!vars
  <2>2. CASE EvidenceWritten
    BY <2>2, EvidenceKeepsPromise DEF Contract!Next
  <2>3. CASE RequestSent
    BY <2>3, SendKeepsPromise DEF Contract!Next
  <2>4. CASE StoreSealed
    BY <2>4 DEF StoreSealed, Contract!Next, Contract!Seal, Contract!vars
  <2> QED BY <2>1, <2>2, <2>3, <2>4, StepWrites DEF StepEffect
<1> QED BY <1>1, <1>2, PilotInvariant, PTL DEF Spec, PilotPromise, Contract!Spec
=============================================================================
