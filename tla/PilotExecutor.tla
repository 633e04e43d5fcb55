--------------------------- MODULE PilotExecutor ---------------------------
(***************************************************************************)
(* The NFL historical-market provider pilot: the executor that spends paid *)
(* provider requests under a single-use authorization, the evidence store  *)
(* and the attempt ledger it writes, and the recovery that seals a store   *)
(* an executor left behind.  Modelled is the integrated successor (0.2.0), *)
(* which reuses the frozen attempt state machine.                          *)
(*                                                                         *)
(* Every write that must be durable is one step, so a crash, a second      *)
(* executor or a recovery can come between any two of them.  A write may   *)
(* fail in three ways: nothing on disk, a partial artifact, or everything  *)
(* on disk but an error from the fsync.                                    *)
(***************************************************************************)
EXTENDS Naturals, FiniteSets

CONSTANTS
    Executors,              \* processes that call run() on the store
    Recoverers,             \* processes that call recover() on the store
    NTargets,               \* targets of the frozen selection (20)
    MAX_PRIMARY_CALLS,      \* 20
    MAX_RETRY_CALLS,        \* 20
    MAX_ATTEMPTS,           \* 40
    MAX_RESERVED_CREDITS,   \* 400
    MaxFaults,              \* bound: I/O errors in a behaviour
    MaxCrashes,             \* bound: processes that die
    NoOne                   \* nobody holds the lease

RESERVED_CREDITS_PER_ATTEMPT == 10

Procs == Executors \cup Recoverers

ASSUME PilotAssumption ==
    /\ Executors \cap Recoverers = {}
    /\ NoOne \notin Procs
    /\ NTargets \in Nat \ {0}
    /\ MaxFaults \in Nat
    /\ MaxCrashes \in Nat

Targets == 1 .. NTargets
Kinds == {"PRIMARY", "RETRY"}
Attempts == Targets \X Kinds

AttemptStates == {"RESERVED", "PROVABLE_PRE_SEND_FAILURE", "SENT",
                  "SENT_UNKNOWN", "RESPONSE_CAPTURED", "TERMINAL_STOP"}

(* The states recovery and the run's own clean-up have to resolve. *)
OpenStates == {"RESERVED", "SENT"}

Transitions ==
    {<<"none", "RESERVED">>,
     <<"RESERVED", "PROVABLE_PRE_SEND_FAILURE">>,
     <<"RESERVED", "SENT">>,
     <<"RESERVED", "SENT_UNKNOWN">>,
     <<"RESERVED", "TERMINAL_STOP">>,
     <<"SENT", "RESPONSE_CAPTURED">>,
     <<"SENT", "SENT_UNKNOWN">>,
     <<"SENT", "TERMINAL_STOP">>,
     <<"RESPONSE_CAPTURED", "TERMINAL_STOP">>,
     <<"PROVABLE_PRE_SEND_FAILURE", "TERMINAL_STOP">>}

(* Artifacts at fixed paths of the store, each written exclusively. *)
Identity == {"claim", "authorization", "provenance", "identity"}
Files == Identity \cup
         {"report", "integrity_failure",
          "recovery_provenance", "recovery_record", "recovery_report"}

(* What is kept of one attempt. *)
Evidence == {"request", "response", "unusable"} \X Attempts

(* A complete response, by what the executor does with it:                  *)
(*   ok        200, parsed, quota reconciles                                *)
(*   transient 408, 429 or 5xx with a valid delay: one retry                *)
(*   final     any other complete status, or the analysis, the quota check  *)
(*             or Retry-After raises                                        *)
(*   opaque    undecodable body, or the credential is echoed                *)
(*   one_xx    an interim status                                            *)
Responses == {"ok", "transient", "final", "opaque", "one_xx"}

Ended == {"done", "raised", "refused", "crashed"}

BeforeClaim == {"idle", "initialize", "claim"}
BeforeLease == {"authorize", "provenance", "identity", "lease"}
AttemptPC == {"reserve", "request", "gate", "prepare", "regate", "send",
              "presend", "sent", "receive", "capture", "record", "sleep",
              "unknown", "terminal", "advance", "unwind", "handler"}
ClosingPC == {"report", "premanifest", "accept"}
LeavingPC == {"leave", "raising"}
ExecutorPC == BeforeClaim \cup BeforeLease \cup AttemptPC \cup ClosingPC
                \cup LeavingPC \cup Ended
RecoveryLocked == {"revalidate", "rprovenance", "rscan", "rrecord",
                   "rreport", "rmanifest", "rverify"} \cup LeavingPC
RecovererPC == {"idle", "rlease"} \cup RecoveryLocked \cup Ended

VARIABLES
    pc,           \* the next step of each process
    tgt, num,     \* executor: the target in hand, attempt number 1 or 2
    exch,         \* executor: the bridge owns an exchange for this target
    resp,         \* executor: the class of the response in hand
    failed,       \* executor: some result of the run is terminal
    ledger,       \* latest state of each attempt, "none" before RESERVED
    retryOK,      \* retry_permitted of that latest entry
    last,         \* the attempt of the last entry of the file
    ledgerDir,    \* does the ledger directory exist?
    torn,         \* does the ledger end in a partial line?
    files,        \* artifacts present
    damaged,      \* those of them that are partial
    evidence,     \* per-attempt artifacts present
    manifest,     \* "none", "partial" or "complete"
    inventory,    \* the contents the manifest lists
    lock,         \* holder of the operating-system lease
    sends,        \* requests of an attempt that may have left the host
    authChanged,  \* the authorization file differs from what was loaded
    expired,      \* the execution window is over
    faults, crashes

locals == <<tgt, num, exch, resp, failed>>
ledgerVars == <<ledger, retryOK, last, ledgerDir, torn>>
fileVars == <<files, damaged>>
sealVars == <<manifest, inventory>>
envVars == <<authChanged, expired, crashes>>
vars == <<pc, locals, ledgerVars, fileVars, evidence, sealVars, lock, sends,
          envVars, faults>>

-----------------------------------------------------------------------------
(* Helpers *)

Kind(n) == IF n = 1 THEN "PRIMARY" ELSE "RETRY"
Attempt(p) == <<tgt[p], Kind(num[p])>>
Predecessor(p) == <<tgt[p], "PRIMARY">>

Goto(p, l) == pc' = [pc EXCEPT ![p] = l]

(* Runtime identity is measured at the same gate; a change of it refuses    *)
(* exactly as the end of the window does.                                   *)
LiveGate == ~authChanged /\ ~expired

Reserved == {a \in Attempts : ledger[a] # "none"}
OpenAttempts == {a \in Attempts : ledger[a] \in OpenStates}

Contents == [files |-> files, evidence |-> evidence,
             ledger |-> ledger, torn |-> torn]

(* verify_evidence_manifest: nothing missing, nothing extra, nothing changed. *)
Verifies == manifest = "complete" /\ inventory = Contents

-----------------------------------------------------------------------------
(* Durable writes *)

WriteEntry(a, s, r) ==
    /\ ledger' = [ledger EXCEPT ![a] = s]
    /\ retryOK' = [retryOK EXCEPT ![a] = r]
    /\ last' = a
    /\ ledgerDir' = TRUE

(* An append to the ledger: every line is re-read and validated first, so a *)
(* torn ledger refuses the append.                                          *)
Append(p, a, s, r, next, onError) ==
    \/ /\ ~torn
       /\ WriteEntry(a, s, r)
       /\ Goto(p, next)
       /\ UNCHANGED <<torn, faults>>
    \/ /\ torn
       /\ Goto(p, onError)
       /\ UNCHANGED <<ledgerVars, faults>>
    \/ /\ ~torn
       /\ faults < MaxFaults
       /\ faults' = faults + 1
       /\ Goto(p, onError)
       /\ \/ /\ ledgerDir' \in {ledgerDir, TRUE}
             /\ UNCHANGED <<ledger, retryOK, last, torn>>
          \/ /\ ledgerDir' = TRUE
             /\ torn' = TRUE
             /\ UNCHANGED <<ledger, retryOK, last>>
          \/ /\ WriteEntry(a, s, r)
             /\ UNCHANGED torn

(* _exclusive_write of a fixed path, refused when the path exists. *)
Create(p, f, next, onError) ==
    \/ /\ f \notin files
       /\ files' = files \cup {f}
       /\ Goto(p, next)
       /\ UNCHANGED <<damaged, faults>>
    \/ /\ f \in files
       /\ Goto(p, onError)
       /\ UNCHANGED <<fileVars, faults>>
    \/ /\ f \notin files
       /\ faults < MaxFaults
       /\ faults' = faults + 1
       /\ Goto(p, onError)
       /\ \/ UNCHANGED fileVars
          \/ /\ files' = files \cup {f}
             /\ damaged' \in {damaged, damaged \cup {f}}

(* The same for an artifact of an attempt. *)
CreateEvidence(p, e, next, onError) ==
    \/ /\ e \notin evidence
       /\ evidence' = evidence \cup {e}
       /\ Goto(p, next)
       /\ UNCHANGED faults
    \/ /\ e \in evidence
       /\ Goto(p, onError)
       /\ UNCHANGED <<evidence, faults>>
    \/ /\ e \notin evidence
       /\ faults < MaxFaults
       /\ faults' = faults + 1
       /\ Goto(p, onError)
       /\ evidence' \in {evidence, evidence \cup {e}}

(* create_evidence_manifest: hash everything present, write exclusively. *)
CreateManifest(p, next, onError) ==
    \/ /\ manifest = "none"
       /\ manifest' = "complete"
       /\ inventory' = Contents
       /\ Goto(p, next)
       /\ UNCHANGED faults
    \/ /\ manifest # "none"
       /\ Goto(p, onError)
       /\ UNCHANGED <<sealVars, faults>>
    \/ /\ manifest = "none"
       /\ faults < MaxFaults
       /\ faults' = faults + 1
       /\ Goto(p, onError)
       /\ \/ UNCHANGED sealVars
          \/ /\ manifest' \in {"partial", "complete"}
             /\ inventory' = Contents

-----------------------------------------------------------------------------
Init ==
    /\ pc = [p \in Procs |-> "idle"]
    /\ tgt = [p \in Executors |-> 1]
    /\ num = [p \in Executors |-> 1]
    /\ exch = [p \in Executors |-> FALSE]
    /\ resp = [p \in Executors |-> "ok"]
    /\ failed = [p \in Executors |-> FALSE]
    /\ ledger = [a \in Attempts |-> "none"]
    /\ retryOK = [a \in Attempts |-> FALSE]
    /\ last = <<1, "PRIMARY">>
    /\ ledgerDir = FALSE
    /\ torn = FALSE
    /\ files = {}
    /\ damaged = {}
    /\ evidence = {}
    /\ manifest = "none"
    /\ inventory = Contents
    /\ lock = NoOne
    /\ sends = [a \in Attempts |-> 0]
    /\ authChanged = FALSE
    /\ expired = FALSE
    /\ faults = 0
    /\ crashes = 0

-----------------------------------------------------------------------------
(* The run up to the lease *)

(* load_and_validate_authorization, with its active-window check. *)
LoadAuthorization(p) ==
    /\ pc[p] = "idle"
    /\ Goto(p, IF LiveGate THEN "initialize" ELSE "refused")
    /\ UNCHANGED <<locals, ledgerVars, fileVars, evidence, sealVars, lock,
                   sends, envVars, faults>>

InitializeNew(p) ==
    /\ pc[p] = "initialize"
    /\ Goto(p, IF files = {} /\ ~ledgerDir /\ manifest = "none"
               THEN "claim" ELSE "refused")
    /\ UNCHANGED <<locals, ledgerVars, fileVars, evidence, sealVars, lock,
                   sends, envVars, faults>>

WriteIdentity(p, l, f, next) ==
    /\ pc[p] = l
    /\ Create(p, f, next, "refused")
    /\ UNCHANGED <<locals, ledgerVars, evidence, sealVars, lock, sends,
                   envVars>>

ClaimAuthorization(p) ==
    \/ WriteIdentity(p, "claim", "claim", "authorize")
    \/ WriteIdentity(p, "authorize", "authorization", "provenance")

WriteRuntimeProvenance(p) ==
    WriteIdentity(p, "provenance", "provenance", "identity")

WriteRunIdentity(p) == WriteIdentity(p, "identity", "identity", "lease")

AcquireLease(p) ==
    /\ pc[p] = "lease"
    /\ IF lock = NoOne
       THEN lock' = p /\ Goto(p, "reserve")
       ELSE lock' = lock /\ Goto(p, "refused")
    /\ UNCHANGED <<locals, ledgerVars, fileVars, evidence, sealVars, sends,
                   envVars, faults>>
-----------------------------------------------------------------------------
(* One attempt: _execute_target, with the bridge to the real transport *)

(* AttemptLedger.reserve: the checks before the RESERVED line. *)
CanReserve(p) ==
    LET a == Attempt(p)
        same == {b \in Reserved : b[1] = a[1]}
    IN  /\ a \notin Reserved
        /\ Cardinality(Reserved) < MAX_ATTEMPTS
        /\ (Cardinality(Reserved) + 1) * RESERVED_CREDITS_PER_ATTEMPT
               <= MAX_RESERVED_CREDITS
        /\ a[2] = "PRIMARY" =>
              /\ Cardinality({b \in Reserved : b[2] = "PRIMARY"})
                     < MAX_PRIMARY_CALLS
              /\ same = {}
        /\ a[2] = "RETRY" =>
              /\ Cardinality({b \in Reserved : b[2] = "RETRY"})
                     < MAX_RETRY_CALLS
              /\ ledger[Predecessor(p)] \in
                     {"PROVABLE_PRE_SEND_FAILURE", "RESPONSE_CAPTURED"}
              /\ retryOK[Predecessor(p)]

(* The target ends with a terminal result, and with it the run's loop. *)
FailTarget(p) == failed' = [failed EXCEPT ![p] = TRUE]

(* A refused gate or ceiling leaves _execute_target as an exception that    *)
(* run() turns into a terminal result; a used attempt id is an integrity    *)
(* error.                                                                   *)
ReserveRefused(p) ==
    /\ pc[p] = "reserve"
    /\ ~torn
    /\ ~LiveGate \/ ~CanReserve(p)
    /\ IF LiveGate /\ Attempt(p) \in Reserved
       THEN Goto(p, "unwind") /\ UNCHANGED failed
       ELSE Goto(p, "report") /\ FailTarget(p)
    /\ UNCHANGED <<tgt, num, exch, resp, ledgerVars, fileVars, evidence,
                   sealVars, lock, sends, envVars, faults>>

Reserve(p) ==
    /\ pc[p] = "reserve"
    /\ LiveGate
    /\ torn \/ CanReserve(p)
    /\ Append(p, Attempt(p), "RESERVED", FALSE, "request", "unwind")
    /\ UNCHANGED <<locals, fileVars, evidence, sealVars, lock, sends, envVars>>

WriteAttemptRequest(p) ==
    /\ pc[p] = "request"
    /\ CreateEvidence(p, <<"request", Attempt(p)>>, "gate", "terminal")
    /\ UNCHANGED <<locals, ledgerVars, fileVars, sealVars, lock, sends,
                   envVars>>

(* The executor's gate before the provider boundary, and begin() entered.   *)
GateBeforeBoundary(p) ==
    /\ pc[p] = "gate"
    /\ IF LiveGate
       THEN Goto(p, "prepare") /\ exch' = [exch EXCEPT ![p] = FALSE]
       ELSE Goto(p, "terminal") /\ UNCHANGED exch
    /\ UNCHANGED <<tgt, num, resp, failed, ledgerVars, fileVars, evidence,
                   sealVars, lock, sends, envVars, faults>>

(* begin(): the reservation and the request must be durable and the gate    *)
(* open, or an exception that the executor cannot classify; then prepare()  *)
(* connects without sending.                                                *)
Prepare(p) ==
    /\ pc[p] = "prepare"
    /\ IF /\ ledger[last] = "RESERVED"
          /\ <<"request", last>> \in evidence
          /\ LiveGate
       THEN \E l \in {"regate", "presend", "unknown"} : Goto(p, l)
       ELSE Goto(p, "unknown")
    /\ UNCHANGED <<locals, ledgerVars, fileVars, evidence, sealVars, lock,
                   sends, envVars, faults>>

(* The gate repeated on the prepared connection. *)
GateAfterPrepare(p) ==
    /\ pc[p] = "regate"
    /\ Goto(p, IF LiveGate THEN "send" ELSE "unknown")
    /\ UNCHANGED <<locals, ledgerVars, fileVars, evidence, sealVars, lock,
                   sends, envVars, faults>>

CountSend(p) == sends' = [sends EXCEPT ![Attempt(p)] = @ + 1]

SendSucceeds(p) ==
    /\ pc[p] = "send"
    /\ CountSend(p)
    /\ exch' = [exch EXCEPT ![p] = TRUE]
    /\ Goto(p, "sent")
    /\ UNCHANGED <<tgt, num, resp, failed, ledgerVars, fileVars, evidence,
                   sealVars, lock, envVars, faults>>

(* Request validation or buffering fails: no byte has left. *)
SendFailsLocally(p) ==
    /\ pc[p] = "send"
    /\ Goto(p, "presend")
    /\ UNCHANGED <<locals, ledgerVars, fileVars, evidence, sealVars, lock,
                   sends, envVars, faults>>

(* Mutant: an error of endheaders() taken for a failure before the send. *)
EndHeadersFailsPreSend(p) ==
    /\ pc[p] = "send"
    /\ CountSend(p)
    /\ Goto(p, "presend")
    /\ UNCHANGED <<locals, ledgerVars, fileVars, evidence, sealVars, lock,
                   envVars, faults>>

(* endheaders() fails, or something unclassified: bytes may have left. *)
EndHeadersFails(p) ==
    /\ pc[p] = "send"
    /\ CountSend(p)
    /\ Goto(p, "unknown")
    /\ UNCHANGED <<locals, ledgerVars, fileVars, evidence, sealVars, lock,
                   envVars, faults>>

(* ProvablePreSendFailure: one retry, unless the window is over. *)
RecordPreSendFailure(p) ==
    LET retry == num[p] = 1 /\ ~expired
    IN  /\ pc[p] = "presend"
        /\ ~authChanged
        /\ Append(p, Attempt(p), "PROVABLE_PRE_SEND_FAILURE", retry,
                  IF retry THEN "reserve" ELSE "terminal", "unwind")
        /\ num' = [num EXCEPT ![p] =
                       IF retry /\ pc'[p] = "reserve" THEN 2 ELSE @]
        /\ UNCHANGED <<tgt, exch, resp, failed, fileVars, evidence, sealVars,
                       lock, sends, envVars>>

PreSendAuthorizationChanged(p) ==
    /\ pc[p] = "presend"
    /\ authChanged
    /\ Goto(p, "unknown")
    /\ UNCHANGED <<locals, ledgerVars, fileVars, evidence, sealVars, lock,
                   sends, envVars, faults>>

RecordSent(p) ==
    /\ pc[p] = "sent"
    /\ Append(p, Attempt(p), "SENT", FALSE, "receive", "unwind")
    /\ UNCHANGED <<locals, fileVars, evidence, sealVars, lock, sends, envVars>>

(* The authorization is read again before and after the exchange. *)
Receive(p) ==
    /\ pc[p] = "receive"
    /\ \/ /\ ~authChanged
          /\ \E c \in Responses : resp' = [resp EXCEPT ![p] = c]
          /\ Goto(p, "capture")
       \/ /\ Goto(p, "unknown")
          /\ UNCHANGED resp
    /\ UNCHANGED <<tgt, num, exch, failed, ledgerVars, fileVars, evidence,
                   sealVars, lock, sends, envVars, faults>>

(* Mutant: an I/O error of the response evidence is not noticed. *)
AfterLostResponse == "record"

(* response_evidence_io_failure: the answer cannot be proved. *)
AfterFailedResponse == "unknown"

(* An interim response whose first artifact fails is kept in another form;  *)
(* "unusable" stands for whichever form was written.                        *)
Capture(p) ==
    /\ pc[p] = "capture"
    /\ CASE authChanged ->
                /\ Goto(p, "unknown")
                /\ UNCHANGED <<evidence, faults>>
         [] ~authChanged /\ resp[p] = "one_xx" ->
                CreateEvidence(p, <<"unusable", Attempt(p)>>,
                               "unknown", "unwind")
         [] ~authChanged /\ resp[p] = "opaque" ->
                CreateEvidence(p, <<"unusable", Attempt(p)>>,
                               "terminal", "unwind")
         [] OTHER ->
                CreateEvidence(p, <<"response", Attempt(p)>>,
                               "record", AfterFailedResponse)
    /\ UNCHANGED <<locals, ledgerVars, fileVars, sealVars, lock, sends,
                   envVars>>

(* RESPONSE_CAPTURED, with the decision on the retry in the same entry.     *)
(* Whether the delay still fits the window depends on its length.           *)
RecordResponse(p) ==
    /\ pc[p] = "record"
    /\ \E fits \in IF expired THEN {FALSE} ELSE BOOLEAN :
          LET retry == resp[p] = "transient" /\ num[p] = 1 /\ fits
          IN  Append(p, Attempt(p), "RESPONSE_CAPTURED", retry,
                     CASE resp[p] = "ok" -> "advance"
                       [] retry          -> "sleep"
                       [] OTHER          -> "terminal",
                     "unwind")
    /\ UNCHANGED <<locals, fileVars, evidence, sealVars, lock, sends, envVars>>

(* Retry-After is waited out, then the gate decides. *)
SleepAndRetry(p) ==
    /\ pc[p] = "sleep"
    /\ IF LiveGate
       THEN Goto(p, "reserve") /\ num' = [num EXCEPT ![p] = 2]
       ELSE Goto(p, "terminal") /\ UNCHANGED num
    /\ UNCHANGED <<tgt, exch, resp, failed, ledgerVars, fileVars, evidence,
                   sealVars, lock, sends, envVars, faults>>

(* Mutant: the loop goes on after the last target. *)
NextTargetPastEnd(p) ==
    /\ pc[p] = "advance"
    /\ Goto(p, "reserve")
    /\ tgt' = [tgt EXCEPT ![p] = @ + 1]
    /\ num' = [num EXCEPT ![p] = 1]
    /\ exch' = [exch EXCEPT ![p] = FALSE]
    /\ UNCHANGED <<resp, failed, ledgerVars, fileVars, evidence, sealVars,
                   lock, sends, envVars, faults>>

NextTarget(p) ==
    /\ pc[p] = "advance"
    /\ IF tgt[p] < NTargets
       THEN /\ Goto(p, "reserve")
            /\ tgt' = [tgt EXCEPT ![p] = @ + 1]
            /\ num' = [num EXCEPT ![p] = 1]
            /\ exch' = [exch EXCEPT ![p] = FALSE]
       ELSE /\ Goto(p, "report")
            /\ UNCHANGED <<tgt, num, exch>>
    /\ UNCHANGED <<resp, failed, ledgerVars, fileVars, evidence, sealVars,
                   lock, sends, envVars, faults>>

(* A last entry for the attempt; the target, and the run, then fail. *)
StopAttempt(p, l, s) ==
    /\ pc[p] = l
    /\ Append(p, Attempt(p), s, FALSE, "report", "unwind")
    /\ failed' = [failed EXCEPT ![p] = @ \/ pc'[p] = "report"]
    /\ UNCHANGED <<tgt, num, exch, resp, fileVars, evidence, sealVars, lock,
                   sends, envVars>>

RecordSentUnknown(p) == StopAttempt(p, "unknown", "SENT_UNKNOWN")

(* Mutant: the target stops but its result is not terminal. *)
StopSilently(p) ==
    /\ pc[p] = "terminal"
    /\ Append(p, Attempt(p), "TERMINAL_STOP", FALSE, "report", "unwind")
    /\ UNCHANGED <<locals, fileVars, evidence, sealVars, lock, sends, envVars>>

RecordTerminalStop(p) == StopAttempt(p, "terminal", "TERMINAL_STOP")

-----------------------------------------------------------------------------
(* An evidence error leaves _execute_target *)

(* Mutant: the latest state of the attempt is not looked at. *)
OwnsExchange(p) == exch[p]

(* The exchange was handed over and its attempt has no final entry. *)
MustClose(p) == exch[p] /\ ledger[last] \in OpenStates

(* The finally block of the integrated executor. *)
Unwind(p) ==
    /\ pc[p] = "unwind"
    /\ IF MustClose(p)
       THEN Append(p, last, "SENT_UNKNOWN", FALSE, "handler", "handler")
       ELSE Goto(p, "handler") /\ UNCHANGED <<ledgerVars, faults>>
    /\ UNCHANGED <<locals, fileVars, evidence, sealVars, lock, sends, envVars>>

(* Mutant: the frozen executor's handler, which reports whatever happened. *)
NeverUnresolved == FALSE

(* Durability is unresolved: no report, the store is left as it is. *)
Unresolved == torn \/ OpenAttempts # {}

HandleEvidenceError(p) ==
    /\ pc[p] = "handler"
    /\ IF Unresolved
       THEN Goto(p, "raising") /\ UNCHANGED failed
       ELSE Goto(p, "report") /\ FailTarget(p)
    /\ UNCHANGED <<tgt, num, exch, resp, ledgerVars, fileVars, evidence,
                   sealVars, lock, sends, envVars, faults>>

-----------------------------------------------------------------------------
(* Report, manifest, acceptance *)

WriteReport(p) ==
    /\ pc[p] = "report"
    /\ Create(p, "report", "premanifest", "raising")
    /\ failed' = [failed EXCEPT ![p] = @ \/ authChanged]
    /\ UNCHANGED <<tgt, num, exch, resp, ledgerVars, evidence, sealVars, lock,
                   sends, envVars>>

RejectRun(p) ==
    /\ Create(p, "integrity_failure", "leave", "raising")
    /\ UNCHANGED sealVars

WriteManifest(p) ==
    /\ pc[p] = "premanifest"
    /\ \/ authChanged /\ RejectRun(p)
       \/ /\ ~authChanged
          /\ CreateManifest(p, "accept", "raising")
          /\ UNCHANGED fileVars
    /\ UNCHANGED <<locals, ledgerVars, evidence, lock, sends, envVars>>

Accept(p) ==
    /\ pc[p] = "accept"
    /\ IF ~authChanged /\ Verifies
       THEN Goto(p, "leave") /\ UNCHANGED <<fileVars, sealVars, faults>>
       ELSE RejectRun(p)
    /\ UNCHANGED <<locals, ledgerVars, evidence, lock, sends, envVars>>

(* The end of the `with store.acquire_lease` block, normal or not. *)
ReleaseLease(p) ==
    /\ pc[p] \in LeavingPC
    /\ Goto(p, IF pc[p] = "leave" THEN "done" ELSE "raised")
    /\ lock' = IF lock = p THEN NoOne ELSE lock
    /\ UNCHANGED <<locals, ledgerVars, fileVars, evidence, sealVars, sends,
                   envVars, faults>>

-----------------------------------------------------------------------------
(* Recovery *)

(* validate_recovery_root and the identity and ledger checks. *)
Recoverable ==
    /\ manifest = "none"
    /\ Identity \subseteq files
    /\ Identity \cap damaged = {}
    /\ ledgerDir
    /\ ~torn
    /\ "recovery_report" \notin files

Prevalidate(r) ==
    /\ pc[r] = "idle"
    /\ Goto(r, IF Recoverable THEN "rlease" ELSE "refused")
    /\ UNCHANGED <<locals, ledgerVars, fileVars, evidence, sealVars, lock,
                   sends, envVars, faults>>

AcquireRecoveryLease(r) ==
    /\ pc[r] = "rlease"
    /\ IF lock = NoOne
       THEN lock' = r /\ Goto(r, "revalidate")
       ELSE lock' = lock /\ Goto(r, "refused")
    /\ UNCHANGED <<locals, ledgerVars, fileVars, evidence, sealVars, sends,
                   envVars, faults>>

(* Mutant: what was valid before the lease is not checked again. *)
RevalidateNothing == TRUE

StillRecoverable == Recoverable

Revalidate(r) ==
    /\ pc[r] = "revalidate"
    /\ Goto(r, IF StillRecoverable THEN "rprovenance" ELSE "raising")
    /\ UNCHANGED <<locals, ledgerVars, fileVars, evidence, sealVars, lock,
                   sends, envVars, faults>>

WriteRecoveryFile(r, l, f, next) ==
    /\ pc[r] = l
    /\ Create(r, f, next, "raising")
    /\ UNCHANGED <<locals, ledgerVars, evidence, sealVars, lock, sends,
                   envVars>>

WriteRecoveryProvenance(r) ==
    WriteRecoveryFile(r, "rprovenance", "recovery_provenance", "rscan")

(* recover_incomplete: every attempt that is still open becomes unknown. *)
RecoverIncomplete(r) ==
    /\ pc[r] = "rscan"
    /\ \/ \E a \in OpenAttempts :
             Append(r, a, "SENT_UNKNOWN", FALSE, "rscan", "raising")
       \/ /\ OpenAttempts = {}
          /\ Goto(r, "rrecord")
          /\ UNCHANGED <<ledgerVars, faults>>
    /\ UNCHANGED <<locals, fileVars, evidence, sealVars, lock, sends, envVars>>

WriteRecoveryRecord(r) ==
    WriteRecoveryFile(r, "rrecord", "recovery_record", "rreport")

WriteRecoveryReport(r) ==
    WriteRecoveryFile(r, "rreport", "recovery_report", "rmanifest")

SealRecovered(r) ==
    /\ pc[r] = "rmanifest"
    /\ CreateManifest(r, "rverify", "raising")
    /\ UNCHANGED <<locals, ledgerVars, fileVars, evidence, lock, sends,
                   envVars>>

VerifyRecovered(r) ==
    /\ pc[r] = "rverify"
    /\ Goto(r, IF Verifies THEN "leave" ELSE "raising")
    /\ UNCHANGED <<locals, ledgerVars, fileVars, evidence, sealVars, lock,
                   sends, envVars, faults>>

-----------------------------------------------------------------------------
(* The environment *)

(* The operating system drops the lease of a process that dies. *)
Crash(p) ==
    /\ pc[p] \notin Ended \cup {"idle"}
    /\ crashes < MaxCrashes
    /\ crashes' = crashes + 1
    /\ Goto(p, "crashed")
    /\ lock' = IF lock = p THEN NoOne ELSE lock
    /\ UNCHANGED <<locals, ledgerVars, fileVars, evidence, sealVars, sends,
                   authChanged, expired, faults>>

ChangeAuthorization ==
    /\ ~authChanged
    /\ authChanged' = TRUE
    /\ UNCHANGED <<pc, locals, ledgerVars, fileVars, evidence, sealVars, lock,
                   sends, expired, crashes, faults>>

CloseWindow ==
    /\ ~expired
    /\ expired' = TRUE
    /\ UNCHANGED <<pc, locals, ledgerVars, fileVars, evidence, sealVars, lock,
                   sends, authChanged, crashes, faults>>

StartRun(p) ==
    \/ LoadAuthorization(p) \/ InitializeNew(p) \/ ClaimAuthorization(p)
    \/ WriteRuntimeProvenance(p) \/ WriteRunIdentity(p) \/ AcquireLease(p)

ExecuteTarget(p) ==
    \/ ReserveRefused(p) \/ Reserve(p) \/ WriteAttemptRequest(p)
    \/ GateBeforeBoundary(p) \/ Prepare(p) \/ GateAfterPrepare(p)
    \/ SendSucceeds(p) \/ SendFailsLocally(p) \/ EndHeadersFails(p)
    \/ RecordPreSendFailure(p) \/ PreSendAuthorizationChanged(p)
    \/ RecordSent(p) \/ Receive(p) \/ Capture(p) \/ RecordResponse(p)
    \/ SleepAndRetry(p) \/ NextTarget(p) \/ RecordSentUnknown(p)
    \/ RecordTerminalStop(p) \/ Unwind(p) \/ HandleEvidenceError(p)

FinishRun(p) == WriteReport(p) \/ WriteManifest(p) \/ Accept(p)

Recover(r) ==
    \/ Prevalidate(r) \/ AcquireRecoveryLease(r) \/ Revalidate(r)
    \/ WriteRecoveryProvenance(r) \/ RecoverIncomplete(r)
    \/ WriteRecoveryRecord(r) \/ WriteRecoveryReport(r)
    \/ SealRecovered(r) \/ VerifyRecovered(r)

Next ==
    \/ \E p \in Executors : StartRun(p) \/ ExecuteTarget(p) \/ FinishRun(p)
    \/ \E r \in Recoverers : Recover(r)
    \/ \E p \in Procs : ReleaseLease(p) \/ Crash(p)
    \/ ChangeAuthorization
    \/ CloseWindow

Spec == Init /\ [][Next]_vars

-----------------------------------------------------------------------------
(* Properties *)

(* Every variable stays within its range.                                   *)
PilotTypeOK ==
    /\ pc \in [Procs -> ExecutorPC \cup RecovererPC]
    /\ \A p \in Executors : pc[p] \in ExecutorPC
    /\ \A r \in Recoverers : pc[r] \in RecovererPC
    /\ tgt \in [Executors -> Targets]
    /\ num \in [Executors -> {1, 2}]
    /\ exch \in [Executors -> BOOLEAN]
    /\ resp \in [Executors -> Responses]
    /\ failed \in [Executors -> BOOLEAN]
    /\ ledger \in [Attempts -> AttemptStates \cup {"none"}]
    /\ retryOK \in [Attempts -> BOOLEAN]
    /\ last \in Attempts
    /\ ledgerDir \in BOOLEAN
    /\ torn \in BOOLEAN
    /\ files \subseteq Files
    /\ damaged \subseteq files
    /\ evidence \subseteq Evidence
    /\ manifest \in {"none", "partial", "complete"}
    /\ lock \in Procs \cup {NoOne}
    /\ sends \in [Attempts -> 0 .. 1]
    /\ authChanged \in BOOLEAN
    /\ expired \in BOOLEAN
    /\ faults \in 0 .. MaxFaults
    /\ crashes \in 0 .. MaxCrashes

(* The ledger never says less than what happened: a request that may have   *)
(* left the host is reserved, has its request on disk and is not recorded   *)
(* as a provable pre-send failure; a response recorded as captured was      *)
(* asked for and is on disk.  About _execute_target, its clean-up and       *)
(* recover_incomplete.                                                      *)
LedgerTellsTheTruth ==
    \A a \in Attempts :
        /\ sends[a] > 0 =>
              /\ ledger[a] \notin {"none", "PROVABLE_PRE_SEND_FAILURE"}
              /\ <<"request", a>> \in evidence
        /\ ledger[a] = "RESPONSE_CAPTURED" =>
              /\ sends[a] = 1
              /\ <<"response", a>> \in evidence

(* A sealed store has no attempt whose fate is still open, whoever sealed   *)
(* it and whichever writes failed: recovery refuses a sealed store, so an   *)
(* open attempt in it would stay open for ever.  About run()'s handler for  *)
(* evidence errors and about recover().                                     *)
SealedIsClosed == manifest # "none" => OpenAttempts = {}

(* A run that reports no failure has a captured response for every target.  *)
(* About build_report and the results run() collects.                       *)
SufficientIsComplete ==
    \A p \in Executors :
        pc[p] \in {"premanifest", "accept", "leave", "done"} /\ ~failed[p] =>
            \A t \in Targets : \E k \in Kinds :
                /\ ledger[<<t, k>>] = "RESPONSE_CAPTURED"
                /\ <<"response", <<t, k>>>> \in evidence

(* Every line appended is one the reader accepts after the lines before it: *)
(* an illegal one would make the store unreadable to run() and recovery     *)
(* alike.  About _validate_transitions and every caller of append.          *)
LedgerStaysReadable ==
    [][\A a \in Attempts : ledger'[a] # ledger[a] =>
            <<ledger[a], ledger'[a]>> \in Transitions]_vars

(* A manifest that verifies goes on verifying; only the executor that       *)
(* rejects its own run adds to a sealed store.  About the re-validation in  *)
(* recover() and the lease.                                                 *)
SealIsFinal ==
    [][Verifies => \/ Verifies'
                   \/ /\ files' = files \cup {"integrity_failure"}
                      /\ lock \in Executors]_vars

(* The pilot keeps its promise about the provider. *)
Contract == INSTANCE PilotContract WITH
    calls <- [t \in Targets |-> sends[<<t, "PRIMARY">>] + sends[<<t, "RETRY">>]],
    answered <- {t \in Targets : <<"response", <<t, "PRIMARY">>>> \in evidence},
    sealed <- manifest # "none"

(* Every step of the executor and of recovery is a step of PilotContract or *)
(* leaves its state alone: no target is asked a third time, none a second   *)
(* time unless the first answer is on disk or nothing was sent, and nothing *)
(* is sent once the store is sealed.                                        *)
PilotPromise == Contract!Spec

(* What the specification of the pilot says of a retry the window refuses:  *)
(* the attempt ends in TERMINAL_STOP.                                       *)
RefusedRetryIsStopped ==
    \A p \in Executors :
        pc[p] = "premanifest" /\ expired /\ ~authChanged =>
            \A t \in Targets :
                retryOK[<<t, "PRIMARY">>] => ledger[<<t, "RETRY">>] # "none"

-----------------------------------------------------------------------------
(* The inductive invariant behind these properties                         *)

LockedPC == AttemptPC \cup ClosingPC \cup RecoveryLocked
OwnerPC == BeforeLease \cup AttemptPC \cup ClosingPC \cup LeavingPC \cup {"done"}
RecoveryPC == RecoveryLocked \ ({"revalidate"} \cup LeavingPC)

Captured(t) == \E k \in Kinds : ledger[<<t, k>>] = "RESPONSE_CAPTURED"

(* Whoever is past the lease holds it.                                      *)
LeaseInv == \A p \in Procs : pc[p] \in LockedPC => lock = p

(* claim.json is written once, and before it is there is no ledger and no   *)
(* manifest: that is why the executor that wrote it may wait for the lease. *)
ClaimInv ==
    /\ "claim" \notin files => ~ledgerDir /\ manifest = "none"
    /\ \A p \in Executors :
          /\ pc[p] \in OwnerPC => "claim" \in files
          /\ pc[p] \in BeforeLease => ~ledgerDir /\ manifest = "none"
          /\ pc[p] \in BeforeClaim \cup BeforeLease => tgt[p] = 1 /\ num[p] = 1
          /\ \A q \in Executors :
                pc[p] \in OwnerPC /\ pc[q] \in OwnerPC => p = q

LedgerInv ==
    /\ ~ledgerDir => \A a \in Attempts : ledger[a] = "none"
    /\ LedgerTellsTheTruth
    /\ \A t \in Targets :
          ledger[<<t, "RETRY">>] # "none" =>
              ledger[<<t, "PRIMARY">>] \in {"PROVABLE_PRE_SEND_FAILURE",
                                            "RESPONSE_CAPTURED",
                                            "TERMINAL_STOP"}

(* What the attempt in hand looks like on disk, step by step.               *)
AttemptInHand(p) ==
    LET a == Attempt(p)
        l == pc[p]
        asked == <<"request", a>> \in evidence
    IN  /\ l = "reserve" => ledger[a] \notin OpenStates
        /\ l \in {"request", "presend"} => ledger[a] = "RESERVED" /\ sends[a] = 0
        /\ l \in {"gate", "prepare", "regate", "send"} =>
              ledger[a] = "RESERVED" /\ sends[a] = 0 /\ asked
        /\ l = "sent" => ledger[a] = "RESERVED" /\ sends[a] = 1
        /\ l \in {"receive", "capture"} => ledger[a] = "SENT" /\ sends[a] = 1
        /\ l = "record" => /\ ledger[a] = "SENT" /\ sends[a] = 1
                           /\ <<"response", a>> \in evidence
        /\ l \in {"sleep", "advance"} => ledger[a] = "RESPONSE_CAPTURED"
        /\ l = "sleep" => num[p] = 1
        /\ l = "unknown" => ledger[a] \in OpenStates
        /\ l = "terminal" => ledger[a] \in {"RESERVED", "SENT",
                                            "PROVABLE_PRE_SEND_FAILURE",
                                            "RESPONSE_CAPTURED"}

AttemptFacts(p) ==
    pc[p] \in AttemptPC =>
        /\ manifest = "none"
        /\ AttemptInHand(p)
        /\ pc[p] \notin {"unwind", "handler"} =>
              \A a \in OpenAttempts : a = Attempt(p)
        /\ num[p] = 2 => ledger[Predecessor(p)] \in
                             {"PROVABLE_PRE_SEND_FAILURE", "RESPONSE_CAPTURED"}
        /\ \A t \in 1 .. tgt[p] - 1 : Captured(t)

(* A run closes with no attempt open, and with a failure or every answer.  *)
ClosingFacts(p) ==
    /\ pc[p] \in ClosingPC => OpenAttempts = {}
    /\ pc[p] \in {"report", "premanifest"} => manifest = "none"
    /\ pc[p] \in {"report", "premanifest", "accept", "leave", "done"} =>
          failed[p] \/ \A t \in Targets : Captured(t)

(* Recovery works on a ledger and an unsealed store, and closes it first.  *)
RecoveryFacts(r) ==
    /\ pc[r] \in RecoveryPC => ledgerDir
    /\ pc[r] \in RecoveryPC \ {"rverify"} => manifest = "none"
    /\ pc[r] \in {"rrecord", "rreport", "rmanifest"} => OpenAttempts = {}

PilotInv ==
    /\ PilotTypeOK
    /\ LeaseInv
    /\ ClaimInv
    /\ LedgerInv
    /\ \A p \in Executors : AttemptFacts(p) /\ ClosingFacts(p)
    /\ \A r \in Recoverers : RecoveryFacts(r)
    /\ SealedIsClosed
=============================================================================
