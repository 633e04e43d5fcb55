--------------------------- MODULE PilotContract ---------------------------
(***************************************************************************)
(* What a run of the historical-market pilot promises about the provider:  *)
(* a target is asked at most twice, it is asked again only when the first  *)
(* answer is on disk or the first request never left the host, and once    *)
(* the evidence is sealed the provider is not called again.                *)
(***************************************************************************)
EXTENDS Naturals

CONSTANT Targets

VARIABLES
    calls,      \* how many requests for a target may have reached the provider
    answered,   \* the targets whose first complete answer is on disk
    sealed      \* has the final manifest been written?

vars == <<calls, answered, sealed>>

Init ==
    /\ calls = [t \in Targets |-> 0]
    /\ answered = {}
    /\ sealed = FALSE

(* A request leaves, or may have left, the host. *)
Call(t) ==
    /\ ~sealed
    /\ \/ calls[t] = 0
       \/ calls[t] = 1 /\ t \in answered
    /\ calls' = [calls EXCEPT ![t] = @ + 1]
    /\ UNCHANGED <<answered, sealed>>

(* The complete answer to the first request becomes durable. *)
Answer(t) ==
    /\ ~sealed
    /\ calls[t] = 1
    /\ answered' = answered \cup {t}
    /\ UNCHANGED <<calls, sealed>>

Seal ==
    /\ ~sealed
    /\ sealed' = TRUE
    /\ UNCHANGED <<calls, answered>>

Next ==
    \/ \E t \in Targets : Call(t) \/ Answer(t)
    \/ Seal

Spec == Init /\ [][Next]_vars
=============================================================================
