---------------------------- MODULE OfficialCard ----------------------------
(***************************************************************************)
(* What the daily workflow promises about the official card of one date,   *)
(* without invocations, stages, retries or failures: one prediction run    *)
(* and one priced odds run are chosen, once; the candidates may be decided *)
(* again only while nothing is settled; only candidates are settled, and   *)
(* the day closes with every candidate settled.                            *)
(***************************************************************************)
CONSTANTS Games, PredictionRuns, OddsRuns, None

VARIABLES predicted,    \* the official prediction run, or None
          priced,       \* the entry odds run, or None
          candidates,   \* the games of the card
          settled,      \* the games of the card with a settlement
          closed        \* is the day closed?

cardVars == <<predicted, priced, candidates, settled, closed>>

Init ==
    /\ predicted = None /\ priced = None
    /\ candidates = {} /\ settled = {}
    /\ closed = FALSE

Predict ==
    /\ predicted = None
    /\ predicted' \in PredictionRuns
    /\ UNCHANGED <<priced, candidates, settled, closed>>

Price ==
    /\ predicted # None /\ priced = None
    /\ priced' \in OddsRuns
    /\ UNCHANGED <<predicted, candidates, settled, closed>>

Qualify ==
    /\ predicted # None /\ priced # None
    /\ settled = {} /\ ~closed
    /\ candidates' \in SUBSET Games
    /\ UNCHANGED <<predicted, priced, settled, closed>>

Settle ==
    /\ ~closed
    /\ settled' \in SUBSET candidates
    /\ settled \subseteq settled'
    /\ UNCHANGED <<predicted, priced, candidates, closed>>

Close ==
    /\ predicted # None /\ priced # None
    /\ settled = candidates
    /\ closed' = TRUE
    /\ UNCHANGED <<predicted, priced, candidates, settled>>

(* A closed day is checked again later and opened when the check fails.     *)
Reopen ==
    /\ closed
    /\ closed' = FALSE
    /\ UNCHANGED <<predicted, priced, candidates, settled>>

Next == Predict \/ Price \/ Qualify \/ Settle \/ Close \/ Reopen

Spec == Init /\ [][Next]_cardVars
=============================================================================
