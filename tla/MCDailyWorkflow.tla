-------------------------- MODULE MCDailyWorkflow --------------------------
(* Instances of the daily workflow for TLC. *)
EXTENDS DailyWorkflow, TLC

(* Games, run ids and slots are interchangeable in the safety runs. *)
Symmetry == Permutations(Games) \cup Permutations(PredictionRuns)
                \cup Permutations(OddsRuns) \cup Permutations(Slots)
=============================================================================
