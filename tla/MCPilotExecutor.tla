-------------------------- MODULE MCPilotExecutor --------------------------
(* Instances of the pilot for TLC. *)
EXTENDS PilotExecutor, TLC

(* Executors, and recoveries, differ in nothing but their names. *)
Symmetry == Permutations(Executors) \cup Permutations(Recoverers)
=============================================================================
