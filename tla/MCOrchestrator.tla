--------------------------- MODULE MCOrchestrator ---------------------------
(* TLC instances of Orchestrator. *)
EXTENDS Orchestrator, TLC
CONSTANTS o1, o2
Either == Permutations(Op)
Reversible == [c \in Used |-> "inverse"]
Mixed == [c \in Used |-> IF c = "Exposure" THEN "inverse" ELSE "refused"]
=============================================================================
