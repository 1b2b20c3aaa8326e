-------------------------- MODULE MCEngineManager --------------------------
(* Small instances of EngineManager for TLC.                               *)
EXTENDS EngineManager, TLC

CONSTANTS b1, b2

\* b1 is the low-priority binding.
MCPriority == (b1 :> 0) @@ (b2 :> 1)
MCPriority1 == (b1 :> 0)

Symmetry == Permutations(Engines) \cup Permutations(Clients)
SymmetryLids == Symmetry \cup Permutations(Lids)
=============================================================================
