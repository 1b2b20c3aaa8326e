---------------------------- MODULE MCRequestLog ----------------------------
(* Small instances of RequestLog for TLC.                                  *)
EXTENDS RequestLog, TLC

CONSTANTS g1, g2, r1, r2

MCGateway == [r \in Records |-> g1]

\* The gateway's id was changed once and back: r1 and r2 are of the other one.
MCGateways == [r \in Records |-> IF r \in {r1, r2} THEN g2 ELSE g1]

Symmetry == Permutations(Records)
SymmetryGateways == Permutations({r1, r2}) \cup Permutations(Records \ {r1, r2})
=============================================================================
