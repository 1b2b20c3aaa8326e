----------------------------- MODULE MCRunStore -----------------------------
(* The instance of RunStore. *)
EXTENDS RunStore, TLC

CONSTANTS r1, r2, w1, d1, d2
=============================================================================
