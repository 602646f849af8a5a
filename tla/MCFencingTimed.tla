--------------------------- MODULE MCFencingTimed ---------------------------
(***************************************************************************)
(* The instance of MCFencing whose timing is the one the proofs assume:    *)
(* TLC evaluates TimingAssumption, and checks the inductive invariant.     *)
(***************************************************************************)
EXTENDS MCFencing, FencingProofs
=============================================================================
