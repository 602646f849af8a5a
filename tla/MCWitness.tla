----------------------------- MODULE MCWitness -----------------------------
(***************************************************************************)
(* TLC instance of Witness.  The strengthened invariant of WitnessProofs   *)
(* is checked beside the properties it is there for.                       *)
(***************************************************************************)
EXTENDS WitnessProofs
=============================================================================
