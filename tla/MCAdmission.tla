---------------------------- MODULE MCAdmission -----------------------------
(***************************************************************************)
(* Instances of the admission path for TLC.                                *)
(***************************************************************************)
EXTENDS Admission

CONSTANTS r1, r2, k1, k2

=============================================================================
