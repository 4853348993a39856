--------------------------- MODULE MCHpljService ---------------------------
(***************************************************************************)
(* The instances of HpljService that TLC explores.                         *)
(***************************************************************************)
EXTENDS HpljService
=============================================================================
