---------------------------- MODULE MCHpljDevice ----------------------------
(***************************************************************************)
(* The instances of HpljDevice that TLC explores. The configurations give  *)
(* the constants model values; nothing needs a definition of its own.      *)
(***************************************************************************)
EXTENDS HpljDevice
=============================================================================
