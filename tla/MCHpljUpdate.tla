---------------------------- MODULE MCHpljUpdate ----------------------------
(* Instances of HpljUpdate for TLC. *)
EXTENDS HpljUpdate

\* Every command may fail; "verify" and "stopped" do by their conditions only.
AllUnreliable == Commands \ {"verify", "stopped"}
=============================================================================
