------------------------- MODULE MCPersonalRelease -------------------------
(* Two commits that carry the same version and differ in one scope.        *)
EXTENDS PersonalRelease

MCScopes == {"product-source"}
MCContent == [c \in Commits |->
  [s \in MCScopes |-> IF c \in Merged THEN 1 ELSE 2]]
MCScenarios == {"SCN-A"}
MCAffected == [s \in MCScenarios |-> {"product-source"}]
MCVersion == [c \in Commits |-> "v1"]
=============================================================================
