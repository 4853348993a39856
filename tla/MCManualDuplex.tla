--------------------------- MODULE MCManualDuplex ---------------------------
(* Three pages make a stack of two sheets, one of them with a blank back.   *)
EXTENDS ManualDuplex
=============================================================================
