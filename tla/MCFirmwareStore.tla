--------------------------- MODULE MCFirmwareStore ---------------------------
(***************************************************************************)
(* The instance of FirmwareStore that TLC explores.                        *)
(***************************************************************************)
EXTENDS FirmwareStore
=============================================================================
