--------------------------- MODULE MCHpljInstall ---------------------------
(* Every command can fail but the one that disables the service.           *)
EXTENDS HpljInstall

AllButOverride == Commands \ {"override"}
NoCommand == {}
Creation == {"copy_app", "create_user", "create_group"}
AnyPart == Creation \union {"remove_root"}
AnyCollision == {{}, {"queue"}, {"user"}, {"user", "group"}, {"plist"}, {"logs"}}
NoCollision == {{}}
AllOperations == {"install", "disable", "enable", "uninstall"}
InOut == {"install", "uninstall"}
NothingUnseen == {}
QueuesUnseen == {"queue"}
=============================================================================
