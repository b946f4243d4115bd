---------------------------- MODULE MCDriveManager ----------------------------
(***************************************************************************)
(* Small instances of DriveManager: which operator services are in use and *)
(* how many of their requests a behaviour may hold.                         *)
(***************************************************************************)
EXTENDS DriveManager

ToggleAndClear == {"toggle", "clear"}
CompactOnly == {"compact"}
ToggleOnly == {"toggle"}

===============================================================================
