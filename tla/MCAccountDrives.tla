--------------------------- MODULE MCAccountDrives ---------------------------
(* Two users of one installation; DriveListRace.cfg offers the commands.   *)
EXTENDS AccountDrives
=============================================================================
