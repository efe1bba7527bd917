-------------------------- MODULE MCFirmwareUpdate --------------------------
(***************************************************************************)
(* FirmwareUpdate for TLC: the sets of faults and request moments a        *)
(* configuration chooses from.                                             *)
(***************************************************************************)
EXTENDS FirmwareUpdate

NoFaults == {}
AllFaults == {"reboot", "setenv", "io", "ro", "absent"}

Patient == {}
EarlyRequests == {"early"}

=============================================================================
