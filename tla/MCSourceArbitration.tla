------------------------- MODULE MCSourceArbitration -------------------------
(***************************************************************************)
(* SourceArbitration for TLC: sets of enabled sources and of faults.       *)
(***************************************************************************)
EXTENDS SourceArbitration, TLC

WithUsb == {"usb", "mpd", "bluetooth"}
AllSources == {"airplay", "usb", "mpd", "spotify", "bluetooth"}

NoFaults == {}
DropFault == {"drop"}

=============================================================================
