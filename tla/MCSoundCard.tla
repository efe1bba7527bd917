------------------------------ MODULE MCSoundCard ------------------------------
(***************************************************************************)
(* SoundCard for TLC: two services that play.                              *)
(***************************************************************************)
EXTENDS SoundCard

TwoServices == <<"mpd", "radio">>

=============================================================================
