----------------------------- MODULE LatestCover -----------------------------
(***************************************************************************)
(* What the artwork of a Bluetooth source promises, without lookups,       *)
(* caches and threads (lib/online_artwork.py:1,                            *)
(* lib/bluetooth_service/bluetooth_service.py:184,207): a new track shows  *)
(* no picture, then at most the picture of that track, which stays.        *)
(***************************************************************************)
CONSTANTS
  Tracks,
  None  \* not a track

VARIABLES track, picture

lvars == <<track, picture>>

Init ==
  /\ track = None
  /\ picture = None

Change ==
  /\ track' \in Tracks \union {None}
  /\ picture' = None

Arrive ==
  /\ track # None
  /\ picture = None
  /\ picture' = track
  /\ track' = track

Spec == Init /\ [][Change \/ Arrive]_lvars

=============================================================================
