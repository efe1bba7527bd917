------------------------------- MODULE MCPlayer -------------------------------
(***************************************************************************)
(* The player's processes and threads, for TLC: covers of Bluetooth        *)
(* tracks and their lookup, the compositor, supervisor and backends, knob  *)
(* and buttons.                                                            *)
(* They share no state, so that a behaviour is one of them.                *)
(***************************************************************************)
EXTENDS ArtworkResolver, CoverLookup, Supervision, Display, AdcInputs, TLC

VARIABLE part

AllFaults == {"lookup", "publish", "damage", "remove", "restart"}
Transfers == {"i2c"}

Played ==
  {[source |-> "mpd", playing |-> FALSE, title |-> "short", name |-> "short"],
   [source |-> "mpd", playing |-> TRUE, title |-> "short", name |-> "long"],
   [source |-> "bluetooth", playing |-> TRUE, title |-> "long", name |-> "short"]}
OneVolume == {1}
Pills == {"", "station"}

R(id, group, names, official, preferred, original) ==
  [id |-> id, group |-> group, names |-> names, official |-> official, preferred |-> preferred,
   original |-> original]
SomeReleases ==
  {<<R(1, 1, {"this"}, TRUE, TRUE, TRUE)>>,
   <<R(2, 0, {"this"}, TRUE, TRUE, TRUE), R(3, 2, {"other"}, TRUE, TRUE, TRUE),
     R(4, 2, {"this"}, TRUE, FALSE, FALSE)>>,
   <<R(0, 0, {"this"}, TRUE, TRUE, TRUE), R(5, 3, {"this"}, TRUE, TRUE, TRUE)>>,
   <<R(6, 4, {"other"}, TRUE, TRUE, TRUE)>>,
   <<R(7, 5, {}, FALSE, TRUE, TRUE)>>}
Recordings ==
  [sure : {TRUE}, same : {TRUE}, releases : SomeReleases]
    \union [sure : {FALSE}, same : {TRUE}, releases : {<<R(1, 1, {"this"}, TRUE, TRUE, TRUE)>>}]
UpToThree == UNION {[1 .. n -> Recordings] : n \in 0 .. 3}

PartInit ==
  /\ Init /\ ScreenInit /\ RadioInit /\ AdcInit /\ LookupInit
  /\ part \in {"covers", "screen", "radio", "adc", "lookup"}
  /\ part # "adc" => input = [c \in 0 .. 3 |-> IF c = 1 THEN 3 ELSE 0]
  /\ part # "lookup" => album = ""

PartNext ==
  \/ part = "covers" /\ Next /\ UNCHANGED <<part, screenVars, radio, adcVars, lookupVars>>
  \/ part = "screen" /\ ScreenNext /\ UNCHANGED <<part, vars, radio, adcVars, lookupVars>>
  \/ part = "radio" /\ RadioNext /\ UNCHANGED <<part, vars, screenVars, adcVars, lookupVars>>
  \/ part = "adc" /\ AdcNext /\ UNCHANGED <<part, vars, screenVars, radio, lookupVars>>
  \/ part = "lookup" /\ LookupNext /\ UNCHANGED <<part, vars, screenVars, radio, adcVars>>

PartFairness ==
  /\ WF_vars(part = "covers" /\ Worker)
  /\ WF_vars(part = "covers" /\ (Cancel \/ Ask \/ AskInVain))
  /\ \A t \in Tracks : WF_vars(part = "covers" /\ RetryTimeComes(t))
  /\ WF_screenVars(part = "screen" /\ Compose)
  /\ WF_screenVars(part = "screen" /\ Duty)
  /\ WF_screenVars(part = "screen" /\ OsdCloses)
  /\ WF_screenVars(part = "screen" /\ ToastCloses)
  /\ WF_screenVars(part = "screen" /\ FadeCloses)
  /\ WF_radio(part = "radio" /\ Script)
  /\ WF_radio(part = "radio" /\ Shell)
  /\ WF_radio(part = "radio" /\ Player)
  /\ WF_radio(part = "radio" /\ Ages)
  /\ WF_radio(part = "radio" /\ Watcher)
  /\ \A b \in Backends : WF_radio(part = "radio" /\ Monitors(b))
  /\ SF_adcVars(part = "adc" /\ MainThread)
  /\ WF_adcVars(part = "adc" /\ AdcThread)

PartSpec == PartInit /\ [][PartNext]_<<part, vars, screenVars, radio, adcVars, lookupVars>> /\ PartFairness

\* display_control.py: the panel comes to show the present state.
PanelFollows == part = "screen" => ComesToShow

\* S90radio, utilities.py: player and backends come back.
RadioComesBack == part = "radio" => ComesBack

\* adc_controller.py: the player follows its controls.
ControlsFollowed == part = "adc" => ControlsAgree

=============================================================================
