-------------------------- MODULE SourceArbitration --------------------------
(***************************************************************************)
(* Which music source plays: RadioController's arbitration over the        *)
(* backends of AirPlay, USB Audio, MPD, Spotify and Bluetooth.             *)
(*                                                                         *)
(* Four threads of the radio act on them: the metadata loop, which notices *)
(* sources that started and stops the others; the ADC thread (power switch *)
(* and presets); the playback control server; and MPD's thread that        *)
(* re-asserts its desired play state.  The handlers of the second and the  *)
(* third hold _state_lock, the loop takes it only to set the active        *)
(* source.  Senders start and stop by themselves.                          *)
(***************************************************************************)
EXTENDS Naturals, FiniteSets

CONSTANTS
  Enabled,     \* the enabled sources
  Faults,      \* what may go wrong in a backend
  SlowKeeper,  \* other threads run inside MPD's check_state
  Paced,       \* people and senders wait until the radio has settled
  Presets,     \* the preset buttons
  Repeats,     \* somebody may press the preset that was pressed last
  MaxEvents    \* bound: what people, senders and networks do

Order == <<"airplay", "usb", "mpd", "spotify", "bluetooth">>

ASSUME EnabledAssumption ==
  /\ "mpd" \in Enabled
  /\ Enabled \subseteq {Order[i] : i \in 1 .. 5}
ASSUME FaultsAssumption ==
  Faults \subseteq {"probe",    \* a backend cannot be asked for its state
                    "command",  \* a backend does not carry out a command
                    "drop"}     \* MPD loses its stream
ASSUME SpeedAssumption == {SlowKeeper, Paced, Repeats} \subseteq BOOLEAN
ASSUME PresetsAssumption == Presets \subseteq 1 .. 6
ASSUME BoundAssumption == MaxEvents \in Nat

VARIABLES
  backend,  \* the sources themselves, see Backend
  power,    \* power_switch
  active,   \* active_service
  cached,   \* services[...]["state"]
  loop,     \* the metadata loop: where, at which source, with which winner
  adc,      \* the ADC thread: where, at which source
  button,   \* current_button of handle_adc, 0 for None
  control,  \* the control server: the command whose result it records
  lock,     \* _state_lock: its holder
  keeper,   \* ensure_desired_play_state: the argument of check_state
  intent,   \* the source that was last started, "none" after a stop
  events

threadVars == <<loop, adc, button, control, lock, keeper>>
vars == <<backend, power, active, cached, threadVars, intent, events>>

\* The services, as the places of their names in Order, and a walk over them.
services == {i \in 1 .. 5 : Order[i] \in Enabled}

First == CHOOSE i \in services : \A j \in services : i <= j

More(i) == \E j \in services : j > i

After(i) == CHOOSE j \in services : j > i /\ \A k \in services : k > i => j <= k

\* Sources that are silenced by a marker file, and sources whose state is a
\* copy that a polling thread renews.
Marked == Enabled \intersect {"airplay", "usb"}
Polled == Enabled \intersect {"spotify", "bluetooth"}

Backend ==
  [stream : [Enabled -> BOOLEAN],  \* the sender, or MPD, is playing
   marker : SUBSET Marked,         \* inhibit files
   paused : BOOLEAN,               \* USB: _host_paused
   polled : [Polled -> BOOLEAN],   \* metadata.state
   desired : BOOLEAN]              \* MPD: desired_play_state

TypeOK ==
  /\ backend \in Backend
  /\ power \in BOOLEAN
  /\ active \in Enabled
  /\ cached \in [Enabled -> BOOLEAN]
  /\ loop \in [at : {"top", "scan", "raise", "stop"}, i : services,
               winner : Enabled \union {"none"}]
  /\ adc \in [at : {"idle", "selected", "stop"}, i : services]
  /\ button \in {0} \union Presets
  /\ control \in {"idle", "play", "pause", "skip"}
  /\ lock \in {"free", "adc", "control"}
  /\ keeper \in {"idle", "play", "stop"}
  /\ intent \in Enabled \union {"none"}
  /\ events \in 0 .. MaxEvents

-----------------------------------------------------------------------------
(* Backends: what get_play_state and set_play_state may do to b *)

Streams(b, s, value) == [b EXCEPT !.stream[s] = value]

\* What get_play_state answers when it works.
Reports(b, s) ==
  CASE s \in Marked -> b.stream[s] /\ s \notin b.marker
    [] s \in Polled -> b.polled[s]
    [] OTHER        -> b.stream[s]

Unmarked(b, s) == [b EXCEPT !.marker = @ \ {s}]

\* Mutant: a stream that goes on is forgiven as well.
MarkerForgotten(b, s) == Unmarked(b, s)

\* The marker goes with the stream it was made for; a USB stream that plays
\* makes an earlier pause key irrelevant.
AfterProbe(b, s) ==
  CASE s \in Marked /\ ~b.stream[s] -> Unmarked(b, s)
    [] s = "usb" /\ Reports(b, s)   -> [b EXCEPT !.paused = FALSE]
    [] OTHER                        -> b

\* get_play_state.  A failed query counts as not playing, and as the end of
\* the marked stream; Spotify and Bluetooth are not queried here.
Probes(b, s) ==
  {[answer |-> Reports(b, s), after |-> AfterProbe(b, s)]}
    \union IF "probe" \in Faults /\ s \notin Polled
           THEN {[answer |-> FALSE, after |-> Unmarked(b, s)]} ELSE {}

\* Mutant: MPD is stopped, but not told to stay so.
DesiredSticks(b, value) == [b EXCEPT !.desired = @ \/ value]

Desired(b, value) == [b EXCEPT !.desired = value]

Unheard(b) == IF "command" \in Faults THEN {b} ELSE {}

\* set_play_state(True).  The media key toggles: it may do either to a host
\* that was paused, or whose capture rate could not be read.
Plays(b, s) ==
  CASE s = "airplay" ->
         {Streams(Unmarked(b, s), s, v) : v \in {b.stream[s], TRUE}}
    [] s = "usb" ->
         {[Streams(Unmarked(b, s), s, v) EXCEPT !.paused = FALSE] :
            v \in IF b.paused \/ "probe" \in Faults THEN BOOLEAN
                  ELSE {b.stream[s], TRUE}}
    [] s = "mpd" ->
         LET wanted == Desired(b, TRUE)
         IN {Streams(wanted, s, TRUE)} \union Unheard(wanted)
    [] OTHER -> {Streams(b, s, TRUE)} \union Unheard(b)

\* set_play_state(False)
Stops(b, s) ==
  CASE s = "airplay" ->
         {Streams([b EXCEPT !.marker = @ \union {s}], s, v) :
            v \in {b.stream[s], FALSE}}
    [] s = "usb" ->
         LET marked == [b EXCEPT !.marker = @ \union {s}]
         IN {marked} \union
            IF b.paused THEN {}
            ELSE {[Streams(marked, s, v) EXCEPT !.paused = TRUE] :
                    v \in {b.stream[s], FALSE}}
    [] s = "mpd" ->
         LET unwanted == Desired(b, FALSE)
         IN {Streams(unwanted, s, FALSE)} \union Unheard(unwanted)
    [] OTHER -> {Streams(b, s, FALSE)} \union Unheard(b)

\* MPDService.play_index; when it fails the queue may be cleared already.
PlaysStation(b) ==
  {Desired(Streams(b, "mpd", TRUE), TRUE)}
    \union UNION {Unheard(c) : c \in {b, Streams(b, "mpd", FALSE)}}

\* update_metadata asks the active source for its state.
Refreshed(b, s) == {p.after : p \in Probes(b, s)}

\* Mutant: the source that is to play is stopped as well.
NobodyKept(s, keep) == FALSE

Kept(s, keep) == s = keep

\* One turn of _stop_other_services: a source that does not play is left alone.
StopsOther(b, s, keep) ==
  IF Kept(s, keep) THEN {b}
  ELSE UNION {IF p.answer THEN Stops(p.after, s) ELSE {p.after} :
                p \in Probes(b, s)}

-----------------------------------------------------------------------------

\* When polling, scanning and re-asserting would change nothing any more.
Agreed ==
  /\ \A s \in Enabled : cached[s] = Reports(backend, s)
  /\ \A s \in Polled : backend.polled[s] = backend.stream[s]
  /\ \A s \in backend.marker : backend.stream[s]
  /\ backend.stream["mpd"] = backend.desired

Settled ==
  /\ Agreed
  /\ loop.at = "top"
  /\ lock = "free"
  /\ keeper = "idle"

Event ==
  /\ events < MaxEvents
  /\ events' = events + 1
  /\ Paced => Settled

NoEvent == UNCHANGED <<intent, events>>

\* start() has played station 1; AirPlay and USB senders may be streaming
\* already, and then win by their place in the list.
Init ==
  /\ \E on \in SUBSET Marked :
       /\ backend = [stream |-> [s \in Enabled |-> s \in on \/ s = "mpd"],
                     marker |-> {}, paused |-> FALSE,
                     polled |-> [s \in Polled |-> FALSE], desired |-> TRUE]
       /\ \E i \in services :
            /\ intent = Order[i]
            /\ intent \in on \union {"mpd"}
            /\ \A j \in services : j < i => Order[j] \notin on
  /\ power \in BOOLEAN
  /\ active = "mpd"
  /\ cached = [s \in Enabled |-> FALSE]
  /\ loop = [at |-> "top", i |-> First, winner |-> "none"]
  /\ adc = [at |-> "idle", i |-> First]
  /\ button = 0
  /\ control = "idle"
  /\ lock = "free"
  /\ keeper = "idle"
  /\ events = 0

-----------------------------------------------------------------------------
(* The metadata loop *)

LoopTop ==
  /\ loop.at = "top"
  /\ loop' = [at |-> "scan", i |-> First, winner |-> "none"]
  /\ backend' \in IF power THEN Refreshed(backend, active) ELSE {backend}
  /\ UNCHANGED <<power, active, cached, adc, button, control, lock, keeper>>
  /\ NoEvent

\* Mutant: a start is not remembered.
ForgetsStart(s, value) == IF value THEN cached ELSE [cached EXCEPT ![s] = FALSE]

Seen(s, value) == [cached EXCEPT ![s] = value]

\* After the last source: stop the others if one has won.
Onward(winner) ==
  loop' = CASE More(loop.i) -> [at |-> "scan", i |-> After(loop.i), winner |-> winner]
            [] ~More(loop.i) /\ winner # "none" ->
                 [at |-> "stop", i |-> First, winner |-> winner]
            [] OTHER -> [at |-> "top", i |-> First, winner |-> "none"]

\* check_play_states: ask one source and look for a rising edge.
LoopChecks ==
  /\ loop.at = "scan"
  /\ LET s == Order[loop.i]
     IN \E p \in Probes(backend, s) :
          /\ backend' = p.after
          /\ IF p.answer /\ ~cached[s]
             THEN loop' = [loop EXCEPT !.at = "raise"] /\ UNCHANGED cached
             ELSE Onward(loop.winner) /\ cached' = Seen(s, p.answer)
  /\ UNCHANGED <<power, active, adc, button, control, lock, keeper>>
  /\ NoEvent

\* Mutant: every source that started becomes the active one.
LastWins == TRUE

FirstWins == loop.winner = "none"

\* changed_service_name
Winner(s) == IF FirstWins THEN s ELSE loop.winner

\* The first source that started becomes the active one, under the lock.
LoopRaises ==
  /\ loop.at = "raise"
  /\ LET s == Order[loop.i]
     IN /\ IF FirstWins THEN lock = "free" /\ active' = s ELSE UNCHANGED active
        /\ Onward(Winner(s))
        /\ cached' = Seen(s, TRUE)
  /\ backend' \in Refreshed(backend, active')
  /\ UNCHANGED <<power, adc, button, control, lock, keeper>>
  /\ NoEvent

LoopStops ==
  /\ loop.at = "stop"
  /\ backend' \in StopsOther(backend, Order[loop.i], loop.winner)
  /\ loop' = IF More(loop.i) THEN [loop EXCEPT !.i = After(@)]
             ELSE [at |-> "top", i |-> First, winner |-> "none"]
  /\ UNCHANGED <<power, active, cached, adc, button, control, lock, keeper>>
  /\ NoEvent

-----------------------------------------------------------------------------
(* The ADC thread *)

SwitchTurns ==
  /\ Event
  /\ adc.at = "idle" /\ lock = "free"
  /\ power' = ~power
  /\ \E b \in IF power' THEN Plays(backend, active) ELSE Stops(backend, active) :
       backend' \in Refreshed(b, active)
  /\ intent' = IF power' THEN active ELSE "none"
  /\ UNCHANGED <<active, cached, threadVars>>

ButtonSelects(p) ==
  /\ Event
  /\ p # button
  /\ adc.at = "idle" /\ lock = "free"
  /\ lock' = "adc"
  /\ active' = "mpd"
  /\ adc' = [at |-> "selected", i |-> First]
  /\ button' = p
  /\ intent' = "mpd"
  /\ UNCHANGED <<backend, power, cached, loop, control, keeper>>

\* current_button outlives the release, so the same preset is not seen again.
ButtonIgnored(p) ==
  /\ Event
  /\ Repeats
  /\ p = button
  /\ adc.at = "idle"
  /\ intent' = "mpd"
  /\ UNCHANGED <<backend, power, active, cached, threadVars>>

ButtonPlays ==
  /\ adc.at = "selected"
  /\ backend' \in PlaysStation(backend)
  /\ adc' = [at |-> "stop", i |-> First]
  /\ UNCHANGED <<power, active, cached, loop, button, control, lock, keeper>>
  /\ NoEvent

\* After the last source MPD is refreshed, which has no effect on it.
ButtonStops ==
  /\ adc.at = "stop"
  /\ backend' \in StopsOther(backend, Order[adc.i], "mpd")
  /\ IF More(adc.i)
     THEN adc' = [adc EXCEPT !.i = After(@)] /\ UNCHANGED lock
     ELSE adc' = [at |-> "idle", i |-> First] /\ lock' = "free"
  /\ UNCHANGED <<power, active, cached, loop, button, control, keeper>> /\ NoEvent

-----------------------------------------------------------------------------
(* The playback control server *)

\* next_track and previous_track play another station; a remote source keeps
\* playing.
CommandEffect(b, command) ==
  CASE command = "play"  -> Plays(b, active)
    [] command = "pause" -> Stops(b, active)
    [] command = "skip"  -> IF active = "mpd" THEN PlaysStation(b) ELSE {b}

CommandSent(command) ==
  /\ Event
  /\ control = "idle" /\ lock = "free"
  /\ power
  /\ lock' = "control"
  /\ control' = command
  /\ backend' \in CommandEffect(backend, command)
  /\ intent' = CASE command = "play"  -> active
                 [] command = "pause" -> "none"
                 [] command = "skip"  -> IF active = "mpd" THEN "mpd" ELSE intent
  /\ UNCHANGED <<power, active, cached, loop, adc, button, keeper>>

\* An accepted Play or Pause is written to the cached state; a rejected one
\* ends at once.
CommandRecorded ==
  /\ control # "idle"
  /\ control' = "idle"
  /\ lock' = "free"
  /\ \/ /\ control # "skip"
        /\ cached' = [cached EXCEPT ![active] = (control = "play")]
     \/ /\ control = "skip" \/ "command" \in Faults
        /\ UNCHANGED cached
  /\ backend' \in Refreshed(backend, active)
  /\ UNCHANGED <<power, active, loop, adc, button, keeper>> /\ NoEvent

-----------------------------------------------------------------------------
(* MPD's own thread *)

\* check_state with the argument wanted.
Keeps(wanted) ==
  \E p \in Probes(backend, "mpd") :
    backend' \in IF p.answer = wanted THEN {p.after}
                 ELSE IF wanted THEN Plays(p.after, "mpd")
                 ELSE Stops(p.after, "mpd")

KeeperKeeps ==
  /\ ~SlowKeeper
  /\ Keeps(backend.desired)
  /\ UNCHANGED <<power, active, cached, threadVars>> /\ NoEvent

\* desired_play_state is read before check_state is called.
KeeperReads ==
  /\ SlowKeeper
  /\ keeper = "idle"
  /\ keeper' = IF backend.desired THEN "play" ELSE "stop"
  /\ UNCHANGED <<backend, power, active, cached, loop, adc, button, control, lock>>
  /\ NoEvent

KeeperActs ==
  /\ keeper # "idle"
  /\ Keeps(keeper = "play")
  /\ keeper' = "idle"
  /\ UNCHANGED <<power, active, cached, loop, adc, button, control, lock>>
  /\ NoEvent

-----------------------------------------------------------------------------
(* Senders, networks and the threads that poll them *)

Poll(s) ==
  /\ backend' = [backend EXCEPT !.polled[s] = backend.stream[s]]
  /\ UNCHANGED <<power, active, cached, threadVars>> /\ NoEvent

SenderStarts(s) ==
  /\ Event
  /\ s # "mpd" /\ ~backend.stream[s]
  /\ backend' = Streams(backend, s, TRUE)
  /\ intent' = s
  /\ UNCHANGED <<power, active, cached, threadVars>>

SenderStops(s) ==
  /\ Event
  /\ s # "mpd" /\ backend.stream[s]
  /\ backend' = Streams(backend, s, FALSE)
  /\ intent' = IF intent = s THEN "none" ELSE intent
  /\ UNCHANGED <<power, active, cached, threadVars>>

MpdDrops ==
  /\ "drop" \in Faults
  /\ events < MaxEvents
  /\ events' = events + 1
  /\ backend.stream["mpd"]
  /\ backend' = Streams(backend, "mpd", FALSE)
  /\ UNCHANGED <<power, active, cached, threadVars, intent>>

-----------------------------------------------------------------------------

Loop == LoopTop \/ LoopChecks \/ LoopRaises \/ LoopStops
Adc == ButtonPlays \/ ButtonStops
Keeper == KeeperKeeps \/ KeeperReads \/ KeeperActs

Next ==
  \/ Loop \/ Adc \/ CommandRecorded \/ Keeper
  \/ \E s \in Polled : Poll(s)
  \/ SwitchTurns
  \/ \E p \in Presets : ButtonSelects(p) \/ ButtonIgnored(p)
  \/ \E command \in {"play", "pause", "skip"} : CommandSent(command)
  \/ \E s \in Enabled : SenderStarts(s) \/ SenderStops(s)
  \/ MpdDrops

Spec == Init /\ [][Next]_vars

\* The radio's threads run for ever and none of their calls blocks for ever.
FairSpec ==
  /\ Spec
  /\ WF_vars(Loop) /\ WF_vars(Adc) /\ WF_vars(CommandRecorded) /\ WF_vars(Keeper)
  /\ \A s \in Polled : WF_vars(Poll(s))

-----------------------------------------------------------------------------
(* Properties *)

Playing == {s \in Enabled : Reports(backend, s)}

\* check_play_states: once the radio has settled at most one source plays
\* (adding-a-music-source.md:139, "starting one stops the others").
OneSource == Settled => Cardinality(Playing) <= 1

\* check_play_states: what plays is what was started last, by a preset, a
\* command, the power switch or a sender (at startup the first in the list), and
\* it is what the controller commands and displays.
LastStartedPlays ==
  /\ TypeOK
  /\ Settled => Playing \subseteq {intent} \intersect {active}

\* handle_button_press: after a preset, or another start of MPD, the radio is
\* not silent (radio.py:497, "playing the selected index").
PresetHeard == Settled /\ intent = "mpd" => Playing # {}

\* A source that was switched away from stays silent until its sender ends
\* the stream, or Play asks for it (airplay.md:98, usb-audio.md:94).
SilencedUntilStreamEnds ==
  [][\A s \in Marked :
       s \in backend.marker /\ s \notin backend'.marker =>
         ~backend.stream[s] \/ control' = "play" \/ power' # power]_vars

\* ensure_desired_play_state: MPD starts by itself only while it is the
\* active source.
MpdStaysAway ==
  [][~backend.stream["mpd"] /\ backend'.stream["mpd"] => active' = "mpd"]_vars

\* The threads do not undo each other's work for ever.
Converges == <>[]Agreed

=============================================================================
