------------------------------ MODULE AdcInputs ------------------------------
(***************************************************************************)
(* Knob, buttons and power switch: three voltages that one ADS1115         *)
(* converts, one channel at a time, for two threads of the player.  The    *)
(* main thread reads knob and switch while the player starts               *)
(* (RadioController.__init__ and start); the ADC thread reads all of them  *)
(* for ever (handle_adc) and calls the controller when one changes.        *)
(***************************************************************************)
EXTENDS Naturals

CONSTANTS
  Cap,         \* max_volume, in percent
  MixerMax,    \* mixer_max_percent
  ControlFaults,  \* what may fail: "i2c" transfers, the "mixer"
  SharedBus,   \* both threads may use the converter at once
  EarlyTouch,  \* people use the controls while the player starts
  MaxTouches, MaxNoise  \* bounds


VARIABLES
  input,    \* the voltage at each channel, as one of four levels
  channel,  \* the ADS1115's configuration register
  at,       \* where the threads are
  asked,    \* the threads that wait for their conversion
  given,    \* the state that the main thread passes to its handler
  seen,     \* desired_switch_state
  volume, switch, button,  \* current_volume, current_switch_state, current_button
  mixer,    \* what ALSA plays at, in percent
  power,    \* power_switch of the controller
  amp,      \* the amplifier's GPIO
  preset,   \* the station MPD was last given
  touches, noise

noticed == <<given, seen, volume, switch, button>>
effects == <<mixer, power, amp, preset>>
adcVars == <<input, channel, at, asked, noticed, effects, touches, noise>>

Threads == {"main", "adc"}
Knob == 0
Ladder == 1
Switch == 2
Unused == 3

Unread == 101

AdcInit ==
  /\ input \in [{Knob, Ladder, Switch, Unused} -> {0, 3}]
  /\ input[Ladder] = 3 /\ input[Unused] = 0
  /\ channel = Knob /\ asked = {}
  /\ at = [main |-> "construct", adc |-> "off"]
  /\ given = FALSE /\ seen = FALSE /\ volume = Unread /\ switch = FALSE /\ button = 0
  /\ mixer = 100 /\ power = FALSE /\ amp = FALSE /\ preset = 0
  /\ touches = 0 /\ noise = 0

-----------------------------------------------------------------------------
(* What the voltages mean.                                                 *)

\* read_adc_volume, cut off at the configured maximum.
Volume(level) ==
  LET percent == CASE level = 0 -> 0 [] level = 1 -> 1 [] level = 2 -> 32 [] OTHER -> 100
  IN  IF percent < Cap THEN percent ELSE Cap

\* linear_to_log_volume, for the percentages that occur, and mixer_max_percent.
Loudness(percent) ==
  ((CASE percent <= 1 -> 0 [] percent = 32 -> 75 [] OTHER -> 100) * MixerMax) \div 100

\* find_button: the other levels lie outside every window.
Pressed(level) == IF level \in {1, 2} THEN level ELSE 0

IsOn(level) == level = 0

-----------------------------------------------------------------------------
(* The converter.                                                          *)

Reads == [construct |-> Switch, loudness |-> Knob, initial |-> Switch,
          volume |-> Knob, switch |-> Switch, confirm |-> Switch,
          buttons |-> Ladder, snapshot |-> Unused]

Asks(t) ==
  /\ at[t] \in DOMAIN Reads /\ t \notin asked
  /\ SharedBus \/ asked = {}
  /\ channel' = Reads[at[t]] /\ asked' = asked \union {t}
  /\ UNCHANGED <<input, at, noticed, effects, touches, noise>>

GoesOn(t, place) == at' = [at EXCEPT ![t] = place]

\* The conversion of whatever channel the register names by now.
Receives(t, place) ==
  /\ at[t] = place /\ t \in asked /\ asked' = asked \ {t}
  /\ UNCHANGED <<input, channel, touches>>

Value == input[channel]

\* setvolume, again on a new handle, and given up.
Sets(percent) ==
  \/ mixer' = Loudness(percent) /\ UNCHANGED noise
  \/ /\ "mixer" \in ControlFaults /\ noise < MaxNoise
     /\ noise' = noise + 1 /\ UNCHANGED mixer

-----------------------------------------------------------------------------
(* The main thread.                                                        *)

Constructs ==
  /\ Receives("main", "construct") /\ GoesOn("main", "loudness")
  /\ power' = IsOn(Value)
  /\ UNCHANGED <<noticed, mixer, amp, preset, noise>>

\* The ADC thread starts when the volume is known and set.
InitialVolume ==
  /\ Receives("main", "loudness")
  /\ at' = [main |-> "initial", adc |-> "volume"]
  /\ Sets(Volume(Value))
  /\ UNCHANGED <<noticed, power, amp, preset>>

\* Mutant: the handler is not told the first state of the switch.
InitialUntold ==
  /\ Receives("main", "initial") /\ GoesOn("main", "apply")
  /\ power' = IsOn(Value)
  /\ UNCHANGED <<noticed, mixer, amp, preset, noise>>

InitialSwitch ==
  /\ Receives("main", "initial") /\ GoesOn("main", "apply")
  /\ power' = IsOn(Value) /\ given' = power'
  /\ UNCHANGED <<seen, volume, switch, button, mixer, amp, preset, noise>>

\* handle_switch_state_change: power and sources under the lock, then the
\* amplifier.
NewState(t) == IF t = "main" THEN given ELSE switch

Applies(t) ==
  /\ at[t] = "apply" /\ GoesOn(t, "amplifier") /\ power' = NewState(t)
  /\ UNCHANGED <<input, channel, asked, noticed, mixer, amp, preset, touches, noise>>

Amplifies(t) ==
  /\ at[t] = "amplifier" /\ GoesOn(t, IF t = "main" THEN "play" ELSE "buttons")
  /\ amp' = NewState(t)
  /\ UNCHANGED <<input, channel, asked, noticed, mixer, power, preset, touches, noise>>

\* mpd.play_index(1)
PlaysFirst ==
  /\ at.main = "play" /\ GoesOn("main", "run") /\ preset' = 1
  /\ UNCHANGED <<input, channel, asked, noticed, mixer, power, amp, touches, noise>>

-----------------------------------------------------------------------------
(* The ADC thread.                                                         *)

\* Only a new value reaches the mixer, and it counts as set whatever happens.
TurnsVolume ==
  /\ Receives("adc", "volume") /\ GoesOn("adc", "switch")
  /\ LET desired == Volume(Value)
     IN  /\ volume' = desired
         /\ IF desired = volume THEN UNCHANGED <<mixer, noise>> ELSE Sets(desired)
  /\ UNCHANGED <<given, seen, switch, button, power, amp, preset>>

\* Mutant: the change is noted before it is confirmed.
NotesFirst ==
  /\ Receives("adc", "switch") /\ seen' = IsOn(Value) /\ switch' = seen'
  /\ GoesOn("adc", IF seen' = switch THEN "buttons" ELSE "confirm")
  /\ UNCHANGED <<given, volume, button, effects, noise>>

LooksAtSwitch ==
  /\ Receives("adc", "switch") /\ seen' = IsOn(Value)
  /\ GoesOn("adc", IF seen' = switch THEN "buttons" ELSE "confirm")
  /\ UNCHANGED <<given, volume, switch, button, effects, noise>>

\* The second reading has to agree.
Confirms ==
  /\ Receives("adc", "confirm")
  /\ IF IsOn(Value) = seen
     THEN switch' = seen /\ GoesOn("adc", "apply")
     ELSE GoesOn("adc", "buttons") /\ UNCHANGED switch
  /\ UNCHANGED <<given, seen, volume, button, effects, noise>>

\* handle_button_press; a released ladder leaves current_button as it is.
\* Diagnostics follow at most five times a second.
LooksAtButtons ==
  /\ Receives("adc", "buttons")
  /\ \E next \in {"snapshot", "volume"} : GoesOn("adc", next)
  /\ LET b == Pressed(Value)
     IN  IF b \in {0, button}
         THEN UNCHANGED <<button, preset>>
         ELSE button' = b /\ preset' = b
  /\ UNCHANGED <<given, seen, volume, switch, mixer, power, amp, noise>>

Publishes ==
  /\ Receives("adc", "snapshot") /\ GoesOn("adc", "volume")
  /\ UNCHANGED <<noticed, effects, noise>>

-----------------------------------------------------------------------------
(* What people and the bus do.                                             *)

\* A transfer fails.  The ADC loop starts again from the top, with what it
\* knew; without a first volume there is no audio; and a switch that cannot be
\* read while the player starts ends it, for the supervisor to start it again.
TransferFails(t) ==
  /\ t \in asked /\ "i2c" \in ControlFaults
  /\ noise < MaxNoise /\ noise' = noise + 1
  /\ CASE t = "adc" ->
            /\ GoesOn("adc", "volume") /\ asked' = asked \ {t}
            /\ UNCHANGED <<noticed, effects>>
       [] at[t] = "loudness" ->
            /\ GoesOn("main", "silent") /\ asked' = {}
            /\ UNCHANGED <<noticed, effects>>
       [] OTHER ->
            /\ at' = [main |-> "construct", adc |-> "off"] /\ asked' = {}
            /\ given' = FALSE /\ seen' = FALSE /\ switch' = FALSE
            /\ volume' = Unread /\ button' = 0
            /\ power' = FALSE /\ amp' = FALSE
            /\ UNCHANGED <<mixer, preset>>
  /\ UNCHANGED <<input, channel, touches>>

\* The player has started when the ADC thread knows the switch as well:
\* current_switch_state begins with False, so that a switch that is turned off
\* before its first look is never reported.
Started == at.main = "silent" \/ (at.main = "run" /\ switch = amp)

\* Somebody turns the knob or the switch, or presses or releases a button.
Touches(c, level) ==
  /\ touches < MaxTouches /\ touches' = touches + 1
  /\ EarlyTouch \/ Started
  /\ level # input[c] /\ input' = [input EXCEPT ![c] = level]
  /\ UNCHANGED <<channel, at, asked, noticed, effects, noise>>

AdcThread ==
  \/ Asks("adc") \/ TurnsVolume \/ LooksAtSwitch \/ Confirms
  \/ Applies("adc") \/ Amplifies("adc") \/ LooksAtButtons \/ Publishes
MainThread ==
  \/ Asks("main") \/ Constructs \/ InitialVolume \/ InitialSwitch
  \/ Applies("main") \/ Amplifies("main") \/ PlaysFirst
People ==
  \/ \E level \in 0 .. 3 : Touches(Knob, level)
  \/ \E level \in {0, 3} : Touches(Switch, level)
  \/ \E level \in 1 .. 3 : Touches(Ladder, level)

AdcNext ==
  AdcThread \/ MainThread \/ People \/ \E t \in Threads : TransferFails(t)

\* Both threads run; nobody need touch anything and nothing need fail.  The
\* converter goes to whoever asks next.
AdcSpec ==
  /\ AdcInit /\ [][AdcNext]_adcVars
  /\ SF_adcVars(MainThread) /\ WF_adcVars(AdcThread)

-----------------------------------------------------------------------------
(* Properties *)

AdcTypeOK ==
  /\ input \in [{Knob, Ladder, Switch, Unused} -> 0 .. 3]
  /\ channel \in DOMAIN input /\ asked \subseteq Threads
  /\ {seen, switch, power, amp, given} \subseteq BOOLEAN
  /\ volume \in 0 .. 101 /\ mixer \in 0 .. 100
  /\ button \in 0 .. 2 /\ preset \in 0 .. 2

\* The conversion a thread waits for is of the channel it asked for
\* (ADS1115._read: the register names one channel for both threads).
OwnConversion == \A t \in asked : channel = Reads[at[t]]

\* Once the player runs, what the ADC thread has taken in of its controls is what
\* the radio does: the mixer is at the last volume, the station is that of the
\* last button, power and amplifier agree, and with the switch as last reported,
\* unless it was on from the start and has not been looked at (handle_adc, start).
Obeyed ==
  at.main = "run" =>
    /\ volume # Unread => mixer = Loudness(volume)
    /\ button # 0 => preset = button
    /\ at.adc \notin {"apply", "amplifier"} =>
         /\ power = amp
         /\ switch = amp \/ (amp /\ ~switch /\ IsOn(input[Switch]))

Follows ==
  /\ mixer = Loudness(Volume(input[Knob]))
  /\ power = IsOn(input[Switch]) /\ amp = power
  /\ Pressed(input[Ladder]) \in {0, preset}

\* When people have let go, sound, power, amplifier and station come to agree
\* with knob, switch and buttons for good, whatever transfers failed, unless
\* the volume could not be read when the player started (handle_adc, start).
ControlsAgree == <>[](AdcTypeOK /\ (Follows \/ at.main = "silent"))

=============================================================================
