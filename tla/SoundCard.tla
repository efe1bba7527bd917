------------------------------ MODULE SoundCard ------------------------------
(***************************************************************************)
(* Sound card and equalizer (radio_web/audio_hardware_apply.py,            *)
(* audio_hardware_store.py, equalizer_store.py, route_display_audio.py,    *)
(* helper.py, radio_equalizer.c).                                          *)
(*                                                                         *)
(* A card is named in four places: config.txt on the boot partition, which *)
(* the firmware reads, asound.conf, mpd.conf and the owner's choice.  The  *)
(* equalizer is a stage of the route in asound.conf, which a player sees   *)
(* when it opens the route, and a runtime file, which the stage of every   *)
(* player reads again and again.                                           *)
(***************************************************************************)
EXTENDS Naturals, Sequences, SequencesExt

CONSTANTS
  Cards, DefaultCard,
  Settings, Flat,   \* equalizer settings; Flat is disabled
  Services,         \* the sequence of services that play, "radio" among them
  Levels,           \* of the volume knob
  SoundFaults,      \* subset of {"boot", "files", "save", "runtime", "route", "restart"}
  Overlap,          \* helper and knob may write the runtime file at once
  MaxSoundFaults, MaxRequests, MaxTurns, MaxBoots  \* bounds

ASSUME SoundAssumption ==
  /\ DefaultCard \in Cards /\ Flat \in Settings
  /\ Services \in Seq(STRING) /\ "radio" \in ToSet(Services)

VARIABLES
  boot, kernelCard, \* the card of config.txt, and the one the kernel has
  asound,           \* [card, stage]
  mpd,              \* the card of mpd.conf
  choice, eqSaved,  \* audio_hardware.ini, equalizer.ini
  runtime,          \* equalizer.rt: [gen, eq, volume]
  taken,            \* what the stage of every service has read, if it has one
  knob,             \* the knob's level
  pushing,          \* what the ADC loop is about to write: None, or a sequence
                    \* of one settings
  task,             \* the request being carried out
  changed, torn,    \* since the boot the card was changed, or only in part
  answered,         \* the last answer about the equalizer
  unapplied,        \* since the boot: "none", "settings" that were saved and not
                    \* applied, or "services" that were not restarted
  soundFaults, requests, turns, boots

card == <<boot, asound, mpd, choice>>
ends == <<changed, torn, answered, unapplied>>
bounds == <<soundFaults, requests, turns, boots>>
cardVars == <<boot, kernelCard, asound, mpd, choice, eqSaved, runtime, taken, knob, pushing, task,
              ends, bounds>>

None == <<>>
Bypass == [gen |-> 0, eq |-> Flat, volume |-> 0]
NoTask == [at |-> "idle"]
Players == ToSet(Services)
Enabled(settings) == settings # Flat

\* control_values: all zero when the equalizer is disabled, the volume too.
Values(gen, settings, volume) ==
  [gen |-> gen, eq |-> settings, volume |-> IF Enabled(settings) THEN volume ELSE 0]

\* A service opens the route.
Opened(file, route) == IF route.stage THEN file ELSE Bypass

Route(c, settings) == [card |-> c, stage |-> Enabled(settings)]

CardInit ==
  /\ choice \in Cards /\ boot = choice /\ kernelCard = choice /\ mpd = choice
  /\ eqSaved \in Settings /\ knob \in Levels
  /\ asound = Route(choice, eqSaved)
  /\ runtime = Values(2, eqSaved, knob)
  /\ taken = [p \in Players |-> Opened(runtime, asound)]
  /\ pushing = None /\ task = NoTask
  /\ changed = FALSE /\ torn = FALSE /\ answered = "boot" /\ unapplied = "none"
  /\ soundFaults = 0 /\ requests = 0 /\ turns = 0 /\ boots = 0

\* What may go wrong, and where the request goes when it does not.
Fails(kind) == kind \in SoundFaults /\ soundFaults < MaxSoundFaults /\ soundFaults' = soundFaults + 1
Goes(step) == task' = [task EXCEPT !.at = step] /\ UNCHANGED soundFaults

Request == task = NoTask /\ requests < MaxRequests /\ requests' = requests + 1

-----------------------------------------------------------------------------
(* The card: /audio-hardware with op apply, apply_all or restore.          *)

\* Mutant: the choice is saved at once.
AsksCardAndSaves(op, c) ==
  /\ Request
  /\ op = "restore" => c = DefaultCard
  /\ task' = IF op = "apply_all" /\ c = choice THEN NoTask ELSE [at |-> "boot", card |-> c]
  /\ choice' = c
  /\ UNCHANGED <<boot, asound, mpd, kernelCard, eqSaved, runtime, taken, knob, pushing, ends, soundFaults, turns, boots>>

\* apply_all does nothing about a card that is already the owner's choice.
AsksCard(op, c) ==
  /\ Request
  /\ op = "restore" => c = DefaultCard
  /\ task' = IF op = "apply_all" /\ c = choice THEN NoTask ELSE [at |-> "boot", card |-> c]
  /\ UNCHANGED <<card, kernelCard, eqSaved, runtime, taken, knob, pushing, ends, soundFaults, turns, boots>>

\* Mount, back up, edit and replace; unmount in any case.  A failure leaves
\* config.txt as it was.
WritesBoot ==
  /\ task.at = "boot"
  /\ \/ boot' = task.card /\ Goes("asound") /\ UNCHANGED torn
     \/ Fails("boot") /\ task' = NoTask /\ UNCHANGED <<boot, torn>>
  /\ UNCHANGED <<kernelCard, asound, mpd, choice, eqSaved, runtime, taken, knob, pushing, changed,
                 answered, unapplied, requests, turns, boots>>

\* From here on a failure leaves a card that is changed in part.
Tears(kind) == Fails(kind) /\ task' = NoTask /\ torn' = TRUE

WritesAsound ==
  /\ task.at = "asound" /\ changed' = TRUE
  /\ \/ asound' = Route(task.card, eqSaved) /\ Goes("mpd") /\ UNCHANGED torn
     \/ Tears("files") /\ UNCHANGED asound
  /\ UNCHANGED <<boot, kernelCard, mpd, choice, eqSaved, runtime, taken, knob, pushing, answered,
                 unapplied, requests, turns, boots>>

WritesMpd ==
  /\ task.at = "mpd"
  /\ \/ mpd' = task.card /\ Goes("modules") /\ UNCHANGED torn
     \/ Tears("files") /\ UNCHANGED mpd
  /\ UNCHANGED <<boot, kernelCard, asound, choice, eqSaved, runtime, taken, knob, pushing, changed,
                 answered, unapplied, requests, turns, boots>>

\* The output policy of the USB bridge, and the modules to load.
WritesModules ==
  /\ task.at = "modules"
  /\ \/ Goes("save") /\ UNCHANGED torn
     \/ Tears("files")
  /\ UNCHANGED <<card, kernelCard, eqSaved, runtime, taken, knob, pushing, changed, answered,
                 unapplied, requests, turns, boots>>

\* Only now the web server saves the choice (restore removes the file).
SavesCard ==
  /\ task.at = "save"
  /\ \/ choice' = task.card /\ task' = NoTask /\ torn' = FALSE /\ UNCHANGED soundFaults
     \/ Tears("save") /\ UNCHANGED choice
  /\ UNCHANGED <<boot, kernelCard, asound, mpd, eqSaved, runtime, taken, knob, pushing, changed,
                 answered, unapplied, requests, turns, boots>>

-----------------------------------------------------------------------------
(* The equalizer: op apply_equalizer, restore_equalizer, save_equalizer.   *)

NotApplied == unapplied' = IF unapplied = "none" THEN "settings" ELSE unapplied

AsksEqualizer(op, settings) ==
  /\ Request
  /\ op = "restore" => settings = Flat
  /\ eqSaved' = settings
  /\ IF op = "save" THEN answered' = "saved" /\ NotApplied /\ UNCHANGED task
     ELSE answered' = "asked" /\ task' = [at |-> "look"] /\ UNCHANGED unapplied
  /\ UNCHANGED <<card, kernelCard, runtime, taken, knob, pushing, changed, torn, soundFaults, turns, boots>>

\* apply_equalizer: the stage that asound.conf has decides whether the route
\* has to change; write_runtime keeps the volume it finds.
LooksAtRoute ==
  /\ task.at = "look" /\ (Overlap \/ pushing = None)
  /\ task' = [at |-> "runtime", card |-> choice, eq |-> eqSaved, volume |-> runtime.volume,
              structural |-> Enabled(eqSaved) # asound.stage, next |-> 1]
  /\ UNCHANGED <<card, kernelCard, eqSaved, runtime, taken, knob, pushing, ends, bounds>>

Finishes(answer) == task' = NoTask /\ answered' = answer

\* Mutant: the generation stays.
WritesRuntimeUnseen ==
  /\ task.at = "runtime"
  /\ \/ /\ runtime' = Values(runtime.gen, task.eq, task.volume)
        /\ IF task.structural THEN Goes("route") /\ UNCHANGED answered
           ELSE Finishes("applied") /\ UNCHANGED soundFaults
        /\ UNCHANGED unapplied
     \/ Fails("runtime") /\ Finishes("failed") /\ NotApplied /\ UNCHANGED runtime
  /\ UNCHANGED <<card, kernelCard, eqSaved, taken, knob, pushing, changed, torn, requests, turns,
                 boots>>

WritesRuntime ==
  /\ task.at = "runtime"
  /\ \/ /\ runtime' = Values(runtime.gen + 1, task.eq, task.volume)
        /\ IF task.structural THEN Goes("route") /\ UNCHANGED answered
           ELSE Finishes("applied") /\ UNCHANGED soundFaults
        /\ UNCHANGED unapplied
     \/ Fails("runtime") /\ Finishes("failed") /\ NotApplied /\ UNCHANGED runtime
  /\ UNCHANGED <<card, kernelCard, eqSaved, taken, knob, pushing, changed, torn, requests, turns,
                 boots>>

WritesRoute ==
  /\ task.at = "route"
  /\ \/ asound' = Route(task.card, task.eq) /\ Goes("restart") /\ UNCHANGED <<answered, unapplied>>
     \/ Fails("route") /\ Finishes("failed") /\ NotApplied /\ UNCHANGED asound
  /\ UNCHANGED <<boot, kernelCard, mpd, choice, eqSaved, runtime, taken, knob, pushing, changed, torn,
                 requests, turns, boots>>

\* One service after the other; the first that fails is the last.  The player
\* pushes its volume when it starts (RadioController.start).
RestartsNext ==
  /\ task.at = "restart"
  /\ LET p == Services[task.next]
     IN  \/ /\ runtime' = IF p = "radio" THEN Values(runtime.gen + 1, eqSaved, knob) ELSE runtime
            /\ taken' = [taken EXCEPT ![p] = Opened(runtime', asound)]
            /\ pushing' = IF p = "radio" THEN None ELSE pushing
            /\ IF task.next = Len(Services) THEN Finishes("applied")
               ELSE task' = [task EXCEPT !.next = @ + 1] /\ UNCHANGED answered
            /\ UNCHANGED <<soundFaults, unapplied>>
         \/ /\ Fails("restart") /\ Finishes("failed") /\ unapplied' = "services"
            /\ UNCHANGED <<runtime, taken, pushing>>
  /\ UNCHANGED <<card, kernelCard, eqSaved, knob, changed, torn, requests, turns, boots>>

-----------------------------------------------------------------------------
(* The knob (write_runtime_volume), the stages (rt_refresh), the power.    *)

Turns ==
  /\ pushing = None /\ turns < MaxTurns /\ turns' = turns + 1
  /\ Overlap \/ task.at # "runtime"
  /\ \E level \in Levels \ {knob} : knob' = level
  /\ pushing' = <<eqSaved>>
  /\ UNCHANGED <<card, kernelCard, eqSaved, runtime, taken, task, ends, soundFaults, requests, boots>>

\* Settings that were saved and not applied take effect here.
PushesVolume ==
  /\ pushing # None /\ pushing' = None
  /\ runtime' = Values(runtime.gen + 1, pushing[1], knob)
  /\ UNCHANGED <<card, kernelCard, eqSaved, taken, knob, task, ends, bounds>>

Refreshes(p) ==
  /\ taken[p] # Bypass /\ taken[p].gen # runtime.gen
  /\ taken' = [taken EXCEPT ![p] = runtime]
  /\ UNCHANGED <<card, kernelCard, eqSaved, runtime, knob, pushing, task, ends, bounds>>

\* A stream ends and the next one opens the route anew.
Reopens(p) ==
  /\ taken[p] # Opened(runtime, asound)
  /\ taken' = [taken EXCEPT ![p] = Opened(runtime, asound)]
  /\ UNCHANGED <<card, kernelCard, eqSaved, runtime, knob, pushing, task, ends, bounds>>

\* A power loss, or the reboot that the page asks for.  render_runtime writes
\* asound.conf and mpd.conf from the saved choices, the helper seeds the runtime
\* file, and the player pushes its volume.
Reboots ==
  /\ boots < MaxBoots /\ boots' = boots + 1
  /\ kernelCard' = boot /\ mpd' = choice /\ asound' = Route(choice, eqSaved)
  /\ runtime' = Values(2, eqSaved, knob)
  /\ taken' = [p \in Players |-> Opened(runtime', asound')]
  /\ torn' = (torn \/ task.at \in {"asound", "mpd", "modules", "save"})
  /\ changed' = FALSE /\ answered' = "boot" /\ unapplied' = "none"
  /\ task' = NoTask /\ pushing' = None
  /\ UNCHANGED <<boot, choice, eqSaved, knob, soundFaults, requests, turns>>

CardNext ==
  \/ \E c \in Cards, op \in {"apply", "apply_all", "restore"} : AsksCard(op, c)
  \/ WritesBoot \/ WritesAsound \/ WritesMpd \/ WritesModules \/ SavesCard
  \/ \E s \in Settings, op \in {"apply", "save", "restore"} : AsksEqualizer(op, s)
  \/ LooksAtRoute \/ WritesRuntime \/ WritesRoute \/ RestartsNext
  \/ Turns \/ PushesVolume \/ Reboots
  \/ \E p \in Players : Refreshes(p) \/ Reopens(p)

CardSpec == CardInit /\ [][CardNext]_cardVars

-----------------------------------------------------------------------------
(* Properties.                                                             *)

CardTypeOK ==
  /\ {boot, kernelCard, mpd, choice, asound.card} \subseteq Cards
  /\ eqSaved \in Settings /\ knob \in Levels /\ taken \in [Players -> [gen : Nat,
       eq : Settings, volume : Levels \union {0}]]

\* The four places name one card whenever no request is under way, unless one
\* has failed or was cut after it had replaced config.txt; a failure before
\* that leaves all of them as they were ("so a helper failure cannot leave the
\* UI claiming that an unapplied card is active"), and a boot that follows finds
\* the card that its route names.
CardWhole ==
  /\ CardTypeOK
  /\ task = NoTask /\ ~torn =>
       /\ boot = choice /\ mpd = choice /\ asound.card = choice
       /\ ~changed => kernelCard = choice

HasLooked(p) == pushing = None /\ (taken[p] = Bypass \/ taken[p].gen = runtime.gen)

\* When the equalizer was applied, or the radio was booted, every service plays
\* with the owner's settings once its stage has looked at the runtime file, and
\* at the knob's volume unless settings were saved without being applied.
\* Somebody who has changed the card, or was told that a service could not be
\* restarted, reboots first.
AppliedIsHeard ==
  answered \in {"applied", "boot"} /\ ~changed /\ unapplied # "services" =>
    \A p \in Players : HasLooked(p) =>
      /\ taken[p].eq = eqSaved
      /\ (taken[p] = Bypass) <=> ~Enabled(eqSaved)
      /\ unapplied = "none" /\ Enabled(eqSaved) => taken[p].volume = knob

\* helper.py: when the stage is inserted or removed "every long-lived ALSA
\* client must reopen the route" before the helper answers that the equalizer
\* is applied to all sources.
AllReopened ==
  answered = "applied" /\ ~changed =>
    \A p \in Players : HasLooked(p) => ((taken[p] = Bypass) <=> ~Enabled(eqSaved))

=============================================================================
