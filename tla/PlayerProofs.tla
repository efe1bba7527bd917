---------------------------- MODULE PlayerProofs ----------------------------
(***************************************************************************)
(* The player's surroundings: Supervision for any backends, any number of  *)
(* crashes, exits and freezes, and any use of the init script; SoundCard   *)
(* for any cards, settings, services and levels, whatever fails; Display   *)
(* for any tracks, volumes and toasts; and AdcInputs for any maximum       *)
(* volume and any number of touches and failed transfers.                  *)
(***************************************************************************)
EXTENDS Supervision, SoundCard, Display, AdcInputs, SequenceTheorems, TLAPS

-----------------------------------------------------------------------------
(***************************************************************************)
(* Supervision.                                                            *)
(***************************************************************************)

(***************************************************************************)
(* Type correctness: a backend has one process left over at most.          *)
(***************************************************************************)
Counted ==
  /\ RadioTypes
  /\ leftover \in [Backends -> {0, 1}]

(***************************************************************************)
(* A player is a child of a waiting shell, and only an initialised player  *)
(* has backends.                                                           *)
(***************************************************************************)
Owned ==
  /\ player # "none" => shell = "wait"
  /\ player \in {"none", "init"} => own = {} /\ monitor = Off

(***************************************************************************)
(* What a player left over is gone before there is another, and with the   *)
(* shell; there is no shell from the kill of its group to the next start.  *)
(***************************************************************************)
Cleared ==
  /\ leftover # Nobody => player = "none" /\ shell \in {"reap", "wait", "sleep"}
  /\ script \in {"shell", "killall", "stopped"} => shell = "none"

SInv == Counted /\ Owned /\ Cleared

-----------------------------------------------------------------------------

LEMMA FewLeft == [Backends -> {0, 1}] \subseteq [Backends -> 0 .. 1 + MaxTroubles]
<1>1. {0, 1} \subseteq 0 .. 1 + MaxTroubles
  BY TroublesAssumption
<1>2. QED
  BY <1>1

LEMMA AtFirst == RadioInit => SInv
<1>1. SUFFICES ASSUME RadioInit PROVE SInv
  OBVIOUS
<1>2. leftover \in [Backends -> {0, 1}]
  BY <1>1 DEF RadioInit, Nobody
<1>3. Counted
  BY <1>1, <1>2, FewLeft DEF RadioInit, Counted, RadioTypes, Off
<1>4. Owned /\ Cleared
  BY <1>1 DEF RadioInit, Owned, Cleared
<1>5. QED
  BY <1>3, <1>4 DEF SInv

\* The kill of a group leaves nobody.
LEMMA GroupKilled ==
  ASSUME SInv, GroupDies
  PROVE  /\ shell' = "none" /\ player' = "none" /\ own' = {} /\ monitor' = Off
         /\ leftover' = Nobody /\ known' \subseteq Backends
  BY DEF SInv, Counted, RadioTypes, Owned, Cleared, GroupDies, procs

\* Only a player's death leaves backends behind, and then nothing was left before.
LEMMA OneIsLeft ==
  ASSUME SInv, PlayerDies, player # "none"
  PROVE  leftover' \in [Backends -> {0, 1}]
<1>1. leftover = Nobody
  BY DEF SInv, Cleared
<1>2. ASSUME NEW b \in Backends
      PROVE  leftover[b] + (IF b \in own THEN 1 ELSE 0) \in {0, 1}
  <2>1. leftover[b] = 0
    BY <1>1 DEF Nobody
  <2>2. QED
    BY <2>1
<1>3. QED
  BY <1>2 DEF PlayerDies

LEMMA ScriptSteps ==
  ASSUME SInv, Start \/ Stop \/ Script
  PROVE  SInv'
<1>1. CASE Start
  <2>1. Counted'
    BY <1>1 DEF SInv, Counted, RadioTypes, Start, procs
  <2>2. Owned' /\ Cleared'
    BY <1>1 DEF SInv, Owned, Cleared, Start, procs, Off, Nobody
  <2>3. QED
    BY <2>1, <2>2 DEF SInv
<1>2. CASE Stop
  <2>1. Counted'
    BY <1>2 DEF SInv, Counted, RadioTypes, Stop, procs
  <2>2. Owned' /\ Cleared'
    BY <1>2 DEF SInv, Owned, Cleared, Stop, procs, Off, Nobody
  <2>3. QED
    BY <2>1, <2>2 DEF SInv
<1>3. CASE StopsGroup
  <2>1. /\ shell' = "none" /\ player' = "none" /\ own' = {} /\ monitor' = Off
        /\ leftover' = Nobody /\ known' \subseteq Backends
    BY <1>3, GroupKilled DEF StopsGroup
  <2>2. leftover' \in [Backends -> {0, 1}]
    BY <2>1 DEF Nobody
  <2>3. Counted'
    BY <1>3, <2>1, <2>2, FewLeft DEF SInv, Counted, RadioTypes, StopsGroup, Off
  <2>4. Owned' /\ Cleared'
    BY <1>3, <2>1 DEF Owned, Cleared, Off, Nobody
  <2>5. QED
    BY <2>3, <2>4 DEF SInv
<1>4. CASE StopsShell
  <2>1. Counted'
    BY <1>4 DEF SInv, Counted, RadioTypes, StopsShell, procs
  <2>2. Owned' /\ Cleared'
    BY <1>4 DEF SInv, Owned, Cleared, StopsShell, procs, Off, Nobody
  <2>3. QED
    BY <2>1, <2>2 DEF SInv
<1>5. CASE StopsBackends
  <2>1. leftover' \in [Backends -> {0, 1}]
    BY <1>5 DEF StopsBackends, Killed, Nobody
  <2>2. Counted'
    BY <1>5, <2>1, FewLeft DEF SInv, Counted, RadioTypes, StopsBackends, Killed
  <2>3. Owned' /\ Cleared'
    BY <1>5 DEF SInv, Owned, Cleared, StopsBackends, Killed, Off, Nobody
  <2>4. QED
    BY <2>2, <2>3 DEF SInv
<1>6. QED
  BY <1>1, <1>2, <1>3, <1>4, <1>5 DEF Script

LEMMA ShellSteps ==
  ASSUME SInv, Shell
  PROVE  SInv'
<1>1. CASE Reap
  <2>1. leftover' \in [Backends -> {0, 1}]
    BY <1>1 DEF Reap, Killed, Nobody
  <2>2. Counted'
    BY <1>1, <2>1, FewLeft DEF SInv, Counted, RadioTypes, Reap, Killed
  <2>3. Owned' /\ Cleared'
    BY <1>1 DEF SInv, Owned, Cleared, Reap, Killed, Off, Nobody
  <2>4. QED
    BY <2>2, <2>3 DEF SInv
<1>2. CASE Launch
  <2>1. Counted'
    BY <1>2 DEF SInv, Counted, RadioTypes, Launch, procs
  <2>2. Owned' /\ Cleared'
    BY <1>2 DEF SInv, Owned, Cleared, Launch, procs, Off, Nobody
  <2>3. QED
    BY <2>1, <2>2 DEF SInv
<1>3. CASE Returns
  <2>1. Counted'
    BY <1>3 DEF SInv, Counted, RadioTypes, Returns, procs
  <2>2. Owned' /\ Cleared'
    BY <1>3 DEF SInv, Owned, Cleared, Returns, procs, Off, Nobody
  <2>3. QED
    BY <2>1, <2>2 DEF SInv
<1>4. CASE Sleeps
  <2>1. Counted'
    BY <1>4 DEF SInv, Counted, RadioTypes, Sleeps, procs
  <2>2. Owned' /\ Cleared'
    BY <1>4 DEF SInv, Owned, Cleared, Sleeps, procs, Off, Nobody
  <2>3. QED
    BY <2>1, <2>2 DEF SInv
<1>5. QED
  BY <1>1, <1>2, <1>3, <1>4 DEF Shell

\* The end of a player whose shell waits for it.
LEMMA PlayerDeath ==
  ASSUME SInv, PlayerDies, player # "none",
         UNCHANGED <<script, shell, beat, watcher, reason>>
  PROVE  SInv'
<1>1. leftover' \in [Backends -> {0, 1}]
  BY OneIsLeft
<1>2. Counted'
  BY <1>1, FewLeft DEF SInv, Counted, RadioTypes, PlayerDies, Off
<1>3. shell' = "wait" /\ player' = "none" /\ own' = {} /\ monitor' = Off
  BY DEF SInv, Owned, PlayerDies
<1>4. Owned'
  BY <1>3 DEF Owned, Off
<1>5. Cleared'
  BY <1>3 DEF SInv, Cleared, Owned, Nobody
<1>6. QED
  BY <1>2, <1>4, <1>5 DEF SInv

LEMMA PlayerSteps ==
  ASSUME SInv, Player \/ Freezes \/ Crashes \/ Exits
  PROVE  SInv'
<1>1. CASE Initialises
  <2>1. Counted'
    BY <1>1 DEF SInv, Counted, RadioTypes, Initialises
  <2>2. Owned' /\ Cleared'
    BY <1>1 DEF SInv, Owned, Cleared, Initialises, Off, Nobody
  <2>3. QED
    BY <2>1, <2>2 DEF SInv
<1>2. CASE Beats \/ Freezes \/ Exits
  <2>1. Counted'
    BY <1>2 DEF SInv, Counted, RadioTypes, Beats, Freezes, Exits, Trouble, procs
  <2>2. player' \notin {"none", "init"} /\ player # "none"
    BY <1>2 DEF Beats, Freezes, Exits
  <2>3. Owned' /\ Cleared'
    BY <1>2, <2>2 DEF SInv, Owned, Cleared, Beats, Freezes, Exits, procs, Off, Nobody
  <2>4. QED
    BY <2>1, <2>3 DEF SInv
<1>3. CASE CleanupLooks
  <2>1. Counted'
    BY <1>3 DEF SInv, Counted, RadioTypes, CleanupLooks
  <2>2. Owned' /\ Cleared'
    BY <1>3 DEF SInv, Owned, Cleared, CleanupLooks, Off, Nobody
  <2>3. QED
    BY <2>1, <2>2 DEF SInv
<1>4. CASE CleanupEnds \/ Crashes
  BY <1>4, PlayerDeath DEF CleanupEnds, Crashes
<1>5. QED
  BY <1>1, <1>2, <1>3, <1>4 DEF Player

\* A monitor thread lives only in an initialised player.
LEMMA MonitorSteps ==
  ASSUME SInv, NEW b \in Backends, Monitors(b) \/ BackendDies(b)
  PROVE  SInv'
<1>1. /\ UNCHANGED <<script, shell, player, beat, watcher, reason, leftover>>
      /\ own' \subseteq Backends /\ known' \subseteq Backends
      /\ monitor' \in [Backends -> {"none", "check", "start", "register", "watch", "backoff"}]
  BY DEF SInv, Counted, RadioTypes, Monitors, BackendDies, Checks, Starts, Registers, Notices,
         BacksOff, Move, others
<1>2. player \notin {"none", "init"}
  BY DEF SInv, Owned, Monitors, BackendDies, Checks, Starts, Registers, Notices, BacksOff, Move, Off
<1>3. Counted'
  BY <1>1 DEF SInv, Counted, RadioTypes
<1>4. Owned' /\ Cleared'
  BY <1>1, <1>2 DEF SInv, Owned, Cleared, Off, Nobody
<1>5. QED
  BY <1>3, <1>4 DEF SInv

LEMMA WatcherSteps ==
  ASSUME SInv, Ages \/ Watcher
  PROVE  SInv'
<1>1. CASE Ages \/ Finds
  <2>1. Counted'
    BY <1>1 DEF SInv, Counted, RadioTypes, Ages, Finds, procs
  <2>2. Owned' /\ Cleared'
    BY <1>1 DEF SInv, Owned, Cleared, Ages, Finds, procs, Off, Nobody
  <2>3. QED
    BY <2>1, <2>2 DEF SInv
<1>2. CASE KillsGroup
  <2>1. /\ shell' = "none" /\ player' = "none" /\ own' = {} /\ monitor' = Off
        /\ leftover' = Nobody /\ known' \subseteq Backends
    BY <1>2, GroupKilled DEF KillsGroup
  <2>2. leftover' \in [Backends -> {0, 1}]
    BY <2>1 DEF Nobody
  <2>3. Counted'
    BY <1>2, <2>1, <2>2, FewLeft DEF SInv, Counted, RadioTypes, KillsGroup, Off
  <2>4. Owned' /\ Cleared'
    BY <2>1 DEF Owned, Cleared, Off, Nobody
  <2>5. QED
    BY <2>3, <2>4 DEF SInv
<1>3. QED
  BY <1>1, <1>2 DEF Watcher

LEMMA NoStep ==
  ASSUME SInv, UNCHANGED radio
  PROVE  SInv'
  BY DEF SInv, Counted, RadioTypes, Owned, Cleared, Off, Nobody, radio, procs

-----------------------------------------------------------------------------

(***************************************************************************)
(* A player's backend never meets one that an earlier player left behind,  *)
(* and a radio that was stopped runs nothing, however often player,        *)
(* backends and shell crash, freeze, and are killed or started again.      *)
(***************************************************************************)
THEOREM OwnersAreSingle == RadioSpec => []OneOwner
<1>1. SInv /\ [RadioNext]_radio => SInv'
  BY ScriptSteps, ShellSteps, PlayerSteps, MonitorSteps, WatcherSteps, NoStep DEF RadioNext
<1>2. SInv => OneOwner
  <2>1. SUFFICES ASSUME SInv PROVE OneOwner
    OBVIOUS
  <2>2. ASSUME NEW b \in own PROVE leftover[b] = 0
    <3>1. player # "none" /\ b \in Backends
      BY <2>1 DEF SInv, Owned, Counted, RadioTypes
    <3>2. leftover = Nobody
      BY <2>1, <3>1 DEF SInv, Cleared
    <3>3. QED
      BY <3>1, <3>2 DEF Nobody
  <2>3. script = "stopped" =>
          shell = "none" /\ player = "none" /\ own = {} /\ leftover = Nobody
    BY <2>1 DEF SInv, Owned, Cleared
  <2>4. QED
    BY <2>1, <2>2, <2>3 DEF OneOwner, SInv, Counted
<1>3. QED
  BY AtFirst, <1>1, <1>2, PTL DEF RadioSpec

-----------------------------------------------------------------------------
(***************************************************************************)
(* SoundCard.                                                              *)
(***************************************************************************)

(***************************************************************************)
(* Types: a request that changes the card carries the card, one that       *)
(* applies the equalizer also what it has read.                            *)
(***************************************************************************)
CardSteps == {"asound", "mpd", "modules", "save"}
RouteSteps == {"route", "restart"}
CardTask == [at : {"boot"} \cup CardSteps, card : Cards]
RouteTask ==
  [at : {"runtime"} \cup RouteSteps, card : Cards, eq : Settings,
   volume : Levels \cup {0}, structural : BOOLEAN, next : 1 .. Len(Services)]
Doing == {NoTask, [at |-> "look"]} \cup CardTask \cup RouteTask
Sounds == [gen : Nat, eq : Settings, volume : Levels \cup {0}]
Typed ==
  /\ boot \in Cards /\ kernelCard \in Cards /\ mpd \in Cards /\ choice \in Cards
  /\ asound \in [card : Cards, stage : BOOLEAN]
  /\ eqSaved \in Settings /\ knob \in Levels
  /\ runtime \in Sounds /\ runtime.gen >= 2
  /\ taken \in [Players -> Sounds]
  /\ task \in Doing
  /\ pushing \in {None} \cup {<<s>> : s \in Settings}

(***************************************************************************)
(* CardWhole made inductive: the four places name one card up to the step  *)
(* at which a request is, and the steps behind it have already changed     *)
(* theirs.                                                                 *)
(***************************************************************************)
OneCard ==
  /\ task.at \notin CardSteps /\ ~torn =>
       /\ boot = choice /\ mpd = choice /\ asound.card = choice
       /\ ~changed => kernelCard = choice
  /\ task.at \in CardSteps => boot = task.card
  /\ task.at \in CardSteps \ {"asound"} => asound.card = task.card /\ changed
  /\ task.at \in {"modules", "save"} => mpd = task.card
  /\ task.at \in {"runtime"} \cup RouteSteps => task.card = choice

(***************************************************************************)
(* The generation in the runtime file only grows, so that a stage that has *)
(* its generation has its content.                                         *)
(***************************************************************************)
Numbered ==
  \A p \in Players :
    \/ taken[p] = Bypass
    \/ /\ taken[p].gen \in 2 .. runtime.gen
       /\ taken[p].gen = runtime.gen => taken[p] = runtime

(***************************************************************************)
(* What a request has read is still true when it acts on it, and after an  *)
(* answer "applied" the route and the runtime file have the owner's        *)
(* settings.                                                               *)
(***************************************************************************)
EqSteps == {"look", "runtime", "route", "restart"}
Agreed ==
  /\ answered \in {"applied", "boot"} =>
       /\ task.at \notin EqSteps
       /\ asound.stage = Enabled(eqSaved) /\ runtime.eq = eqSaved
       /\ pushing \in {None, <<eqSaved>>}
  /\ task.at \in {"runtime"} \cup RouteSteps => task.eq = eqSaved
  /\ task.at = "runtime" => pushing = None /\ task.structural = (Enabled(eqSaved) # asound.stage)
  /\ task.at \in RouteSteps => runtime.eq = eqSaved /\ pushing \in {None, <<eqSaved>>}
  /\ task.at = "restart" => asound.stage = Enabled(eqSaved)
  /\ task.at \in {"runtime", "route"} => task.next = 1

(***************************************************************************)
(* A service has a stage exactly when the route has one, except while the  *)
(* services are restarted one after the other.                             *)
(***************************************************************************)
Routed(p) == (taken[p] = Bypass) <=> ~asound.stage
Reopened ==
  ~changed /\ unapplied # "services" =>
    \A p \in Players :
      \/ Routed(p)
      \/ task.at = "restart" /\ \A i \in 1 .. task.next - 1 : Services[i] # p

(***************************************************************************)
(* As long as nothing that was saved was left unapplied, the runtime file  *)
(* has the volume of the knob, and what the ADC loop is about to write has *)
(* the settings of the file or of the request.                             *)
(***************************************************************************)
Loud == pushing = None /\ Enabled(runtime.eq) => runtime.volume = knob
Current ==
  unapplied = "none" =>
    /\ answered \in {"boot", "applied", "asked"}
    /\ answered = "asked" => task.at \in EqSteps
    /\ task.at \notin RouteSteps =>
          /\ Loud
          /\ Enabled(runtime.eq) = asound.stage \/ (task.at \in EqSteps /\ runtime.eq = eqSaved)
          /\ pushing \in {None, <<runtime.eq>>} \/ (task.at \in EqSteps /\ pushing = <<eqSaved>>)
    /\ task.at = "runtime" => task.volume = runtime.volume
    /\ task.at = "restart" /\ (\E i \in 1 .. task.next - 1 : Services[i] = "radio") => Loud

(***************************************************************************)
(* The inductive invariant.                                                *)
(***************************************************************************)
SoundInv == Typed /\ OneCard /\ Numbered /\ Agreed /\ Reopened /\ Current

(***************************************************************************)
(* Type correctness.                                                       *)
(***************************************************************************)
LEMMA TypedInit == ASSUME CardInit PROVE Typed
<1>1. /\ asound \in [card : Cards, stage : BOOLEAN] /\ runtime \in Sounds /\ runtime.gen >= 2
  BY SoundAssumption DEF CardInit, Route, Values, Sounds, Enabled
<1>2. Bypass \in Sounds
  BY SoundAssumption DEF Bypass, Sounds
<1>3. taken \in [Players -> Sounds]
  BY <1>1, <1>2 DEF CardInit, Opened
<1>4. QED
  BY <1>1, <1>3 DEF CardInit, Typed, Doing

LEMMA TypedStep == ASSUME Typed, [CardNext]_cardVars PROVE Typed'
<1> USE DEF Typed, ends, bounds, card
<1>a. Len(Services) \in Nat /\ Len(Services) >= 1 /\ \A i \in 1 .. Len(Services) : Services[i] \in Players
  BY SoundAssumption DEF Players, ToSet
<1>b. Bypass \in Sounds
  BY SoundAssumption DEF Bypass, Sounds
<1>c. \A c \in Cards, s \in Settings : Route(c, s) \in [card : Cards, stage : BOOLEAN]
  BY DEF Route, Enabled
<1>d. \A g \in Nat, s \in Settings, v \in Levels \cup {0} : Values(g, s, v) \in Sounds /\ Values(g, s, v).gen = g
  BY DEF Values, Sounds
<1>e. runtime.gen + 1 \in Nat /\ runtime.gen + 1 >= 2
  BY DEF Sounds
<1>f. \A r \in Sounds, a \in [card : Cards, stage : BOOLEAN] : Opened(r, a) \in Sounds
  BY <1>b DEF Opened
<1>g. NoTask \in Doing /\ [at |-> "look"] \in Doing /\ (\A c \in Cards : [at |-> "boot", card |-> c] \in Doing)
  BY DEF Doing, CardTask
<1>h. task.at \in {"boot"} \cup CardSteps =>
        /\ task.card \in Cards
        /\ [task EXCEPT !.at = "asound"] \in Doing /\ [task EXCEPT !.at = "mpd"] \in Doing
        /\ [task EXCEPT !.at = "modules"] \in Doing /\ [task EXCEPT !.at = "save"] \in Doing
  BY DEF Doing, NoTask, CardTask, RouteTask, CardSteps, RouteSteps
<1>i. task.at \in {"runtime"} \cup RouteSteps =>
        /\ task.card \in Cards /\ task.eq \in Settings /\ task.volume \in Levels \cup {0}
        /\ task.structural \in BOOLEAN /\ task.next \in 1 .. Len(Services)
        /\ [task EXCEPT !.at = "route"] \in Doing /\ [task EXCEPT !.at = "restart"] \in Doing
        /\ task.next # Len(Services) => [task EXCEPT !.next = @ + 1] \in Doing
  BY <1>a DEF Doing, NoTask, CardTask, RouteTask, CardSteps, RouteSteps
<1>j. task'=task \/ task' = NoTask => task' \in Doing
  BY <1>g
<1>k. asound.stage \in BOOLEAN /\ runtime.gen \in Nat /\ runtime.volume \in Levels \cup {0}
  BY DEF Sounds
<1>1. CASE \E c \in Cards, op \in {"apply", "apply_all", "restore"} : AsksCard(op, c)
  BY <1>1, <1>g DEF AsksCard, Request
<1>2. CASE WritesBoot
  <2>1. task' \in Doing /\ boot' \in Cards
    BY <1>2, <1>g, <1>h DEF WritesBoot, Goes, Fails
  <2>2. QED
    BY <1>2, <2>1 DEF WritesBoot
<1>3. CASE WritesAsound
  <2>1. task' \in Doing
    BY <1>3, <1>g, <1>h DEF WritesAsound, Goes, Tears, Fails, CardSteps
  <2>2. asound' \in [card : Cards, stage : BOOLEAN]
    BY <1>3, <1>c, <1>h DEF WritesAsound, CardSteps
  <2>3. QED
    BY <1>3, <2>1, <2>2 DEF WritesAsound
<1>4. CASE WritesMpd
  <2>1. task' \in Doing /\ mpd' \in Cards
    BY <1>4, <1>g, <1>h DEF WritesMpd, Goes, Tears, Fails, CardSteps
  <2>2. QED
    BY <1>4, <2>1 DEF WritesMpd
<1>5. CASE WritesModules
  <2>1. task' \in Doing
    BY <1>5, <1>g, <1>h DEF WritesModules, Goes, Tears, Fails, CardSteps
  <2>2. QED
    BY <1>5, <2>1 DEF WritesModules
<1>6. CASE SavesCard
  <2>1. task' \in Doing /\ choice' \in Cards
    BY <1>6, <1>g, <1>h DEF SavesCard, Goes, Tears, Fails, CardSteps
  <2>2. QED
    BY <1>6, <2>1 DEF SavesCard
<1>7. CASE \E s \in Settings, op \in {"apply", "save", "restore"} : AsksEqualizer(op, s)
  BY <1>7, <1>g DEF AsksEqualizer, Request
<1>8. CASE LooksAtRoute
  <2>1. task' \in RouteTask
    BY <1>8, <1>a, <1>k DEF LooksAtRoute, Enabled, RouteTask
  <2>2. QED
    BY <1>8, <2>1 DEF LooksAtRoute, Doing
<1>9. CASE WritesRuntime
  <2>1. task' \in Doing
    BY <1>9, <1>g, <1>i DEF WritesRuntime, Goes, Finishes, Fails
  <2>2. runtime' \in Sounds /\ runtime'.gen >= 2
    BY <1>9, <1>d, <1>e, <1>i DEF WritesRuntime
  <2>3. QED
    BY <1>9, <2>1, <2>2 DEF WritesRuntime
<1>10. CASE WritesRoute
  <2>1. task' \in Doing
    BY <1>10, <1>g, <1>i DEF WritesRoute, Goes, Finishes, Fails, RouteSteps
  <2>2. asound' \in [card : Cards, stage : BOOLEAN]
    BY <1>10, <1>c, <1>i DEF WritesRoute, RouteSteps
  <2>3. QED
    BY <1>10, <2>1, <2>2 DEF WritesRoute
<1>11. CASE RestartsNext
  <2> DEFINE p == Services[task.next]
  <2>0. task.at \in {"runtime"} \cup RouteSteps /\ p \in Players
    BY <1>11, <1>a, <1>i DEF RestartsNext, RouteSteps
  <2>1. task' \in Doing
    BY <1>11, <2>0, <1>g, <1>i DEF RestartsNext, Finishes, Fails
  <2>2. runtime' \in Sounds /\ runtime'.gen >= 2
    BY <1>11, <1>d, <1>e DEF RestartsNext
  <2>3. taken' \in [Players -> Sounds]
    BY <1>11, <2>0, <2>2, <1>f DEF RestartsNext
  <2>4. pushing' \in {None, pushing}
    BY <1>11 DEF RestartsNext
  <2>5. UNCHANGED <<boot, kernelCard, mpd, choice, asound, eqSaved, knob>>
    BY <1>11 DEF RestartsNext
  <2>6. QED
    BY <2>1, <2>2, <2>3, <2>4, <2>5
<1>12. CASE Turns
  BY <1>12 DEF Turns
<1>13. CASE PushesVolume
  <2>1. pushing[1] \in Settings
    BY <1>13 DEF PushesVolume, None
  <2>2. runtime' \in Sounds /\ runtime'.gen >= 2
    BY <1>13, <2>1, <1>d, <1>e DEF PushesVolume
  <2>3. QED
    BY <1>13, <2>2 DEF PushesVolume
<1>14. CASE Reboots
  <2>0. asound' \in [card : Cards, stage : BOOLEAN]
    BY <1>14, <1>c DEF Reboots
  <2>1. runtime' \in Sounds /\ runtime'.gen >= 2
    BY <1>14, <1>d DEF Reboots
  <2>2. taken' \in [Players -> Sounds]
    BY <1>14, <2>0, <2>1, <1>f DEF Reboots
  <2>3. QED
    BY <1>14, <1>g, <2>0, <2>1, <2>2 DEF Reboots
<1>15. CASE \E p \in Players : Refreshes(p) \/ Reopens(p)
  <2>1. taken' \in [Players -> Sounds]
    BY <1>15, <1>f DEF Refreshes, Reopens
  <2>2. QED
    BY <1>15, <2>1 DEF Refreshes, Reopens
<1>16. CASE UNCHANGED cardVars
  BY <1>16 DEF cardVars
<1>17. QED
  BY <1>1, <1>2, <1>3, <1>4, <1>5, <1>6, <1>7, <1>8, <1>9, <1>10, <1>11, <1>12, <1>13, <1>14,
     <1>15, <1>16 DEF CardNext

(***************************************************************************)
(* The kind of a request follows from where it is.                         *)
(***************************************************************************)
LEMMA TaskKinds ==
  ASSUME Typed
  PROVE  /\ task.at = "idle" => task = NoTask
         /\ task.at \in {"boot"} \cup CardSteps => task \in CardTask
         /\ task.at \in {"runtime"} \cup RouteSteps => task \in RouteTask
         /\ task.at \in {"idle", "look", "boot", "runtime"} \cup CardSteps \cup RouteSteps
  BY DEF Typed, Doing, NoTask, CardTask, RouteTask, CardSteps, RouteSteps

(***************************************************************************)
(* The four places, step by step.                                          *)
(***************************************************************************)
LEMMA OneCardStep ==
  ASSUME Typed, OneCard, [CardNext]_cardVars
  PROVE  OneCard'
<1> USE DEF OneCard, CardSteps, RouteSteps
<1>i. NoTask.at = "idle"
  BY DEF NoTask
<1>1. CASE \E c \in Cards, op \in {"apply", "apply_all", "restore"} : AsksCard(op, c)
  <2>1. task.at = "idle" /\ task'.at \in {"idle", "boot"}
    BY <1>1, <1>i DEF AsksCard, Request
  <2>2. UNCHANGED <<boot, asound, mpd, choice, kernelCard, torn, changed>>
    BY <1>1 DEF AsksCard, card, ends
  <2>3. QED
    BY <2>1, <2>2
<1>2. CASE WritesBoot
  <2>1. CASE boot' = task.card /\ Goes("asound") /\ UNCHANGED torn
    <3>1. task'.at = "asound" /\ task'.card = task.card
      BY <1>2, <2>1, TaskKinds DEF WritesBoot, Goes, CardTask
    <3>2. QED
      BY <2>1, <3>1
  <2>2. CASE Fails("boot") /\ task' = NoTask /\ UNCHANGED <<boot, torn>>
    BY <1>2, <1>i, <2>2 DEF WritesBoot
  <2>3. QED
    BY <1>2, <2>1, <2>2 DEF WritesBoot
<1>3. CASE WritesAsound
  <2>1. CASE asound' = Route(task.card, eqSaved) /\ Goes("mpd") /\ UNCHANGED torn
    <3>1. task'.at = "mpd" /\ task'.card = task.card
      BY <1>3, <2>1, TaskKinds DEF WritesAsound, Goes, CardTask
    <3>2. QED
      BY <1>3, <2>1, <3>1 DEF WritesAsound, Route
  <2>2. CASE Tears("files") /\ UNCHANGED asound
    BY <1>3, <1>i, <2>2 DEF WritesAsound, Tears
  <2>3. QED
    BY <1>3, <2>1, <2>2 DEF WritesAsound
<1>4. CASE WritesMpd
  <2>1. CASE mpd' = task.card /\ Goes("modules") /\ UNCHANGED torn
    <3>1. task'.at = "modules" /\ task'.card = task.card
      BY <1>4, <2>1, TaskKinds DEF WritesMpd, Goes, CardTask
    <3>2. QED
      BY <1>4, <2>1, <3>1 DEF WritesMpd
  <2>2. CASE Tears("files") /\ UNCHANGED mpd
    BY <1>4, <1>i, <2>2 DEF WritesMpd, Tears
  <2>3. QED
    BY <1>4, <2>1, <2>2 DEF WritesMpd
<1>5. CASE WritesModules
  <2>1. CASE Goes("save") /\ UNCHANGED torn
    <3>1. task'.at = "save" /\ task'.card = task.card
      BY <1>5, <2>1, TaskKinds DEF WritesModules, Goes, CardTask
    <3>2. QED
      BY <1>5, <2>1, <3>1 DEF WritesModules, card
  <2>2. CASE Tears("files")
    BY <1>5, <1>i, <2>2 DEF WritesModules, Tears
  <2>3. QED
    BY <1>5, <2>1, <2>2 DEF WritesModules
<1>6. CASE SavesCard
  BY <1>6, <1>i DEF SavesCard, Tears
<1>7. CASE \E s \in Settings, op \in {"apply", "save", "restore"} : AsksEqualizer(op, s)
  <2>1. task.at = "idle" /\ task'.at \in {"idle", "look"}
    BY <1>7, <1>i DEF AsksEqualizer, Request
  <2>2. UNCHANGED <<boot, asound, mpd, choice, kernelCard, torn, changed>>
    BY <1>7 DEF AsksEqualizer, card
  <2>3. QED
    BY <2>1, <2>2
<1>8. CASE LooksAtRoute
  BY <1>8 DEF LooksAtRoute, card, ends
<1>9. CASE WritesRuntime
  <2>1. task.at = "runtime" /\ (task'.at = "idle" \/ (task'.at = "route" /\ task'.card = task.card))
    BY <1>9, <1>i, TaskKinds DEF WritesRuntime, Finishes, Goes, RouteTask
  <2>2. UNCHANGED <<boot, asound, mpd, choice, kernelCard, torn, changed>>
    BY <1>9 DEF WritesRuntime, card
  <2>3. QED
    BY <2>1, <2>2
<1>10. CASE WritesRoute
  <2>1. task.at = "route" /\ (task'.at = "idle" \/ (task'.at = "restart" /\ task'.card = task.card))
    BY <1>10, <1>i, TaskKinds DEF WritesRoute, Finishes, Goes, RouteTask
  <2>2. UNCHANGED <<boot, mpd, choice, kernelCard, torn, changed>>
    BY <1>10 DEF WritesRoute
  <2>3. asound'.card \in {asound.card, choice}
    BY <1>10 DEF WritesRoute, Route
  <2>4. QED
    BY <2>1, <2>2, <2>3
<1>11. CASE RestartsNext
  <2>1. task.at = "restart" /\ (task'.at = "idle" \/ (task'.at = "restart" /\ task'.card = task.card))
    BY <1>11, <1>i, TaskKinds DEF RestartsNext, Finishes, RouteTask
  <2>2. UNCHANGED <<boot, asound, mpd, choice, kernelCard, torn, changed>>
    BY <1>11 DEF RestartsNext, card
  <2>3. QED
    BY <2>1, <2>2
<1>12. CASE Turns \/ PushesVolume \/ (\E p \in Players : Refreshes(p) \/ Reopens(p)) \/ UNCHANGED cardVars
  <2>1. UNCHANGED <<boot, asound, mpd, choice, kernelCard, torn, changed, task>>
    BY <1>12 DEF Turns, PushesVolume, Refreshes, Reopens, cardVars, card, ends
  <2>2. QED
    BY <2>1
<1>13. CASE Reboots
  <2>1. asound'.card = choice
    BY <1>13 DEF Reboots, Route
  <2>2. QED
    BY <1>13, <1>i, <2>1 DEF Reboots
<1>14. QED
  BY <1>1, <1>2, <1>3, <1>4, <1>5, <1>6, <1>7, <1>8, <1>9, <1>10, <1>11, <1>12, <1>13 DEF CardNext

(***************************************************************************)
(* The generations, step by step.                                          *)
(***************************************************************************)
LEMMA NumberedStep ==
  ASSUME Typed, Numbered, [CardNext]_cardVars
  PROVE  Numbered'
<1> USE DEF Numbered
<1>0. \A p \in Players : taken[p] \in Sounds /\ taken[p].gen \in Nat
  BY DEF Typed, Sounds
<1>1. CASE UNCHANGED <<runtime, taken>>
  BY <1>1
<1>2. CASE UNCHANGED taken /\ runtime'.gen = runtime.gen + 1
  BY <1>0, <1>2 DEF Typed, Sounds
<1>3. CASE \E p \in Players, v \in {runtime, Opened(runtime, asound)} : taken' = [taken EXCEPT ![p] = v] /\ UNCHANGED runtime
  BY <1>0, <1>3 DEF Typed, Sounds, Opened
<1>4. CASE RestartsNext
  <2> DEFINE p == Services[task.next]
  <2>1. CASE UNCHANGED <<runtime, taken>>
    BY <2>1
  <2>2. CASE taken' = [taken EXCEPT ![p] = Opened(runtime', asound)] /\ runtime' \in {runtime, Values(runtime.gen + 1, eqSaved, knob)}
    <3>1. runtime'.gen \in {runtime.gen, runtime.gen + 1} /\ (runtime'.gen = runtime.gen => runtime' = runtime)
      BY <2>2 DEF Typed, Sounds, Values
    <3>2. Opened(runtime', asound) \in {Bypass, runtime'}
      BY DEF Opened
    <3>3. runtime.gen \in Nat /\ runtime.gen >= 2
      BY DEF Typed, Sounds
    <3>4. QED
      BY <1>0, <2>2, <3>1, <3>2, <3>3 DEF Typed
  <2>3. QED
    BY <1>4, <2>1, <2>2 DEF RestartsNext
<1>5. CASE Reboots
  <2>1. runtime'.gen = 2
    BY <1>5 DEF Reboots, Values
  <2>2. \A p \in Players : taken'[p] \in {Bypass, runtime'}
    BY <1>5 DEF Reboots, Opened
  <2>3. QED
    BY <2>1, <2>2
<1>6. CASE WritesRuntime \/ PushesVolume
  BY <1>1, <1>2, <1>6 DEF WritesRuntime, PushesVolume, Values
<1>7. QED
  <2>1. CASE \E p \in Players : Refreshes(p) \/ Reopens(p)
    BY <1>3, <2>1 DEF Refreshes, Reopens
  <2>2. CASE ~(WritesRuntime \/ PushesVolume \/ RestartsNext \/ Reboots \/ \E p \in Players : Refreshes(p) \/ Reopens(p))
    BY <1>1, <2>2 DEF CardNext, cardVars, AsksCard, WritesBoot, WritesAsound, WritesMpd, WritesModules,
         SavesCard, AsksEqualizer, LooksAtRoute, WritesRoute, Turns
  <2>3. QED
    BY <1>4, <1>5, <1>6, <2>1, <2>2

(***************************************************************************)
(* What requests rely on, step by step.                                    *)
(***************************************************************************)
LEMMA AgreedStep ==
  ASSUME ~Overlap, Typed, Agreed, [CardNext]_cardVars
  PROVE  Agreed'
<1> USE DEF Agreed, EqSteps, CardSteps, RouteSteps
<1>i. NoTask.at = "idle"
  BY DEF NoTask
<1>1. CASE \E c \in Cards, op \in {"apply", "apply_all", "restore"} : AsksCard(op, c)
  <2>1. task'.at \in {"idle", "boot"}
    BY <1>1, <1>i DEF AsksCard
  <2>2. UNCHANGED <<asound, answered, eqSaved, runtime, pushing>>
    BY <1>1 DEF AsksCard, card, ends
  <2>3. task.at = "idle"
    BY <1>1, <1>i DEF AsksCard, Request
  <2>4. QED
    BY <2>1, <2>2, <2>3
<1>2. CASE WritesBoot \/ WritesMpd \/ WritesModules \/ SavesCard
  <2>1. task.at \in {"boot"} \cup CardSteps /\ task'.at \in {"idle"} \cup CardSteps
    BY <1>2, <1>i, TaskKinds DEF WritesBoot, WritesMpd, WritesModules, SavesCard, Goes, Tears, CardTask
  <2>2. UNCHANGED <<answered, eqSaved, runtime, pushing, asound>>
    BY <1>2 DEF WritesBoot, WritesMpd, WritesModules, SavesCard, card
  <2>3. QED
    BY <2>1, <2>2
<1>3. CASE WritesAsound
  <2>1. task.at = "asound" /\ task'.at \in {"idle", "mpd"}
    BY <1>3, <1>i, TaskKinds DEF WritesAsound, Goes, Tears, CardTask
  <2>2. asound'.stage \in {asound.stage, Enabled(eqSaved)}
    BY <1>3 DEF WritesAsound, Route
  <2>3. UNCHANGED <<answered, eqSaved, runtime, pushing>>
    BY <1>3 DEF WritesAsound
  <2>4. QED
    BY <2>1, <2>2, <2>3
<1>4. CASE \E s \in Settings, op \in {"apply", "save", "restore"} : AsksEqualizer(op, s)
  <2>1. answered' \in {"asked", "saved"} /\ task'.at \in {"idle", "look"}
    BY <1>4, <1>i DEF AsksEqualizer, Request
  <2>2. QED
    BY <2>1
<1>5. CASE LooksAtRoute
  <2>1. /\ task.at = "look" /\ task'.at = "runtime" /\ task'.eq = eqSaved /\ task'.card = choice
        /\ task'.structural = (Enabled(eqSaved) # asound.stage) /\ task'.next = 1
    BY <1>5 DEF LooksAtRoute
  <2>2. pushing = None /\ UNCHANGED <<asound, choice, answered, eqSaved, runtime, pushing>>
    BY <1>5 DEF LooksAtRoute, card, ends
  <2>3. QED
    BY <2>1, <2>2
<1>6. CASE WritesRuntime
  <2>0. task.at = "runtime" /\ UNCHANGED <<asound, choice, eqSaved, pushing>>
    BY <1>6 DEF WritesRuntime, card
  <2>1. CASE /\ runtime' = Values(runtime.gen + 1, task.eq, task.volume)
             /\ Goes("route") /\ UNCHANGED answered
    <3>1. task'.at = "route" /\ task'.eq = task.eq /\ task'.card = task.card /\ task'.next = task.next
      BY <2>0, <2>1, TaskKinds DEF Goes, RouteTask
    <3>2. QED
      BY <2>0, <2>1, <3>1 DEF Values
  <2>2. CASE /\ runtime' = Values(runtime.gen + 1, task.eq, task.volume)
             /\ ~task.structural /\ task' = NoTask
    BY <2>0, <2>2, <1>i DEF Values
  <2>3. CASE answered' = "failed" /\ task' = NoTask
    BY <2>3, <1>i
  <2>4. QED
    BY <1>6, <2>1, <2>2, <2>3 DEF WritesRuntime, Finishes
<1>7. CASE WritesRoute
  <2>0. task.at = "route" /\ UNCHANGED <<choice, eqSaved, pushing, runtime>>
    BY <1>7 DEF WritesRoute
  <2>1. CASE asound' = Route(task.card, task.eq) /\ Goes("restart")
    <3>1. task'.at = "restart" /\ task'.eq = task.eq /\ task'.card = task.card
      BY <2>0, <2>1, TaskKinds DEF Goes, RouteTask
    <3>2. answered' = answered
      BY <1>7, <2>0, <3>1, <1>i DEF WritesRoute, Finishes
    <3>3. QED
      BY <2>0, <2>1, <3>1, <3>2 DEF Route
  <2>2. CASE answered' = "failed" /\ task' = NoTask
    BY <2>2, <1>i
  <2>3. QED
    BY <1>7, <2>1, <2>2 DEF WritesRoute, Finishes
<1>8. CASE RestartsNext
  <2>0. task.at = "restart" /\ UNCHANGED <<choice, eqSaved, asound>>
    BY <1>8 DEF RestartsNext, card
  <2>1. CASE answered' = "failed" /\ task' = NoTask
    BY <2>1, <1>i
  <2>2. CASE ~(answered' = "failed" /\ task' = NoTask)
    <3>1. runtime'.eq = eqSaved /\ pushing' \in {None, <<eqSaved>>}
      BY <1>8, <2>0, <2>2 DEF RestartsNext, Values, Finishes
    <3>2. CASE task' = NoTask
      BY <2>0, <3>1, <3>2, <1>i
    <3>3. CASE task' = [task EXCEPT !.next = @ + 1] /\ UNCHANGED answered
      <4>1. task'.at = "restart" /\ task'.eq = task.eq /\ task'.card = task.card
        BY <2>0, <3>3, TaskKinds DEF RouteTask
      <4>2. QED
        BY <2>0, <3>1, <3>3, <4>1
    <3>4. QED
      BY <1>8, <2>2, <3>2, <3>3 DEF RestartsNext, Finishes
  <2>3. QED
    BY <2>1, <2>2
<1>9. CASE Turns
  <2>1. task.at # "runtime" /\ pushing' = <<eqSaved>> /\ UNCHANGED <<choice, eqSaved, asound, runtime, task, answered>>
    BY <1>9 DEF Turns, card, ends
  <2>2. QED
    BY <2>1
<1>10. CASE PushesVolume
  <2>1. /\ pushing # None /\ pushing' = None /\ UNCHANGED <<choice, eqSaved, asound, task, answered>>
        /\ runtime'.eq = pushing[1]
    BY <1>10 DEF PushesVolume, Values, card, ends
  <2>2. pushing \in {None, <<eqSaved>>} => runtime'.eq = eqSaved
    BY <2>1
  <2>3. QED
    BY <2>1, <2>2
<1>11. CASE (\E p \in Players : Refreshes(p) \/ Reopens(p)) \/ UNCHANGED cardVars
  <2>1. UNCHANGED <<choice, eqSaved, asound, task, answered, runtime, pushing>>
    BY <1>11 DEF Refreshes, Reopens, cardVars, card, ends
  <2>2. QED
    BY <2>1
<1>12. CASE Reboots
  BY <1>12, <1>i DEF Reboots, Route, Values
<1>13. QED
  BY <1>1, <1>2, <1>3, <1>4, <1>5, <1>6, <1>7, <1>8, <1>9, <1>10, <1>11, <1>12 DEF CardNext

(***************************************************************************)
(* The stages of the services, step by step.                               *)
(***************************************************************************)
LEMMA ReopenedStep ==
  ASSUME Typed, Agreed, Reopened, [CardNext]_cardVars
  PROVE  Reopened'
<1> USE DEF Reopened, Routed, CardSteps, RouteSteps
<1>i. NoTask.at = "idle"
  BY DEF NoTask
<1>j. runtime # Bypass /\ asound.stage \in BOOLEAN
  BY DEF Typed, Sounds, Bypass
<1>1. CASE /\ UNCHANGED <<taken, asound, changed>> /\ task'.at # "restart" /\ task.at # "restart"
           /\ unapplied = "services" => unapplied' = "services"
  BY <1>1
<1>2. CASE \E c \in Cards, op \in {"apply", "apply_all", "restore"} : AsksCard(op, c)
  <2>1. task.at = "idle" /\ task'.at \in {"idle", "boot"}
    BY <1>2, <1>i DEF AsksCard, Request
  <2>2. QED
    BY <1>1, <1>2, <2>1 DEF AsksCard, card, ends
<1>3. CASE WritesBoot \/ WritesMpd \/ WritesModules \/ SavesCard
  <2>1. task.at \in {"boot"} \cup CardSteps /\ task'.at \in {"idle"} \cup CardSteps
    BY <1>3, <1>i, TaskKinds DEF WritesBoot, WritesMpd, WritesModules, SavesCard, Goes, Tears, CardTask
  <2>2. UNCHANGED <<taken, asound, changed, unapplied>>
    BY <1>3 DEF WritesBoot, WritesMpd, WritesModules, SavesCard, card
  <2>3. QED
    BY <1>1, <2>1, <2>2
<1>4. CASE WritesAsound
  BY <1>4 DEF WritesAsound
<1>5. CASE \E s \in Settings, op \in {"apply", "save", "restore"} : AsksEqualizer(op, s)
  <2>1. task.at = "idle" /\ task'.at \in {"idle", "look"}
    BY <1>5, <1>i DEF AsksEqualizer, Request
  <2>2. unapplied = "services" => unapplied' = "services"
    BY <1>5 DEF AsksEqualizer, NotApplied
  <2>3. QED
    BY <1>1, <1>5, <2>1, <2>2 DEF AsksEqualizer, card
<1>6. CASE LooksAtRoute
  BY <1>1, <1>6 DEF LooksAtRoute, card, ends
<1>7. CASE WritesRuntime
  <2>1. task.at = "runtime" /\ task'.at \in {"idle", "route"}
    BY <1>7, <1>i, TaskKinds DEF WritesRuntime, Finishes, Goes, RouteTask
  <2>2. unapplied = "services" => unapplied' = "services"
    BY <1>7 DEF WritesRuntime, NotApplied
  <2>3. QED
    BY <1>1, <1>7, <2>1, <2>2 DEF WritesRuntime, card
<1>8. CASE WritesRoute
  <2>0. task.at = "route" /\ UNCHANGED <<taken, changed>>
    BY <1>8 DEF WritesRoute
  <2>1. CASE Goes("restart")
    <3>1. task'.at = "restart" /\ task'.next = 1
      BY <2>0, <2>1, TaskKinds DEF Goes, RouteTask, Agreed
    <3>2. \A p \in Players : \A i \in 1 .. task'.next - 1 : Services[i] # p
      BY <3>1
    <3>3. QED
      BY <3>1, <3>2
  <2>2. CASE task' = NoTask /\ UNCHANGED asound /\ NotApplied
    BY <1>1, <1>i, <2>0, <2>2 DEF NotApplied
  <2>3. QED
    BY <1>8, <2>1, <2>2 DEF WritesRoute, Finishes
<1>9. CASE RestartsNext
  <2> DEFINE r == Services[task.next]
  <2>0. task.at = "restart" /\ UNCHANGED <<asound, changed>>
    BY <1>9 DEF RestartsNext, card
  <2>1. task.next \in 1 .. Len(Services) /\ Len(Services) \in Nat
    BY <2>0, TaskKinds, SoundAssumption DEF RouteTask
  <2>2. CASE unapplied' = "services"
    BY <2>2
  <2>3. CASE /\ runtime' \in {runtime, Values(runtime.gen + 1, eqSaved, knob)} /\ unapplied' = unapplied
             /\ taken' = [taken EXCEPT ![r] = Opened(runtime', asound)]
    <3>1. runtime' # Bypass
      BY <1>j, <2>3 DEF Typed, Sounds, Values, Bypass
    <3>2. r \in Players => ((taken'[r] = Bypass) <=> ~asound.stage)
      BY <2>3, <3>1 DEF Typed, Opened
    <3>3. \A p \in Players : p # r => taken'[p] = taken[p]
      BY <2>3 DEF Typed
    <3>4. CASE task.next = Len(Services) /\ task' = NoTask
      <4>1. SUFFICES ASSUME ~changed, unapplied # "services", NEW p \in Players
                     PROVE  (taken'[p] = Bypass) <=> ~asound.stage
        BY <1>i, <2>0, <2>3, <3>4
      <4>2. CASE p = r
        BY <3>2, <4>2
      <4>3. CASE p # r
        <5>1. PICK i \in 1 .. Len(Services) : Services[i] = p
          BY SoundAssumption DEF Players, ToSet
        <5>2. ~(\A k \in 1 .. task.next - 1 : Services[k] # p)
          BY <2>1, <3>4, <4>3, <5>1
        <5>3. QED
          BY <3>3, <4>1, <4>3, <5>2
      <4>4. QED
        BY <4>2, <4>3
    <3>5. CASE task' = [task EXCEPT !.next = @ + 1]
      <4>1. task'.at = "restart" /\ task'.next = task.next + 1
        BY <2>0, <3>5, TaskKinds DEF RouteTask
      <4>2. SUFFICES ASSUME ~changed, unapplied # "services", NEW p \in Players
                     PROVE  \/ (taken'[p] = Bypass) <=> ~asound.stage
                            \/ \A i \in 1 .. task.next : Services[i] # p
        BY <2>0, <2>1, <2>3, <4>1
      <4>3. CASE p = r
        BY <3>2, <4>3
      <4>4. CASE p # r
        <5>1. \A i \in 1 .. task.next : i = task.next \/ i \in 1 .. task.next - 1
          BY <2>1
        <5>2. QED
          BY <3>3, <4>2, <4>4, <5>1
      <4>5. QED
        BY <4>3, <4>4
    <3>6. QED
      BY <1>9, <2>3, <3>4, <3>5 DEF RestartsNext, Finishes
  <2>4. QED
    BY <1>9, <2>2, <2>3 DEF RestartsNext
<1>10. CASE Turns \/ PushesVolume \/ UNCHANGED cardVars
  <2>1. UNCHANGED <<taken, asound, changed, task, unapplied>>
    BY <1>10 DEF Turns, PushesVolume, cardVars, card, ends
  <2>2. QED
    BY <2>1
<1>11. CASE \E p \in Players : Refreshes(p) \/ Reopens(p)
  <2>1. PICK q \in Players : Refreshes(q) \/ Reopens(q)
    BY <1>11
  <2>2. UNCHANGED <<asound, changed, task, unapplied, runtime>>
    BY <2>1 DEF Refreshes, Reopens, card, ends
  <2>3. \A p \in Players : p # q => taken'[p] = taken[p]
    BY <2>1 DEF Refreshes, Reopens, Typed
  <2>4. \/ taken[q] # Bypass /\ taken'[q] # Bypass
        \/ (taken'[q] = Bypass) <=> ~asound.stage
    BY <2>1, <1>j DEF Refreshes, Reopens, Typed, Opened
  <2>5. QED
    BY <2>2, <2>3, <2>4
<1>12. CASE Reboots
  <2>1. runtime' # Bypass /\ task'.at = "idle"
    BY <1>12, <1>i DEF Reboots, Values, Bypass
  <2>2. \A p \in Players : (taken'[p] = Bypass) <=> ~asound'.stage
    BY <1>12, <2>1 DEF Reboots, Opened, Route
  <2>3. QED
    BY <2>1, <2>2
<1>13. QED
  BY <1>2, <1>3, <1>4, <1>5, <1>6, <1>7, <1>8, <1>9, <1>10, <1>11, <1>12 DEF CardNext

(***************************************************************************)
(* The volume, step by step.                                               *)
(***************************************************************************)
LEMMA CurrentStep ==
  ASSUME ~Overlap, Typed, Agreed, Agreed', Current, [CardNext]_cardVars
  PROVE  Current'
<1> USE DEF Current, Loud, CardSteps, RouteSteps, EqSteps
<1>i. NoTask.at = "idle"
  BY DEF NoTask
<1>1. CASE \E c \in Cards, op \in {"apply", "apply_all", "restore"} : AsksCard(op, c)
  <2>1. task.at = "idle" /\ task'.at \in {"idle", "boot"}
    BY <1>1, <1>i DEF AsksCard, Request
  <2>2. UNCHANGED <<asound, answered, eqSaved, runtime, pushing, unapplied, knob>>
    BY <1>1 DEF AsksCard, card, ends
  <2>3. QED
    BY <2>1, <2>2
<1>2. CASE WritesBoot \/ WritesMpd \/ WritesModules \/ SavesCard
  <2>1. task.at \in {"boot"} \cup CardSteps /\ task'.at \in {"idle"} \cup CardSteps
    BY <1>2, <1>i, TaskKinds DEF WritesBoot, WritesMpd, WritesModules, SavesCard, Goes, Tears, CardTask
  <2>2. UNCHANGED <<asound, answered, eqSaved, runtime, pushing, unapplied, knob>>
    BY <1>2 DEF WritesBoot, WritesMpd, WritesModules, SavesCard, card
  <2>3. QED
    BY <2>1, <2>2
<1>3. CASE WritesAsound
  <2>1. task.at = "asound" /\ task'.at \in {"idle", "mpd"}
    BY <1>3, <1>i, TaskKinds DEF WritesAsound, Goes, Tears, CardTask
  <2>2. asound'.stage \in {asound.stage, Enabled(eqSaved)}
    BY <1>3 DEF WritesAsound, Route
  <2>3. UNCHANGED <<answered, eqSaved, runtime, pushing, unapplied, knob>>
    BY <1>3 DEF WritesAsound
  <2>4. unapplied = "none" => runtime.eq = eqSaved
    BY <2>1 DEF Agreed
  <2>5. QED
    BY <2>1, <2>2, <2>3, <2>4
<1>4. CASE \E s \in Settings, op \in {"apply", "save", "restore"} : AsksEqualizer(op, s)
  <2>1. CASE NotApplied
    BY <2>1 DEF NotApplied
  <2>2. CASE answered' = "asked" /\ task' = [at |-> "look"] /\ UNCHANGED unapplied
    <3>1. task.at = "idle" /\ UNCHANGED <<asound, runtime, pushing, knob>>
      BY <1>4, <1>i DEF AsksEqualizer, Request, card
    <3>2. task'.at = "look"
      BY <2>2
    <3>3. QED
      BY <2>2, <3>1, <3>2
  <2>3. QED
    BY <1>4, <2>1, <2>2 DEF AsksEqualizer
<1>5. CASE LooksAtRoute
  <2>1. task.at = "look" /\ task'.at = "runtime" /\ task'.volume = runtime.volume
    BY <1>5 DEF LooksAtRoute
  <2>2. UNCHANGED <<asound, answered, eqSaved, runtime, pushing, unapplied, knob>>
    BY <1>5 DEF LooksAtRoute, card, ends
  <2>3. QED
    BY <2>1, <2>2
<1>6. CASE WritesRuntime
  <2>0. task.at = "runtime" /\ UNCHANGED <<asound, eqSaved, pushing, knob>>
    BY <1>6 DEF WritesRuntime, card
  <2>1. CASE Goes("route") /\ UNCHANGED <<answered, unapplied>>
    <3>1. task'.at = "route"
      BY <2>0, <2>1, TaskKinds DEF Goes, RouteTask
    <3>2. QED
      BY <2>0, <2>1, <3>1
  <2>2. CASE /\ runtime' = Values(runtime.gen + 1, task.eq, task.volume)
             /\ ~task.structural /\ task' = NoTask /\ answered' = "applied" /\ UNCHANGED unapplied
    <3>1. /\ pushing = None /\ Enabled(eqSaved) = asound.stage /\ runtime'.eq = eqSaved
          /\ Enabled(eqSaved) => runtime'.volume = task.volume
      BY <2>0, <2>2 DEF Agreed, Values, Typed
    <3>2. unapplied = "none" /\ Enabled(eqSaved) => task.volume = knob
      BY <2>0, <3>1
    <3>3. QED
      BY <1>i, <2>0, <2>2, <3>1, <3>2
  <2>3. CASE NotApplied
    BY <2>3 DEF NotApplied
  <2>4. QED
    BY <1>6, <2>1, <2>2, <2>3 DEF WritesRuntime, Finishes
<1>7. CASE WritesRoute
  <2>0. task.at = "route"
    BY <1>7 DEF WritesRoute
  <2>1. CASE Goes("restart") /\ UNCHANGED <<answered, unapplied>>
    <3>1. task'.at = "restart" /\ task'.next = 1
      BY <2>0, <2>1, TaskKinds DEF Goes, RouteTask, Agreed
    <3>2. ~\E i \in 1 .. task'.next - 1 : Services[i] = "radio"
      BY <3>1
    <3>3. QED
      BY <2>0, <2>1, <3>1, <3>2
  <2>2. CASE NotApplied
    BY <2>2 DEF NotApplied
  <2>3. QED
    BY <1>7, <2>1, <2>2 DEF WritesRoute
<1>8. CASE RestartsNext
  <2>0. task.at = "restart" /\ UNCHANGED <<asound, eqSaved, knob>>
    BY <1>8 DEF RestartsNext, card
  <2>1. task.next \in 1 .. Len(Services) /\ Len(Services) \in Nat
    BY <2>0, TaskKinds, SoundAssumption DEF RouteTask
  <2>2. CASE unapplied' # "none"
    BY <2>2
  <2>3. CASE /\ unapplied' = unapplied /\ unapplied = "none"
             /\ runtime' = IF Services[task.next] = "radio"
                           THEN Values(runtime.gen + 1, eqSaved, knob) ELSE runtime
             /\ pushing' = IF Services[task.next] = "radio" THEN None ELSE pushing
    <3>1. (\E i \in 1 .. task.next : Services[i] = "radio") => Loud'
      <4>1. CASE Services[task.next] = "radio"
        BY <2>0, <2>3, <4>1 DEF Values
      <4>2. CASE Services[task.next] # "radio"
        <5>1. \A i \in 1 .. task.next : i = task.next \/ i \in 1 .. task.next - 1
          BY <2>1
        <5>2. QED
          BY <2>0, <2>3, <4>2, <5>1
      <4>3. QED
        BY <4>1, <4>2
    <3>2. /\ runtime'.eq = eqSaved /\ pushing' \in {None, <<eqSaved>>}
          /\ asound.stage = Enabled(eqSaved)
      BY <2>0, <2>3 DEF Agreed, Values
    <3>3. CASE task.next = Len(Services) /\ task' = NoTask /\ answered' = "applied"
      <4>1. \E i \in 1 .. task.next : Services[i] = "radio"
        BY <3>3, SoundAssumption DEF Players, ToSet
      <4>2. QED
        BY <1>i, <2>0, <3>1, <3>2, <3>3, <4>1
    <3>4. CASE task' = [task EXCEPT !.next = @ + 1] /\ UNCHANGED answered
      <4>1. task'.at = "restart" /\ task'.next - 1 = task.next
        BY <2>0, <2>1, <3>4, TaskKinds DEF RouteTask
      <4>2. QED
        BY <2>0, <2>3, <3>1, <3>4, <4>1
    <3>5. CASE unapplied' = "services"
      BY <3>5
    <3>6. QED
      BY <1>8, <2>3, <3>3, <3>4, <3>5 DEF RestartsNext, Finishes
  <2>4. QED
    BY <1>8, <2>2, <2>3 DEF RestartsNext
<1>9. CASE Turns
  <2>1. /\ task.at # "runtime" /\ pushing' = <<eqSaved>> /\ pushing' # None
        /\ UNCHANGED <<asound, eqSaved, runtime, task, answered, unapplied>>
    BY <1>9 DEF Turns, card, ends, None
  <2>2. unapplied = "none" /\ task.at \notin EqSteps => runtime.eq = eqSaved
    BY DEF Agreed
  <2>3. QED
    BY <2>1, <2>2
<1>10. CASE PushesVolume
  <2>1. /\ pushing # None /\ pushing' = None
        /\ UNCHANGED <<asound, eqSaved, task, answered, unapplied, knob>>
        /\ runtime'.eq = pushing[1] /\ (Enabled(pushing[1]) => runtime'.volume = knob)
    BY <1>10 DEF PushesVolume, Values, card, ends
  <2>2. task.at # "runtime" /\ Loud'
    BY <2>1 DEF Agreed
  <2>3. \A s \in {runtime.eq, eqSaved} : pushing = <<s>> => runtime'.eq = s
    BY <2>1
  <2>4. QED
    BY <2>1, <2>2, <2>3
<1>11. CASE (\E p \in Players : Refreshes(p) \/ Reopens(p)) \/ UNCHANGED cardVars
  <2>1. UNCHANGED <<eqSaved, asound, task, answered, runtime, pushing, unapplied, knob>>
    BY <1>11 DEF Refreshes, Reopens, cardVars, card, ends
  <2>2. QED
    BY <2>1
<1>12. CASE Reboots
  <2>1. /\ runtime'.eq = eqSaved /\ (Enabled(eqSaved) => runtime'.volume = knob)
        /\ asound'.stage = Enabled(eqSaved) /\ task'.at = "idle"
        /\ pushing' = None /\ answered' = "boot" /\ knob' = knob
    BY <1>12, <1>i DEF Reboots, Values, Route
  <2>2. QED
    BY <2>1
<1>13. QED
  BY <1>1, <1>2, <1>3, <1>4, <1>5, <1>6, <1>7, <1>8, <1>9, <1>10, <1>11, <1>12 DEF CardNext

(***************************************************************************)
(* At first, with every step, and what follows.                            *)
(***************************************************************************)
LEMMA SoundInit == ASSUME CardInit PROVE SoundInv
<1>1. Typed
  BY TypedInit
<1>2. runtime # Bypass /\ runtime.eq = eqSaved /\ (Enabled(eqSaved) => runtime.volume = knob)
  BY DEF CardInit, Values, Bypass
<1>3. asound.stage = Enabled(eqSaved) /\ asound.card = choice /\ task.at = "idle"
  BY DEF CardInit, Route, NoTask
<1>4. Numbered
  BY <1>1 DEF Numbered, CardInit, Opened, Typed, Sounds
<1>5. Reopened
  BY <1>2 DEF Reopened, Routed, CardInit, Opened
<1>6. OneCard
  BY <1>3 DEF OneCard, CardInit, CardSteps, RouteSteps
<1>7. Agreed
  BY <1>2, <1>3 DEF Agreed, CardInit, EqSteps, RouteSteps
<1>8. Current
  BY <1>2, <1>3 DEF Current, Loud, CardInit, EqSteps, RouteSteps
<1>9. QED
  BY <1>1, <1>4, <1>5, <1>6, <1>7, <1>8 DEF SoundInv

LEMMA SoundStep ==
  ASSUME ~Overlap, SoundInv, [CardNext]_cardVars PROVE SoundInv'
  BY TypedStep, OneCardStep, NumberedStep, AgreedStep, ReopenedStep, CurrentStep DEF SoundInv

LEMMA Whole == ASSUME Typed, OneCard PROVE CardWhole
<1>1. CardTypeOK
  BY DEF CardTypeOK, Typed, Sounds
<1>2. task = NoTask => task.at = "idle"
  BY DEF NoTask
<1>3. QED
  BY <1>1, <1>2 DEF OneCard, CardWhole, CardSteps

LEMMA Heard == ASSUME SoundInv PROVE AppliedIsHeard
<1>1. SUFFICES ASSUME answered \in {"applied", "boot"}, ~changed, unapplied # "services",
                      NEW p \in Players, HasLooked(p)
               PROVE  /\ taken[p].eq = eqSaved
                      /\ (taken[p] = Bypass) <=> ~Enabled(eqSaved)
                      /\ unapplied = "none" /\ Enabled(eqSaved) => taken[p].volume = knob
  BY DEF AppliedIsHeard
<1>2. task.at \notin EqSteps /\ asound.stage = Enabled(eqSaved) /\ runtime.eq = eqSaved
  BY <1>1 DEF SoundInv, Agreed
<1>3. (taken[p] = Bypass) <=> ~Enabled(eqSaved)
  BY <1>1, <1>2 DEF SoundInv, Reopened, Routed, EqSteps
<1>4. CASE taken[p] = Bypass
  BY <1>3, <1>4 DEF Bypass, Enabled
<1>5. CASE taken[p] # Bypass
  <2>1. taken[p] = runtime
    BY <1>1, <1>5 DEF HasLooked, SoundInv, Numbered
  <2>2. unapplied = "none" => Loud
    BY <1>2 DEF SoundInv, Current, EqSteps, RouteSteps
  <2>3. QED
    BY <1>1, <1>2, <1>3, <2>1, <2>2 DEF Loud, HasLooked
<1>6. QED
  BY <1>4, <1>5

(***************************************************************************)
(* Whatever fails and whenever power goes: config.txt, asound.conf,        *)
(* mpd.conf and the owner's choice name one card whenever no request is    *)
(* under way, unless a request was torn after config.txt had been          *)
(* replaced.                                                               *)
(***************************************************************************)
THEOREM CardsAgree == CardSpec => []CardWhole
<1>1. CardInit => Typed /\ OneCard
  BY SoundInit DEF SoundInv
<1>2. Typed /\ OneCard /\ [CardNext]_cardVars => (Typed /\ OneCard)'
  BY TypedStep, OneCardStep
<1>3. Typed /\ OneCard => CardWhole
  BY Whole
<1>4. QED
  BY <1>1, <1>2, <1>3, PTL DEF CardSpec

(***************************************************************************)
(* After an answer "applied" or a boot every service plays with the        *)
(* owner's settings and at the knob's volume once its stage has looked at  *)
(* the runtime file, as long as the helper and the ADC loop do not write   *)
(* that file at once (its two writers share no lock).                      *)
(***************************************************************************)
THEOREM SettingsAreHeard == ASSUME ~Overlap PROVE CardSpec => []AppliedIsHeard
<1>1. CardInit => SoundInv
  BY SoundInit
<1>2. SoundInv /\ [CardNext]_cardVars => SoundInv'
  BY SoundStep
<1>3. SoundInv => AppliedIsHeard
  BY Heard
<1>4. QED
  BY <1>1, <1>2, <1>3, PTL DEF CardSpec

-----------------------------------------------------------------------------
(***************************************************************************)
(* Display.                                                                *)
(***************************************************************************)

(***************************************************************************)
(* What the compositor has in hand: where it is, and the pieces of the     *)
(* frame it has composed by then.                                          *)
(***************************************************************************)
Waits == {"top", "take", "osd", "pill", "decide"}
Draws == {"frame", "badge", "cover", "blend", "strip", "lower", "level", "toast", "push"}
LoopFields == {"at", "dirty", "was", "osd", "live", "tick", "key"}
PlayFields == {"kind", "art", "fading", "strip", "lower", "pill"}
Shapes ==
  /\ DOMAIN loop = LoopFields /\ loop.at \in Waits \cup Draws
  /\ loop.at \in {"cover", "blend", "strip", "lower", "level"} =>
       frame.kind = "playing" /\ DOMAIN frame = PlayFields /\ frame.pill = ""
  /\ loop.at = "badge" => frame = [kind |-> "saver", pill |-> ""]
  /\ loop.at \in {"toast", "push"} =>
       \/ frame.kind = "playing" /\ DOMAIN frame = PlayFields
       \/ frame.kind = "saver" /\ DOMAIN frame = {"kind", "source", "pill"}

(***************************************************************************)
(* The cached art is the tile of its source, or a cover that was in the    *)
(* file when its digest was, or later.                                     *)
(***************************************************************************)
Cached ==
  /\ meta.md5 \in 0 .. file
  /\ loop.at = "cover" => loop.key[1] \in 0 .. file
  /\ layer # NoLayer =>
       /\ layer.key[1] \in 0 .. file /\ layer.key = <<layer.key[1], layer.key[2]>>
       /\ IF layer.key[1] = 0 THEN layer.art = [tile |-> layer.key[2]]
          ELSE \E c \in layer.key[1] .. file : layer.art = [cover |-> c]

(***************************************************************************)
(* The compositor has a dirty flag in hand only until it has decided, and  *)
(* an overlay that was closed when it looked is closed, or something has   *)
(* become dirty since.                                                     *)
(***************************************************************************)
Looked ==
  /\ loop.at \notin {"osd", "pill", "decide"} => ~loop.dirty
  /\ loop.at \in {"pill", "decide"} /\ ~loop.live /\ ~dirty => ~osd.open
  /\ loop.at = "decide" /\ ~loop.live /\ ~dirty => ~toast.open

(***************************************************************************)
(* NothingMissed made inductive: as long as nothing has become dirty since *)
(* the flag was taken and no overlay was up in the last round, the panel,  *)
(* or each piece of the frame under way, shows the present state.          *)
(***************************************************************************)
Undisturbed == on /\ ~dirty /\ ~loop.dirty /\ ~loop.was
Shows(picture) ==
  LET t == meta.track
  IN  /\ picture.kind = "playing" =>
           /\ InStep => picture.art = Art(meta.md5, meta.md5, t)
           /\ picture.fading => fade = "new"
           /\ picture.strip = Strip(t)
           /\ picture.lower = [r \in Rows |-> t[r]]
      /\ picture.kind = "saver" => Saver /\ picture.source = t.source
      /\ picture.kind # "splash"
Drawn ==
  /\ ~osd.open /\ ~toast.open /\ fade # "on"
  /\ loop.at = "badge" => Saver
  /\ loop.at = "cover" => loop.key = <<meta.md5, meta.track.source>>
  /\ loop.at \in {"blend", "strip", "lower", "level"} => layer.key = <<meta.md5, meta.track.source>>
  /\ loop.at \in {"strip", "lower", "level"} => frame.art = layer.art /\ (frame.fading => fade = "new")
  /\ loop.at = "lower" => frame.strip = Strip(meta.track)
  /\ loop.at # "level"
  /\ loop.at = "toast" => Shows(frame)
  /\ loop.at = "push" => Shows(frame) /\ frame.pill = ""
Kept ==
  Undisturbed =>
    /\ loop.at \in Waits => Shows(panel) /\ panel.pill = ""
    /\ loop.at \in Draws => Drawn

(***************************************************************************)
(* The inductive invariant.                                                *)
(***************************************************************************)
DInv == ScreenTypes /\ Shapes /\ Cached /\ Looked /\ Kept

(***************************************************************************)
(* TypeOK in two parts, Booleans and the rest.                             *)
(***************************************************************************)
Flags ==
  on \in BOOLEAN /\ light \in BOOLEAN /\ dirty \in BOOLEAN /\ idle \in BOOLEAN /\ minute \in BOOLEAN
Contents ==
  /\ meta \in [track : Metadata, md5 : 0 .. MaxCovers]
  /\ file \in 0 .. MaxCovers /\ events \in 0 .. MaxEvents
  /\ osd.what \in Volumes /\ toast.what \in Toasts
  /\ fade \in {"none", "new", "on", "over"}
  /\ rows \in [Rows -> [scrolling : BOOLEAN, position : 0 .. 1]]

LEMMA Types == ScreenTypes <=> Flags /\ Contents
  BY DEF ScreenTypes, Flags, Contents

(***************************************************************************)
(* Type correctness, step by step.                                         *)
(***************************************************************************)
LEMMA FlagsStep == ASSUME Flags, [ScreenNext]_screenVars PROVE Flags'
<1> USE DEF Flags, composer, shared
<1>1. dirty' \in BOOLEAN
  BY DEF ScreenNext, Others, Closes, Compose, screenVars, Toggle, ShowVolume, ShowToast, UpdateMetadata,
     CoverReplaced, GetsIdle, MinuteTurns, OsdCloses, ToastCloses, FadeCloses, Duty, Top, Take,
     LookAtOsd, LookAtToast, Decide, Frame, Badge, Cover, Blend, DrawStrip, DrawLower, DrawLevel,
     DrawToast, Push
<1>2. on' \in BOOLEAN /\ light' \in BOOLEAN
  BY DEF ScreenNext, Others, Closes, Compose, screenVars, Toggle, ShowVolume, ShowToast, UpdateMetadata,
     CoverReplaced, GetsIdle, MinuteTurns, OsdCloses, ToastCloses, FadeCloses, Duty, Top, Take,
     LookAtOsd, LookAtToast, Decide, Frame, Badge, Cover, Blend, DrawStrip, DrawLower, DrawLevel,
     DrawToast, Push
<1>3. idle' \in BOOLEAN /\ minute' \in BOOLEAN
  BY DEF ScreenNext, Others, Closes, Compose, screenVars, Toggle, ShowVolume, ShowToast, UpdateMetadata,
     CoverReplaced, GetsIdle, MinuteTurns, OsdCloses, ToastCloses, FadeCloses, Duty, Top, Take,
     LookAtOsd, LookAtToast, Decide, Frame, Badge, Cover, Blend, DrawStrip, DrawLower, DrawLevel,
     DrawToast, Push
<1>4. QED
  BY <1>1, <1>2, <1>3

LEMMA Named == \A b, w : [open |-> b, what |-> w].what = w
  OBVIOUS

LEMMA ContentsStep == ASSUME Contents, [ScreenNext]_screenVars PROVE Contents'
<1>a. meta \in [track : Metadata, md5 : 0 .. MaxCovers] /\ file \in 0 .. MaxCovers
  BY DEF Contents
<1>b. events \in 0 .. MaxEvents
  BY DEF Contents
<1>c. osd.what \in Volumes /\ toast.what \in Toasts
  BY DEF Contents
<1>d. fade \in {"none", "new", "on", "over"}
  BY DEF Contents
<1>e. rows \in [Rows -> [scrolling : BOOLEAN, position : 0 .. 1]]
  BY DEF Contents
<1>0. MaxEvents \in Nat /\ MaxCovers \in Nat
  BY DisplayAssumption
<1>1. events' \in 0 .. MaxEvents
  <2>1. CASE Event
    BY <1>0, <1>b, <2>1 DEF Event
  <2>2. CASE UNCHANGED events
    BY <1>b, <2>2
  <2>3. Event \/ UNCHANGED events
    BY DEF ScreenNext, Others, Closes, Compose, screenVars, shared, composer, Toggle, ShowVolume,
       ShowToast,
     UpdateMetadata, CoverReplaced, GetsIdle, MinuteTurns, OsdCloses, ToastCloses, FadeCloses,
     Duty, Top, Take, LookAtOsd, LookAtToast, Decide, Frame, Badge, Cover, Blend, DrawStrip,
     DrawLower, DrawLevel, DrawToast, Push
  <2>4. QED
    BY <2>1, <2>2, <2>3
<1>2. file' \in 0 .. MaxCovers
  <2>1. CASE file < MaxCovers /\ file' = file + 1
    BY <1>0, <1>a, <2>1
  <2>2. file' = file \/ CoverReplaced
    BY DEF ScreenNext, Others, Closes, Compose, screenVars, shared, composer, Toggle, ShowVolume,
       ShowToast,
     UpdateMetadata, CoverReplaced, GetsIdle, MinuteTurns, OsdCloses, ToastCloses, FadeCloses,
     Duty, Top, Take, LookAtOsd, LookAtToast, Decide, Frame, Badge, Cover, Blend, DrawStrip,
     DrawLower, DrawLevel, DrawToast, Push
  <2>3. QED
    BY <1>a, <2>1, <2>2 DEF CoverReplaced
<1>3. osd'.what \in Volumes /\ toast'.what \in Toasts
  <2>1. osd' = osd \/ ShowVolume \/ OsdCloses
    BY DEF ScreenNext, Others, Closes, Compose, screenVars, shared, composer, Toggle, ShowToast,
     UpdateMetadata, CoverReplaced, GetsIdle, MinuteTurns, ToastCloses, FadeCloses,
     Duty, Top, Take, LookAtOsd, LookAtToast, Decide, Frame, Badge, Cover, Blend, DrawStrip,
     DrawLower, DrawLevel, DrawToast, Push
  <2>2. toast' = toast \/ ShowToast \/ ToastCloses
    BY DEF ScreenNext, Others, Closes, Compose, screenVars, shared, composer, Toggle, ShowVolume,
     UpdateMetadata, CoverReplaced, GetsIdle, MinuteTurns, OsdCloses, FadeCloses,
     Duty, Top, Take, LookAtOsd, LookAtToast, Decide, Frame, Badge, Cover, Blend, DrawStrip,
     DrawLower, DrawLevel, DrawToast, Push
  <2>3. ShowVolume \/ OsdCloses => osd'.what \in Volumes
    BY <1>c DEF ShowVolume, OsdCloses, Closed
  <2>4. ShowToast \/ ToastCloses => toast'.what \in Toasts
    <3>1. ShowToast => \E t \in Toasts : toast' = [open |-> t # "", what |-> t]
      BY DEF ShowToast
    <3>2. ToastCloses => toast'.what = toast.what
      BY DEF ToastCloses, Closed
    <3>3. QED
      BY <1>c, <3>1, <3>2, Named
  <2>5. QED
    BY <1>c, <2>1, <2>2, <2>3, <2>4
<1>4. fade' \in {"none", "new", "on", "over"}
  <2>1. fade' = fade \/ FadeCloses \/ Decide \/ Cover \/ Blend
    BY DEF ScreenNext, Others, Closes, Compose, screenVars, shared, composer, Toggle, ShowVolume,
       ShowToast,
     UpdateMetadata, CoverReplaced, GetsIdle, MinuteTurns, OsdCloses, ToastCloses,
     Duty, Top, Take, LookAtOsd, LookAtToast, Frame, Badge, DrawStrip,
     DrawLower, DrawLevel, DrawToast, Push
  <2>2. QED
    BY <1>d, <2>1 DEF FadeCloses, Decide, Cover, Blend
<1>5. meta' \in [track : Metadata, md5 : 0 .. MaxCovers]
  <2>1. meta' = meta \/ UpdateMetadata
    BY DEF ScreenNext, Others, Closes, Compose, screenVars, shared, composer, Toggle, ShowVolume,
       ShowToast,
     CoverReplaced, GetsIdle, MinuteTurns, OsdCloses, ToastCloses, FadeCloses,
     Duty, Top, Take, LookAtOsd, LookAtToast, Decide, Frame, Badge, Cover, Blend, DrawStrip,
     DrawLower, DrawLevel, DrawToast, Push
  <2>2. UpdateMetadata => \E t \in Metadata, md5 \in {0, file} : meta' = [track |-> t, md5 |-> md5]
    BY DEF UpdateMetadata
  <2>3. 0 \in 0 .. MaxCovers /\ file \in 0 .. MaxCovers
    BY <1>0, <1>a
  <2>4. QED
    BY <1>a, <2>1, <2>2, <2>3
<1>6. rows' \in [Rows -> [scrolling : BOOLEAN, position : 0 .. 1]]
  <2>1. rows' = rows \/ UpdateMetadata \/ DrawLower
    BY DEF ScreenNext, Others, Closes, Compose, screenVars, shared, composer, Toggle, ShowVolume,
       ShowToast,
     CoverReplaced, GetsIdle, MinuteTurns, OsdCloses, ToastCloses, FadeCloses,
     Duty, Top, Take, LookAtOsd, LookAtToast, Decide, Frame, Badge, Cover, Blend, DrawStrip,
     DrawLevel, DrawToast, Push
  <2>2. UpdateMetadata => \E t \in Metadata : rows' = [r \in Rows |-> IF t[r] = meta.track[r] THEN rows[r]
                                  ELSE [rows[r] EXCEPT !.position = 0]]
    BY DEF UpdateMetadata
  <2>3. DrawLower => rows' = rows \/ rows' = [r \in Rows |-> Advanced(r)]
    BY DEF DrawLower
  <2>4. \A r \in Rows : Advanced(r) \in [scrolling : BOOLEAN, position : 0 .. 1]
    <3>1. SUFFICES ASSUME NEW r \in Rows
                   PROVE  Advanced(r) \in [scrolling : BOOLEAN, position : 0 .. 1]
      OBVIOUS
    <3>2. rows[r] \in [scrolling : BOOLEAN, position : 0 .. 1]
      BY <1>e
    <3>3. 1 - rows[r].position \in 0 .. 1
      BY <3>2
    <3>4. [rows[r] EXCEPT !.scrolling = FALSE] \in [scrolling : BOOLEAN, position : 0 .. 1]
      BY <3>2
    <3>5. [scrolling |-> TRUE, position |-> 1 - rows[r].position]
            \in [scrolling : BOOLEAN, position : 0 .. 1]
      BY <3>3
    <3>6. QED
      BY <3>4, <3>5 DEF Advanced
  <2>5. \A r \in Rows : [rows[r] EXCEPT !.position = 0] \in [scrolling : BOOLEAN, position : 0 .. 1]
    BY <1>e
  <2>6. QED
    BY <1>e, <2>1, <2>2, <2>3, <2>4, <2>5
<1>7. QED
  BY <1>1, <1>2, <1>3, <1>4, <1>5, <1>6 DEF Contents

(***************************************************************************)
(* The other threads leave the compositor's variables alone, and the       *)
(* cover's file only gets newer.                                           *)
(***************************************************************************)
LEMMA Elsewhere ==
  ASSUME Duty \/ Others \/ Closes \/ UNCHANGED screenVars
  PROVE  UNCHANGED <<layer, loop, frame, panel>>
  BY DEF Duty, Others, Closes, Toggle, ShowVolume, ShowToast, UpdateMetadata, CoverReplaced,
     GetsIdle, MinuteTurns, OsdCloses, ToastCloses, FadeCloses, screenVars, composer

LEMMA FileGrows ==
  ASSUME ScreenTypes, [ScreenNext]_screenVars PROVE file' \in Nat /\ file' >= file /\ file \in Nat
<1>1. file \in Nat
  BY DEF ScreenTypes
<1>2. file' = file \/ CoverReplaced
  BY DEF ScreenNext, Others, Closes, Compose, screenVars, shared, composer, Toggle, ShowVolume,
     ShowToast,
     UpdateMetadata, CoverReplaced, GetsIdle, MinuteTurns, OsdCloses, ToastCloses, FadeCloses,
     Duty, Top, Take, LookAtOsd, LookAtToast, Decide, Frame, Badge, Cover, Blend, DrawStrip,
     DrawLower, DrawLevel, DrawToast, Push
<1>3. QED
  BY <1>1, <1>2 DEF CoverReplaced

(***************************************************************************)
(* What the compositor has in hand, step by step.                          *)
(***************************************************************************)
LEMMA ShapesStep == ASSUME ScreenTypes, Cached, Shapes, [ScreenNext]_screenVars PROVE Shapes'
<1> USE DEF Shapes, LoopFields, Waits, Draws, PlayFields
<1>f. file' \in Nat /\ file' >= file /\ file \in Nat
  BY FileGrows
<1>1. CASE Duty \/ Others \/ Closes \/ UNCHANGED screenVars
  BY <1>1, Elsewhere DEF Shapes
<1>2. CASE Top
  BY <1>2, <1>f DEF Top
<1>3. CASE Take
  BY <1>3, <1>f DEF Take
<1>4. CASE LookAtOsd
  BY <1>4, <1>f DEF LookAtOsd
<1>5. CASE LookAtToast
  BY <1>5, <1>f DEF LookAtToast
<1>6. CASE Decide
  BY <1>6, <1>f DEF Decide
<1>7. CASE Frame
  <2>1. CASE Saver
    BY <1>7, <2>1 DEF Frame
  <2>2. CASE ~Saver
    <3>1. /\ frame' = [kind |-> "playing", art |-> Nothing, fading |-> FALSE,
                       strip |-> <<>>, lower |-> Nothing, pill |-> ""]
          /\ loop' = [loop EXCEPT !.at = "cover", !.key = <<meta.md5, meta.track.source>>]
      BY <1>7, <2>2 DEF Frame
    <3>2. loop'.at = "cover" /\ DOMAIN loop' = LoopFields
      BY <3>1
    <3>3. frame'.kind = "playing" /\ frame'.pill = "" /\ DOMAIN frame' = PlayFields
      BY <3>1
    <3>4. QED
      BY <3>2, <3>3
  <2>3. QED
    BY <2>1, <2>2
<1>8. CASE Badge
  BY <1>8, <1>f DEF Badge
<1>9. CASE Cover
  BY <1>9, <1>f DEF Cover
<1>10. CASE Blend
  BY <1>10, <1>f DEF Blend
<1>11. CASE DrawStrip
  BY <1>11, <1>f DEF DrawStrip
<1>12. CASE DrawLower
  BY <1>12, <1>f DEF DrawLower
<1>13. CASE DrawLevel
  BY <1>13, <1>f DEF DrawLevel
<1>14. CASE DrawToast
  BY <1>14, <1>f DEF DrawToast
<1>15. CASE Push
  BY <1>15, <1>f DEF Push
<1>16. QED
  BY <1>1, <1>2, <1>3, <1>4, <1>5, <1>6, <1>7, <1>8, <1>9, <1>10, <1>11, <1>12, <1>13, <1>14,
     <1>15 DEF ScreenNext, Compose

(***************************************************************************)
(* The cached art, step by step.                                           *)
(***************************************************************************)
LEMMA CachedStep == ASSUME ScreenTypes, Shapes, Cached, [ScreenNext]_screenVars PROVE Cached'
<1> USE DEF Cached
<1>f. file' \in Nat /\ file' >= file /\ file \in Nat
  BY FileGrows
<1>l. DOMAIN loop = {"at", "dirty", "was", "osd", "live", "tick", "key"}
  BY DEF Shapes, LoopFields
<1>1. meta'.md5 \in 0 .. file'
  <2>1. meta' = meta \/ (UpdateMetadata /\ file' = file)
    BY DEF ScreenNext, Others, Closes, Compose, screenVars, shared, composer, Toggle, ShowVolume,
       ShowToast, UpdateMetadata, CoverReplaced, GetsIdle, MinuteTurns, OsdCloses, ToastCloses,
       FadeCloses, Duty, Top, Take, LookAtOsd, LookAtToast, Decide, Frame, Badge, Cover, Blend,
       DrawStrip, DrawLower, DrawLevel, DrawToast, Push
  <2>2. UpdateMetadata => meta'.md5 \in {0, file}
    BY DEF UpdateMetadata
  <2>3. QED
    BY <1>f, <2>1, <2>2
<1>2. CASE Duty \/ Others \/ Closes \/ UNCHANGED screenVars
  <2>1. UNCHANGED <<layer, loop>>
    BY <1>2, Elsewhere
  <2>2. QED
    BY <1>f, <1>1, <2>1
<1>3. CASE Top \/ Take \/ LookAtOsd \/ LookAtToast \/ Decide \/ Badge \/ Blend \/ DrawStrip
           \/ DrawLower \/ DrawLevel \/ DrawToast \/ Push
  <2>1. layer' = layer
    BY <1>3 DEF Top, Take, LookAtOsd, LookAtToast, Decide, Badge, Blend, DrawStrip, DrawLower,
         DrawLevel, DrawToast, Push
  <2>2. loop'.at # "cover"
    BY <1>3, <1>l DEF Top, Take, LookAtOsd, LookAtToast, Decide, Badge, Blend, DrawStrip, DrawLower,
         DrawLevel, DrawToast, Push
  <2>3. QED
    BY <1>f, <1>1, <2>1, <2>2
<1>4. CASE Frame
  <2>1. layer' = layer /\ file' = file /\ meta' = meta
    BY <1>4 DEF Frame, shared
  <2>2. loop'.at = "cover" => loop'.key = <<meta.md5, meta.track.source>>
    BY <1>4, <1>l DEF Frame
  <2>3. QED
    BY <1>f, <1>1, <2>1, <2>2
<1>5. CASE Cover
  <2>1. /\ loop'.at = "blend" /\ file' = file /\ meta' = meta
        /\ layer' = layer \/ layer' = [key |-> <<loop.key[1], meta.track.source>>,
                                       art |-> Art(loop.key[1], file, meta.track)]
    BY <1>5, <1>l DEF Cover, shared
  <2>2. loop.key[1] \in 0 .. file
    BY <1>5 DEF Cover
  <2>3. CASE layer' = layer
    BY <1>f, <1>1, <2>1, <2>3
  <2>4. CASE layer' = [key |-> <<loop.key[1], meta.track.source>>,
                       art |-> Art(loop.key[1], file, meta.track)]
    <3>1. layer'.key[1] = loop.key[1] /\ layer'.key = <<layer'.key[1], layer'.key[2]>>
      BY <2>4
    <3>2. IF layer'.key[1] = 0 THEN layer'.art = [tile |-> layer'.key[2]]
          ELSE layer'.art = [cover |-> file]
      BY <2>4 DEF Art
    <3>3. file \in layer'.key[1] .. file'
      BY <1>f, <2>1, <2>2, <3>1
    <3>4. QED
      BY <1>1, <2>1, <2>2, <3>1, <3>2, <3>3
  <2>5. QED
    BY <2>1, <2>3, <2>4
<1>6. QED
  BY <1>2, <1>3, <1>4, <1>5 DEF ScreenNext, Compose

(***************************************************************************)
(* What the compositor has looked at, step by step.                        *)
(***************************************************************************)
LEMMA LookedStep == ASSUME Flags, Shapes, Looked, [ScreenNext]_screenVars PROVE Looked'
<1> USE DEF Looked, Flags
<1>l. DOMAIN loop = {"at", "dirty", "was", "osd", "live", "tick", "key"}
  BY DEF Shapes, LoopFields
<1>1. CASE Duty \/ Others \/ Closes \/ UNCHANGED screenVars
  <2>1. loop' = loop
    BY <1>1, Elsewhere
  <2>2. ~dirty' => ~dirty /\ (osd'.open => osd.open) /\ (toast'.open => toast.open)
    BY <1>1 DEF Others, Closes, screenVars, shared, Closed, Toggle, ShowVolume, ShowToast,
       UpdateMetadata, CoverReplaced, GetsIdle, MinuteTurns, OsdCloses, ToastCloses, FadeCloses,
       Duty
  <2>3. QED
    BY <2>1, <2>2
<1>2. CASE Top
  BY <1>2, <1>l DEF Top, shared
<1>3. CASE Take
  BY <1>3, <1>l DEF Take, shared
<1>4. CASE LookAtOsd
  BY <1>4, <1>l DEF LookAtOsd, shared
<1>5. CASE LookAtToast
  BY <1>5, <1>l DEF LookAtToast, shared
<1>6. CASE Decide
  BY <1>6, <1>l DEF Decide, shared
<1>7. CASE Frame
  <2>1. loop.at = "frame" /\ loop'.at \in {"badge", "cover"} /\ loop'.dirty = loop.dirty
    BY <1>7, <1>l DEF Frame
  <2>2. QED
    BY <2>1
<1>8. CASE Badge
  BY <1>8, <1>l DEF Badge, shared
<1>9. CASE Cover
  BY <1>9, <1>l DEF Cover, shared
<1>10. CASE Blend
  BY <1>10, <1>l DEF Blend, shared
<1>11. CASE DrawStrip
  BY <1>11, <1>l DEF DrawStrip, shared
<1>12. CASE DrawLower
  BY <1>12, <1>l DEF DrawLower, shared
<1>13. CASE DrawLevel
  BY <1>13, <1>l DEF DrawLevel, shared
<1>14. CASE DrawToast
  BY <1>14, <1>l DEF DrawToast, shared
<1>15. CASE Push
  BY <1>15, <1>l DEF Push, shared
<1>16. QED
  BY <1>1, <1>2, <1>3, <1>4, <1>5, <1>6, <1>7, <1>8, <1>9, <1>10, <1>11, <1>12, <1>13, <1>14,
     <1>15 DEF ScreenNext, Compose

(***************************************************************************)
(* Another thread that leaves the frame clean has changed nothing that is  *)
(* shown.                                                                  *)
(***************************************************************************)
LEMMA Quiet ==
  ASSUME ~SlowFrames, Flags, Cached, ScreenTypes, Duty \/ Others \/ Closes \/ UNCHANGED screenVars, ~dirty', on'
  PROVE  /\ ~dirty /\ on /\ meta' = meta
         /\ Saver => Saver'
         /\ osd'.open => osd.open
         /\ toast'.open => toast.open
         /\ fade' = fade \/ (fade = "on" /\ fade' = "over")
         /\ InStep' => InStep
<1> USE DEF Flags
<1>1. ~dirty
  BY DEF Others, Closes, screenVars, shared, Toggle, ShowVolume, ShowToast, UpdateMetadata,
     CoverReplaced, GetsIdle, MinuteTurns, OsdCloses, ToastCloses, FadeCloses, Duty
<1>2. on
  BY DEF Others, Closes, screenVars, shared, Toggle, ShowVolume, ShowToast, UpdateMetadata,
     CoverReplaced, GetsIdle, MinuteTurns, OsdCloses, ToastCloses, FadeCloses, Duty
<1>3. meta' = meta
  BY DEF Others, Closes, screenVars, shared, Toggle, ShowVolume, ShowToast, UpdateMetadata,
     CoverReplaced, GetsIdle, MinuteTurns, OsdCloses, ToastCloses, FadeCloses, Duty
<1>4. (osd'.open => osd.open) /\ (toast'.open => toast.open)
  BY DEF Others, Closes, screenVars, shared, Closed, Toggle, ShowVolume, ShowToast,
     UpdateMetadata, CoverReplaced, GetsIdle, MinuteTurns, OsdCloses, ToastCloses, FadeCloses, Duty
<1>5. fade' = fade \/ (fade = "on" /\ fade' = "over")
  BY <1>2 DEF Others, Closes, screenVars, shared, Toggle, ShowVolume, ShowToast, UpdateMetadata,
     CoverReplaced, GetsIdle, MinuteTurns, OsdCloses, ToastCloses, FadeCloses, Duty
<1>6. ~meta.track.playing /\ idle => idle'
  <2>1. CASE UpdateMetadata
    <3>1. PICK t \in Metadata, md5 \in {0, file} :
            meta' = [track |-> t, md5 |-> md5] /\ idle' = (idle /\ ~t.playing)
      BY <2>1 DEF UpdateMetadata
    <3>2. t = meta.track
      BY <1>3, <3>1
    <3>3. QED
      BY <3>1, <3>2
  <2>2. CASE ~UpdateMetadata
    BY <2>2 DEF Others, Closes, screenVars, shared, Toggle, ShowVolume, ShowToast, CoverReplaced,
       GetsIdle, MinuteTurns, OsdCloses, ToastCloses, FadeCloses, Duty
  <2>3. QED
    BY <2>1, <2>2
<1>7. InStep' => InStep
  <2>1. CASE UNCHANGED file
    BY <1>3, <2>1 DEF InStep
  <2>2. CASE CoverReplaced
    <3>1. file \in Nat /\ meta.md5 \in 0 .. file /\ file' = file + 1
      BY <2>2 DEF CoverReplaced, Cached, ScreenTypes
    <3>2. QED
      BY <1>3, <3>1 DEF InStep
  <2>3. QED
    BY <2>1, <2>2 DEF Others, Closes, screenVars, shared, Toggle, ShowVolume, ShowToast,
       UpdateMetadata, GetsIdle, MinuteTurns, OsdCloses, ToastCloses, FadeCloses, Duty
<1>8. Saver => Saver'
  BY <1>3, <1>4, <1>6 DEF Saver
<1>9. QED
  BY <1>1, <1>2, <1>3, <1>4, <1>5, <1>7, <1>8

(***************************************************************************)
(* The cached art with the key of the present state is the present art.    *)
(***************************************************************************)
LEMMA ArtRight ==
  ASSUME Cached, ScreenTypes, layer.key = <<meta.md5, meta.track.source>>, InStep
  PROVE  layer.art = Art(meta.md5, meta.md5, meta.track)
<1>1. layer # NoLayer
  BY DEF NoLayer
<1>2. CASE meta.md5 = 0
  BY <1>1, <1>2 DEF Cached, Art
<1>3. CASE meta.md5 # 0
  <2>1. meta.md5 = file /\ file \in Nat
    BY <1>3 DEF InStep, ScreenTypes
  <2>2. PICK c \in meta.md5 .. file : layer.art = [cover |-> c]
    BY <1>1, <1>3 DEF Cached
  <2>3. c = meta.md5
    BY <2>1, <2>2
  <2>4. QED
    BY <1>3, <2>2, <2>3 DEF Art
<1>4. QED
  BY <1>2, <1>3

(***************************************************************************)
(* The panel and the frame under way, step by step.                        *)
(***************************************************************************)
LEMMA KeptStep ==
  ASSUME ~SlowFrames, ScreenTypes, Flags, Shapes, Cached, Looked, Kept, [ScreenNext]_screenVars, Undisturbed'
  PROVE  /\ (loop.at \in Waits => Shows(panel) /\ panel.pill = "")'
         /\ (loop.at \in Draws => Drawn)'
<1> USE DEF Waits, Draws
<1>l. DOMAIN loop = {"at", "dirty", "was", "osd", "live", "tick", "key"}
  BY DEF Shapes, LoopFields
<1>u. on' /\ ~dirty' /\ ~loop'.dirty /\ ~loop'.was
  BY DEF Undisturbed
<1>1. CASE Duty \/ Others \/ Closes \/ UNCHANGED screenVars
  <2>1. UNCHANGED <<layer, loop, frame, panel>>
    BY <1>1, Elsewhere
  <2>2. /\ ~dirty /\ on /\ meta' = meta /\ (Saver => Saver') /\ (osd'.open => osd.open)
        /\ (toast'.open => toast.open) /\ (InStep' => InStep)
        /\ fade' = fade \/ (fade = "on" /\ fade' = "over")
    BY <1>1, <1>u, Quiet
  <2>3. Undisturbed
    BY <1>u, <2>1, <2>2 DEF Undisturbed
  <2>4. CASE loop.at \in Waits
    BY <2>1, <2>2, <2>3, <2>4 DEF Kept, Shows
  <2>5. CASE loop.at \in Draws
    BY <2>1, <2>2, <2>3, <2>5 DEF Kept, Drawn, Shows
  <2>6. QED
    BY <2>1, <2>4, <2>5
<1>2. CASE Top
  <2>1. /\ loop.at \in Waits /\ loop'.at = "take" /\ on' = on /\ loop'.was = loop.was
        /\ UNCHANGED <<meta, file, osd, idle, fade, panel>>
    BY <1>2, <1>l DEF Top, shared
  <2>2. ~dirty /\ ~loop.dirty
    BY <1>2, <1>l, <1>u DEF Top, shared, Looked, Flags
  <2>3. QED
    BY <1>u, <2>1, <2>2 DEF Undisturbed, Kept, Shows, Saver, InStep
<1>3. CASE Take
  <2>1. /\ loop.at \in Waits /\ loop'.at = "osd" /\ on' = on /\ loop'.was = loop.was
        /\ UNCHANGED <<meta, file, osd, idle, fade, panel>>
    BY <1>3, <1>l DEF Take, shared
  <2>2. ~dirty /\ ~loop.dirty
    BY <1>3, <1>l, <1>u DEF Take, shared, Looked, Flags
  <2>3. QED
    BY <1>u, <2>1, <2>2 DEF Undisturbed, Kept, Shows, Saver, InStep
<1>4. CASE LookAtOsd
  <2>1. /\ loop.at \in Waits /\ loop'.at = "pill" /\ on' = on /\ loop'.was = loop.was
        /\ UNCHANGED <<meta, file, osd, idle, fade, panel>>
    BY <1>4, <1>l DEF LookAtOsd, shared
  <2>2. ~dirty /\ ~loop.dirty
    BY <1>4, <1>l, <1>u DEF LookAtOsd, shared, Looked, Flags
  <2>3. QED
    BY <1>u, <2>1, <2>2 DEF Undisturbed, Kept, Shows, Saver, InStep
<1>5. CASE LookAtToast
  <2>1. /\ loop.at \in Waits /\ loop'.at = "decide" /\ on' = on /\ loop'.was = loop.was
        /\ UNCHANGED <<meta, file, osd, idle, fade, panel>>
    BY <1>5, <1>l DEF LookAtToast, shared
  <2>2. ~dirty /\ ~loop.dirty
    BY <1>5, <1>l, <1>u DEF LookAtToast, shared, Looked, Flags
  <2>3. QED
    BY <1>u, <2>1, <2>2 DEF Undisturbed, Kept, Shows, Saver, InStep
<1>6. CASE Decide
  <2>0. /\ loop.at = "decide" /\ loop'.at \in {"top", "frame"}
        /\ UNCHANGED <<on, dirty, meta, file, osd, toast, idle, panel>>
        /\ fade' = IF fade = "new" THEN "on" ELSE fade
    BY <1>6, <1>l DEF Decide, shared
  <2>1. ~loop.live /\ fade \notin {"new", "on"}
    BY <1>6, <1>l, <1>u DEF Decide
  <2>2. CASE loop'.at = "top"
    <3>1. ~loop.dirty /\ ~loop.was
      BY <1>6, <1>l, <2>1, <2>2 DEF Decide
    <3>2. QED
      BY <1>u, <2>0, <2>1, <2>2, <3>1 DEF Undisturbed, Kept, Shows, Saver, InStep
  <2>3. CASE loop'.at = "frame"
    BY <1>u, <2>0, <2>1, <2>3 DEF Looked, Drawn
  <2>4. QED
    BY <2>0, <2>2, <2>3
<1>7. CASE ~(Duty \/ Others \/ Closes \/ UNCHANGED screenVars) /\ loop.at \in Draws
  <2>c. Frame \/ Badge \/ Cover \/ Blend \/ DrawStrip \/ DrawLower \/ DrawLevel \/ DrawToast \/ Push
    BY <1>7 DEF ScreenNext, Compose, Top, Take, LookAtOsd, LookAtToast, Decide
  <2>0. /\ UNCHANGED shared /\ UNCHANGED <<meta, file, osd, toast, idle>>
        /\ loop'.dirty = loop.dirty /\ loop'.was = loop.was
    BY <2>c, <1>l DEF Frame, Badge, Cover, Blend, DrawStrip, DrawLower, DrawLevel, DrawToast,
       Push, shared
  <2>u. Undisturbed /\ Drawn
    BY <1>7, <1>u, <2>0 DEF Undisturbed, Kept, shared
  <2>s. (Saver <=> Saver') /\ (InStep <=> InStep')
    BY <2>0 DEF Saver, InStep
  <2>1. CASE Frame
    <3>1. CASE Saver
      <4>1. loop'.at = "badge" /\ fade' = fade
        BY <1>l, <2>1, <3>1 DEF Frame
      <4>2. QED
        BY <2>0, <2>u, <2>s, <3>1, <4>1 DEF Drawn
    <3>2. CASE ~Saver
      <4>1. loop'.at = "cover" /\ loop'.key = <<meta.md5, meta.track.source>> /\ fade' = fade
        BY <1>l, <2>1, <3>2 DEF Frame
      <4>2. QED
        BY <2>0, <2>u, <4>1 DEF Drawn
    <3>3. QED
      BY <3>1, <3>2
  <2>2. CASE Badge
    <3>1. /\ loop.at = "badge" /\ loop'.at = "toast" /\ fade' = fade
          /\ frame' = [kind |-> "saver", source |-> meta.track.source, pill |-> ""]
      BY <1>l, <2>2 DEF Badge
    <3>2. Shows(frame)'
      BY <2>0, <2>u, <2>s, <3>1 DEF Shows, Drawn
    <3>3. QED
      BY <2>0, <2>u, <3>1, <3>2 DEF Drawn
  <2>3. CASE Cover
    <3>1. /\ loop.at = "cover" /\ loop'.at = "blend" /\ fade' \in {fade, "new"}
          /\ layer'.key = <<loop.key[1], meta.track.source>>
      BY <1>l, <2>3 DEF Cover
    <3>2. QED
      BY <2>0, <2>u, <3>1 DEF Drawn
  <2>4. CASE Blend
    <3>1. /\ loop.at = "blend" /\ loop'.at = "strip" /\ layer' = layer
          /\ frame' = [frame EXCEPT !.art = layer.art, !.fading = fade \in {"new", "on"}]
          /\ fade' = IF fade = "over" THEN "none" ELSE fade
      BY <1>l, <2>4 DEF Blend
    <3>2. DOMAIN frame = {"kind", "art", "fading", "strip", "lower", "pill"}
      BY <3>1 DEF Shapes, PlayFields
    <3>3. frame'.art = layer.art /\ (frame'.fading => fade \in {"new", "on"})
      BY <3>1, <3>2
    <3>4. QED
      BY <2>0, <2>u, <3>1, <3>3 DEF Drawn
  <2>5. CASE DrawStrip
    <3>1. /\ loop.at = "strip" /\ loop'.at = "lower" /\ UNCHANGED <<layer, fade>>
          /\ frame' = [frame EXCEPT !.strip = Strip(meta.track)]
      BY <1>l, <2>5 DEF DrawStrip
    <3>2. DOMAIN frame = {"kind", "art", "fading", "strip", "lower", "pill"}
      BY <3>1 DEF Shapes, PlayFields
    <3>3. frame'.art = frame.art /\ frame'.fading = frame.fading /\ frame'.strip = Strip(meta.track)
      BY <3>1, <3>2
    <3>4. QED
      BY <2>0, <2>u, <3>1, <3>3 DEF Drawn
  <2>6. CASE DrawLower
    <3>1. /\ loop.at = "lower" /\ loop'.at = "toast" /\ UNCHANGED <<layer, fade>>
          /\ frame' = [frame EXCEPT !.lower = [r \in Rows |-> meta.track[r]]]
      BY <1>l, <2>u, <2>6 DEF DrawLower, Drawn
    <3>2. DOMAIN frame = {"kind", "art", "fading", "strip", "lower", "pill"} /\ frame.kind = "playing"
      BY <3>1 DEF Shapes, PlayFields
    <3>3. /\ frame'.art = frame.art /\ frame'.fading = frame.fading /\ frame'.strip = frame.strip
          /\ frame'.kind = "playing" /\ frame'.lower = [r \in Rows |-> meta.track[r]]
      BY <3>1, <3>2
    <3>4. /\ layer.key = <<meta.md5, meta.track.source>> /\ frame.art = layer.art
          /\ (frame.fading => fade = "new") /\ frame.strip = Strip(meta.track)
      BY <2>u, <3>1 DEF Drawn
    <3>5. InStep => frame'.art = Art(meta.md5, meta.md5, meta.track)
      BY <3>3, <3>4, ArtRight
    <3>6. Shows(frame)'
      BY <2>0, <2>s, <3>1, <3>3, <3>4, <3>5 DEF Shows
    <3>7. QED
      BY <2>0, <2>u, <3>1, <3>6 DEF Drawn
  <2>7. CASE DrawLevel
    BY <2>7, <2>u DEF DrawLevel, Drawn
  <2>8. CASE DrawToast
    <3>1. /\ loop.at = "toast" /\ loop'.at = "push" /\ UNCHANGED <<layer, fade>>
          /\ frame' = [frame EXCEPT !.pill = ""]
      BY <1>l, <2>u, <2>8 DEF DrawToast, Drawn
    <3>2. /\ frame'.pill = "" /\ frame'.kind = frame.kind
          /\ frame.kind = "playing" => /\ frame'.art = frame.art /\ frame'.fading = frame.fading
                                       /\ frame'.strip = frame.strip /\ frame'.lower = frame.lower
          /\ frame.kind = "saver" => frame'.source = frame.source
      BY <3>1 DEF Shapes, PlayFields
    <3>3. Shows(frame)
      BY <2>u, <3>1 DEF Drawn
    <3>4. Shows(frame)'
      BY <2>0, <2>s, <3>1, <3>2, <3>3 DEF Shows
    <3>5. QED
      BY <2>0, <2>u, <3>1, <3>2, <3>4 DEF Drawn
  <2>9. CASE Push
    <3>1. loop.at = "push" /\ loop'.at = "top" /\ panel' = frame /\ fade' = fade
      BY <1>l, <2>9 DEF Push
    <3>2. Shows(frame) /\ frame.pill = ""
      BY <2>u, <3>1 DEF Drawn
    <3>3. Shows(panel)'
      BY <2>0, <2>s, <3>1, <3>2 DEF Shows
    <3>4. QED
      BY <3>1, <3>2, <3>3
  <2>10. QED
    BY <2>c, <2>1, <2>2, <2>3, <2>4, <2>5, <2>6, <2>7, <2>8, <2>9
<1>8. QED
  <2>1. CASE ~(Top \/ Take \/ LookAtOsd \/ LookAtToast \/ Decide \/ Duty \/ Others \/ Closes \/ UNCHANGED screenVars)
    <3>1. loop.at \in Draws
      BY <2>1 DEF ScreenNext, Compose, Frame, Badge, Cover, Blend, DrawStrip, DrawLower,
         DrawLevel, DrawToast, Push
    <3>2. QED
      BY <1>7, <2>1, <3>1
  <2>2. QED
    BY <1>1, <1>2, <1>3, <1>4, <1>5, <1>6, <2>1

(***************************************************************************)
(* At first, with every step, and what follows.                            *)
(***************************************************************************)
LEMMA DisplayInit == ASSUME ScreenInit PROVE DInv
<1>n. MaxCovers \in Nat /\ MaxEvents \in Nat
  BY DisplayAssumption
<1>i. /\ meta \in [track : Metadata, md5 : {0}] /\ file = 0 /\ events = 0 /\ fade = "none"
      /\ layer = NoLayer /\ loop.at = "top"
  BY DEF ScreenInit
<1>c. osd \in {Closed(v) : v \in Volumes}
  BY DEF ScreenInit
<1>d. toast = Closed("")
  BY DEF ScreenInit
<1>r. rows = [r \in Rows |-> [scrolling |-> FALSE, position |-> 0]]
  BY DEF ScreenInit
<1>1. Flags
  BY DEF ScreenInit, Flags
<1>2. meta \in [track : Metadata, md5 : 0 .. MaxCovers] /\ meta.md5 = 0
  <2>1. 0 \in 0 .. MaxCovers
    BY <1>n
  <2>2. QED
    BY <1>i, <2>1
<1>3. Contents
  <2>1. osd.what \in Volumes /\ toast.what \in Toasts
    <3>1. osd.what \in Volumes
      BY <1>c DEF Closed
    <3>2. toast.what = ""
      BY <1>d, Named DEF Closed
    <3>3. QED
      BY <3>1, <3>2, DisplayAssumption
  <2>2. rows \in [Rows -> [scrolling : BOOLEAN, position : 0 .. 1]]
    <3>1. [scrolling |-> FALSE, position |-> 0] \in [scrolling : BOOLEAN, position : 0 .. 1]
      OBVIOUS
    <3>2. QED
      BY <1>r, <3>1
  <2>3. file \in 0 .. MaxCovers /\ events \in 0 .. MaxEvents
    BY <1>n, <1>i
  <2>4. QED
    BY <1>2, <1>i, <2>1, <2>2, <2>3 DEF Contents
<1>4. ScreenTypes
  BY <1>1, <1>3, Types
<1>5. Shapes
  BY DEF ScreenInit, Shapes, LoopFields, Waits, Draws
<1>6. Cached
  BY <1>2, <1>i DEF Cached, NoLayer
<1>7. Looked
  BY DEF ScreenInit, Looked
<1>8. ~Undisturbed
  BY DEF ScreenInit, Undisturbed
<1>9. QED
  BY <1>4, <1>5, <1>6, <1>7, <1>8 DEF DInv, Kept

LEMMA DisplayStep == ASSUME ~SlowFrames, DInv, [ScreenNext]_screenVars PROVE DInv'
<1>1. Flags /\ Contents
  BY Types DEF DInv
<1>2. Flags' /\ Contents'
  BY <1>1, FlagsStep, ContentsStep
<1>3. ScreenTypes'
  BY <1>2 DEF ScreenTypes, Flags, Contents
<1>4. Shapes' /\ Cached' /\ Looked'
  BY <1>1, ShapesStep, CachedStep, LookedStep DEF DInv
<1>5. Kept'
  BY <1>1, KeptStep DEF DInv, Kept
<1>6. QED
  BY <1>3, <1>4, <1>5 DEF DInv

LEMMA NothingLeft == ASSUME DInv PROVE NothingMissed
<1>1. SUFFICES ASSUME loop.at = "top", on, ~dirty, ~loop.was, fade # "new", InStep PROVE Settled
  BY DEF NothingMissed, DInv
<1>2. Shows(panel) /\ panel.pill = ""
  BY <1>1 DEF DInv, Kept, Undisturbed, Looked, Waits
<1>3. QED
  BY <1>1, <1>2 DEF Shows, Settled

(***************************************************************************)
(* When the compositor finds nothing to do, the panel shows the present    *)
(* state, whatever other threads changed while the last frame was          *)
(* composed, as long as no frame takes longer than a crossfade.            *)
(***************************************************************************)
THEOREM PanelIsCurrent == ASSUME ~SlowFrames PROVE ScreenSpec => []NothingMissed
<1>1. ScreenInit => DInv
  BY DisplayInit
<1>2. DInv /\ [ScreenNext]_screenVars => DInv'
  BY DisplayStep
<1>3. DInv => NothingMissed
  BY NothingLeft
<1>4. QED
  BY <1>1, <1>2, <1>3, PTL DEF ScreenSpec

-----------------------------------------------------------------------------
(* Knob, buttons and switch *)

AdcPlaces == {"off", "volume", "switch", "confirm", "apply", "amplifier", "buttons", "snapshot"}
MainPlaces == {"construct", "loudness", "initial", "apply", "amplifier", "play", "run", "silent"}

AdcTypes ==
  /\ at \in [Threads -> AdcPlaces \cup MainPlaces]
  /\ at["adc"] \in AdcPlaces /\ at["main"] \in MainPlaces
  /\ asked \subseteq Threads

\* A voltage between the resistors is on or off.
On == IsOn(input[Switch])

(***************************************************************************)
(* One conversion at a time, of the channel that its thread asked for.     *)
(***************************************************************************)
OneConversion ==
  /\ \A t \in asked : at[t] \in DOMAIN Reads /\ channel = Reads[at[t]]
  /\ \A t, u \in asked : t = u

LEMMA InitTypesAdc == AdcInit => AdcTypes /\ OneConversion
<1>1. ASSUME AdcInit PROVE at \in [Threads -> AdcPlaces \cup MainPlaces] /\ at["adc"] = "off" /\ at["main"] = "construct"
  BY <1>1 DEF AdcInit, Threads, AdcPlaces, MainPlaces
<1>2. QED
  BY <1>1 DEF AdcInit, AdcTypes, OneConversion, AdcPlaces, MainPlaces

LEMMA NextTypesAdc ==
  ASSUME AdcTypes, [AdcNext]_adcVars
  PROVE  AdcTypes'
<1> USE DEF AdcTypes, AdcPlaces, MainPlaces, Threads
<1>1. CASE AdcThread
  BY <1>1 DEF AdcThread, Asks, TurnsVolume, LooksAtSwitch, Confirms, Applies, Amplifies,
              LooksAtButtons, Publishes, GoesOn, Receives
<1>2. CASE MainThread
  <2>1. CASE InitialVolume
    BY <2>1 DEF InitialVolume, Receives
  <2>2. CASE Asks("main") \/ Constructs \/ InitialSwitch
    BY <2>2 DEF Asks, Constructs, InitialSwitch, GoesOn, Receives
  <2>3. CASE Applies("main") \/ Amplifies("main") \/ PlaysFirst
    BY <2>3 DEF Applies, Amplifies, PlaysFirst, GoesOn
  <2>4. QED
    BY <1>2, <2>1, <2>2, <2>3 DEF MainThread
<1>3. CASE People
  BY <1>3 DEF People, Touches
<1>4. CASE \E t \in Threads : TransferFails(t)
  BY <1>4 DEF TransferFails, GoesOn
<1>5. CASE UNCHANGED adcVars
  BY <1>5 DEF adcVars
<1>6. QED
  BY <1>1, <1>2, <1>3, <1>4, <1>5 DEF AdcNext

LEMMA NextConversion ==
  ASSUME ~SharedBus, AdcTypes, OneConversion, [AdcNext]_adcVars
  PROVE  OneConversion'
<1> USE DEF OneConversion
<1>1. ASSUME NEW t \in Threads, Asks(t) PROVE OneConversion'
  BY <1>1 DEF Asks
<1>2. ASSUME NEW t \in Threads, NEW p, Receives(t, p) PROVE OneConversion'
  <2>1. asked' = {}
    BY <1>2 DEF Receives
  <2>2. QED
    BY <2>1
<1>3. ASSUME NEW t \in Threads, Applies(t) \/ Amplifies(t) PROVE OneConversion'
  <2>1. /\ t \notin asked /\ UNCHANGED <<asked, channel>>
        /\ \A u \in Threads : u # t => at'[u] = at[u]
    BY <1>3 DEF Applies, Amplifies, GoesOn, Reads, AdcTypes
  <2>2. QED
    BY <2>1 DEF AdcTypes
<1>4. CASE PlaysFirst
  <2>1. /\ "main" \notin asked /\ UNCHANGED <<asked, channel>> /\ at'["adc"] = at["adc"]
    BY <1>4 DEF PlaysFirst, GoesOn, Reads, AdcTypes, Threads
  <2>2. QED
    BY <2>1 DEF AdcTypes, Threads
<1>5. CASE People \/ UNCHANGED adcVars
  <2>1. UNCHANGED <<asked, channel, at>>
    BY <1>5 DEF People, Touches, adcVars
  <2>2. QED
    BY <2>1
<1>6. ASSUME NEW t \in Threads, TransferFails(t) PROVE OneConversion'
  <2>1. asked' = {}
    BY <1>6 DEF TransferFails
  <2>2. QED
    BY <2>1
<1>7. QED
  BY <1>1, <1>2, <1>3, <1>4, <1>5, <1>6 DEF AdcNext, AdcThread, MainThread, TurnsVolume,
     LooksAtSwitch, Confirms, LooksAtButtons, Publishes, Constructs, InitialVolume, InitialSwitch, Threads

(***************************************************************************)
(* A thread gets the conversion of the channel it asked for, as long as    *)
(* the two threads do not use the converter at once.                       *)
(***************************************************************************)
THEOREM ConversionIsOwn ==
  ASSUME ~SharedBus
  PROVE  AdcSpec => []OwnConversion
<1>1. AdcInit => AdcTypes /\ OneConversion
  BY InitTypesAdc
<1>2. AdcTypes /\ OneConversion /\ [AdcNext]_adcVars => (AdcTypes /\ OneConversion)'
  BY NextTypesAdc, NextConversion
<1>3. AdcTypes /\ OneConversion => OwnConversion
  BY DEF OneConversion, OwnConversion
<1>4. QED
  BY <1>1, <1>2, <1>3, PTL DEF AdcSpec

(***************************************************************************)
(* From the first reading to the last step of the start nobody touches the *)
(* switch, so that both threads agree about it; an early look of the ADC   *)
(* thread can only turn the radio on that is on.                           *)
(***************************************************************************)
Fresh ==
  at["main"] \in {"construct", "loudness"} =>
    at["adc"] = "off" /\ volume = Unread /\ switch = FALSE /\ button = 0

Sounding == at["main"] # "silent" /\ volume # Unread => mixer = Loudness(volume)

Starting ==
  at["main"] \notin {"run", "silent"} =>
    /\ Pressed(input[Ladder]) = 0 /\ button = 0
    /\ switch = TRUE => On
    /\ amp = TRUE => On
    /\ at["main"] # "construct" => power = On
    /\ at["main"] \in {"apply", "amplifier"} => given = On
    /\ at["main"] = "play" => amp = On
    /\ at["adc"] \in {"apply", "amplifier"} => switch = TRUE

Running ==
  at["main"] = "run" =>
    /\ button # 0 => preset = button
    /\ at["adc"] \notin {"apply", "amplifier"} =>
         /\ power = amp
         /\ switch = amp \/ (amp = TRUE /\ switch = FALSE /\ On)
    /\ at["adc"] = "amplifier" => power = switch

Taken ==
  /\ switch \in BOOLEAN /\ seen \in BOOLEAN /\ power \in BOOLEAN /\ amp \in BOOLEAN /\ given \in BOOLEAN
  /\ at["adc"] = "confirm" => seen # switch
  /\ Fresh /\ Sounding /\ Starting /\ Running

LEMMA InitTaken == AdcInit => Taken
<1>1. ASSUME AdcInit PROVE at["adc"] = "off" /\ at["main"] = "construct"
  BY <1>1 DEF AdcInit
<1>2. ASSUME AdcInit PROVE Pressed(input[Ladder]) = 0
  BY <1>2 DEF AdcInit, Pressed, Ladder
<1>3. QED
  BY <1>1, <1>2 DEF AdcInit, Taken, Fresh, Sounding, Starting, Running

\* What a thread gets.
LEMMA OwnValue ==
  ASSUME OneConversion, NEW t \in Threads, NEW p, Receives(t, p)
  PROVE  Value = input[Reads[p]] /\ at[t] = p
BY DEF OneConversion, Receives, Value

LEMMA ReadsAre ==
  /\ Reads["construct"] = Switch /\ Reads["initial"] = Switch
  /\ Reads["switch"] = Switch /\ Reads["confirm"] = Switch
  /\ Reads["buttons"] = Ladder
BY DEF Reads

LEMMA MainTaken ==
  ASSUME "mixer" \notin ControlFaults, AdcTypes, OneConversion, Taken, MainThread
  PROVE  Taken'
<1> USE DEF AdcTypes, Threads
<1>1. CASE Asks("main")
  BY <1>1 DEF Asks, Taken, Fresh, Sounding, Starting, Running, noticed, effects, On
<1>2. CASE Constructs
  <2>1. /\ at["main"] = "construct" /\ at'["main"] = "loudness" /\ at'["adc"] = at["adc"]
        /\ UNCHANGED <<input, given, seen, volume, switch, button, mixer, amp, preset>>
    BY <1>2 DEF Constructs, Receives, GoesOn, noticed
  <2>2. power' = On
    BY <1>2, OwnValue, ReadsAre DEF Constructs, On
  <2>3. power' \in BOOLEAN
    BY <2>2 DEF On, IsOn
  <2>4. QED
    BY <2>1, <2>2, <2>3 DEF Taken, Fresh, Sounding, Starting, Running, On
<1>3. CASE InitialVolume
  <2>1. /\ at["main"] = "loudness" /\ at'["main"] = "initial" /\ at'["adc"] = "volume"
        /\ UNCHANGED <<input, given, seen, volume, switch, button, power, amp, preset>>
    BY <1>3 DEF InitialVolume, Receives, noticed
  <2>2. QED
    BY <2>1 DEF Taken, Fresh, Sounding, Starting, Running, On
<1>4. CASE InitialSwitch
  <2>1. /\ at["main"] = "initial" /\ at'["main"] = "apply" /\ at'["adc"] = at["adc"]
        /\ UNCHANGED <<input, seen, volume, switch, button, mixer, amp, preset>>
    BY <1>4 DEF InitialSwitch, Receives, GoesOn
  <2>2. power' = On /\ given' = On
    BY <1>4, OwnValue, ReadsAre DEF InitialSwitch, On
  <2>3. power' \in BOOLEAN /\ given' \in BOOLEAN
    BY <2>2 DEF On, IsOn
  <2>4. QED
    BY <2>1, <2>2, <2>3 DEF Taken, Fresh, Sounding, Starting, Running, On
<1>5. CASE Applies("main")
  <2>1. /\ at["main"] = "apply" /\ at'["main"] = "amplifier" /\ at'["adc"] = at["adc"]
        /\ UNCHANGED <<input, given, seen, volume, switch, button, mixer, amp, preset>>
        /\ power' = given
    BY <1>5 DEF Applies, GoesOn, NewState, noticed
  <2>2. QED
    BY <2>1 DEF Taken, Fresh, Sounding, Starting, Running, On
<1>6. CASE Amplifies("main")
  <2>1. /\ at["main"] = "amplifier" /\ at'["main"] = "play" /\ at'["adc"] = at["adc"]
        /\ UNCHANGED <<input, given, seen, volume, switch, button, mixer, power, preset>>
        /\ amp' = given
    BY <1>6 DEF Amplifies, GoesOn, NewState, noticed
  <2>2. QED
    BY <2>1 DEF Taken, Fresh, Sounding, Starting, Running, On
<1>7. CASE PlaysFirst
  <2>1. /\ at["main"] = "play" /\ at'["main"] = "run" /\ at'["adc"] = at["adc"]
        /\ UNCHANGED <<input, given, seen, volume, switch, button, mixer, power, amp>>
    BY <1>7 DEF PlaysFirst, GoesOn, noticed
  <2>2. power = On /\ amp = On /\ (switch = TRUE => On) /\ button = 0
        /\ (at["adc"] \in {"apply", "amplifier"} => switch = TRUE)
    BY <2>1 DEF Taken, Starting
  <2>3. power = amp
    BY <2>2
  <2>4. switch = amp \/ (amp = TRUE /\ switch = FALSE /\ On)
    BY <2>2 DEF Taken
  <2>5. at["adc"] = "amplifier" => power = switch
    BY <2>2 DEF Taken
  <2>6. Running'
    BY <2>1, <2>2, <2>3, <2>4, <2>5 DEF Running, On
  <2>7. QED
    BY <2>1, <2>6 DEF Taken, Fresh, Sounding, Starting
<1>8. QED
  BY <1>1, <1>2, <1>3, <1>4, <1>5, <1>6, <1>7 DEF MainThread

LEMMA AdcTaken ==
  ASSUME "mixer" \notin ControlFaults, AdcTypes, OneConversion, Taken, AdcThread
  PROVE  Taken'
<1> USE DEF AdcTypes, Threads
<1>1. CASE Asks("adc")
  BY <1>1 DEF Asks, Taken, Fresh, Sounding, Starting, Running, noticed, effects, On
<1>2. CASE TurnsVolume
  <2>1. /\ at["adc"] = "volume" /\ at'["adc"] = "switch" /\ at'["main"] = at["main"]
        /\ UNCHANGED <<input, given, seen, switch, button, power, amp, preset>>
    BY <1>2 DEF TurnsVolume, Receives, GoesOn
  <2>2. UNCHANGED <<volume, mixer>> \/ mixer' = Loudness(volume')
    BY <1>2 DEF TurnsVolume, Sets
  <2>3. Sounding'
    BY <2>1, <2>2 DEF Taken, Sounding
  <2>4. Fresh'
    BY <2>1 DEF Taken, Fresh
  <2>5. QED
    BY <2>1, <2>3, <2>4 DEF Taken, Starting, Running, On
<1>3. CASE LooksAtSwitch
  <2>1. /\ at["adc"] = "switch" /\ at'["main"] = at["main"]
        /\ UNCHANGED <<input, given, volume, switch, button, mixer, power, amp, preset>>
        /\ at'["adc"] = IF seen' = switch THEN "buttons" ELSE "confirm"
        /\ seen' = IsOn(Value)
    BY <1>3 DEF LooksAtSwitch, Receives, GoesOn, effects
  <2>2. seen' \in BOOLEAN
    BY <2>1 DEF IsOn
  <2>3. Fresh'
    BY <2>1 DEF Taken, Fresh
  <2>4. QED
    BY <2>1, <2>2, <2>3 DEF Taken, Sounding, Starting, Running, On
<1>4. CASE Confirms
  <2>1. /\ at["adc"] = "confirm" /\ at'["main"] = at["main"] /\ at'["adc"] \in {"apply", "buttons"}
        /\ UNCHANGED <<input, given, seen, volume, button, mixer, power, amp, preset>>
    BY <1>4 DEF Confirms, Receives, GoesOn, effects
  <2>2. Value = input[Switch] /\ seen # switch
    BY <1>4, <2>1, OwnValue, ReadsAre DEF Confirms, Taken
  <2>3. \/ at'["adc"] = "apply" /\ switch' = seen /\ seen = On
        \/ at'["adc"] = "buttons" /\ switch' = switch
    BY <1>4, <2>2 DEF Confirms, GoesOn, On
  <2>4. Fresh' /\ Sounding'
    BY <2>1 DEF Taken, Fresh, Sounding
  <2>5. CASE at'["adc"] = "buttons"
    BY <2>1, <2>3, <2>4, <2>5 DEF Taken, Starting, Running, On
  <2>6. CASE at'["adc"] = "apply"
    <3>1. switch' = seen /\ seen = On /\ switch' \in BOOLEAN
      BY <2>3, <2>6 DEF Taken
    <3>2. at["main"] \notin {"run", "silent"} => switch' = TRUE
      BY <2>2, <3>1 DEF Taken, Starting
    <3>3. QED
      BY <2>1, <2>4, <2>6, <3>1, <3>2 DEF Taken, Starting, Running, On
  <2>7. QED
    BY <2>3, <2>5, <2>6
<1>5. CASE Applies("adc")
  <2>1. /\ at["adc"] = "apply" /\ at'["adc"] = "amplifier" /\ at'["main"] = at["main"]
        /\ UNCHANGED <<input, given, seen, volume, switch, button, mixer, amp, preset>>
        /\ power' = switch
    BY <1>5 DEF Applies, GoesOn, NewState, noticed
  <2>2. Fresh' /\ Sounding'
    BY <2>1 DEF Taken, Fresh, Sounding
  <2>3. at["main"] \notin {"run", "silent"} => switch = TRUE /\ On
    BY <2>1 DEF Taken, Starting
  <2>4. at["main"] \notin {"run", "silent"} => power' = On
    BY <2>1, <2>3 DEF On, IsOn
  <2>5. Starting'
    BY <2>1, <2>3, <2>4 DEF Taken, Starting, On
  <2>6. QED
    BY <2>1, <2>2, <2>5 DEF Taken, Running
<1>6. CASE Amplifies("adc")
  <2>1. /\ at["adc"] = "amplifier" /\ at'["adc"] = "buttons" /\ at'["main"] = at["main"]
        /\ UNCHANGED <<input, given, seen, volume, switch, button, mixer, power, preset>>
        /\ amp' = switch
    BY <1>6 DEF Amplifies, GoesOn, NewState, noticed
  <2>2. Fresh' /\ Sounding'
    BY <2>1 DEF Taken, Fresh, Sounding
  <2>3. at["main"] \notin {"run", "silent"} => switch = TRUE /\ On
    BY <2>1 DEF Taken, Starting
  <2>4. at["main"] \notin {"run", "silent"} => amp' = On
    BY <2>1, <2>3 DEF On, IsOn
  <2>5. Starting'
    BY <2>1, <2>3, <2>4 DEF Taken, Starting, On
  <2>6. QED
    BY <2>1, <2>2, <2>5 DEF Taken, Running
<1>7. CASE LooksAtButtons
  <2>1. /\ at["adc"] = "buttons" /\ at'["adc"] \in {"snapshot", "volume"} /\ at'["main"] = at["main"]
        /\ UNCHANGED <<input, given, seen, volume, switch, mixer, power, amp>>
    BY <1>7 DEF LooksAtButtons, Receives, GoesOn
  <2>2. Value = input[Ladder]
    BY <1>7, OwnValue, ReadsAre DEF LooksAtButtons
  <2>3. \/ UNCHANGED <<button, preset>>
        \/ button' = preset' /\ Pressed(input[Ladder]) # 0
    BY <1>7, <2>2 DEF LooksAtButtons
  <2>4. Fresh' /\ Sounding'
    BY <2>1 DEF Taken, Fresh, Sounding
  <2>5. Starting'
    BY <2>1, <2>3 DEF Taken, Starting, On
  <2>6. Running'
    BY <2>1, <2>3 DEF Taken, Running, On
  <2>7. QED
    BY <2>1, <2>4, <2>5, <2>6 DEF Taken
<1>8. CASE Publishes
  <2>1. /\ at["adc"] = "snapshot" /\ at'["adc"] = "volume" /\ at'["main"] = at["main"]
        /\ UNCHANGED <<input, given, seen, volume, switch, button, mixer, power, amp, preset>>
    BY <1>8 DEF Publishes, Receives, GoesOn, noticed, effects
  <2>2. QED
    BY <2>1 DEF Taken, Fresh, Sounding, Starting, Running, On
<1>9. QED
  BY <1>1, <1>2, <1>3, <1>4, <1>5, <1>6, <1>7, <1>8 DEF AdcThread

LEMMA RestTaken ==
  ASSUME ~EarlyTouch, AdcTypes, OneConversion, Taken,
         People \/ (\E t \in Threads : TransferFails(t)) \/ UNCHANGED adcVars
  PROVE  Taken'
<1>1. ASSUME NEW c, NEW level, Touches(c, level) PROVE Taken'
  <2>1. /\ UNCHANGED <<at, given, seen, volume, switch, button, mixer, power, amp, preset>>
        /\ at["main"] = "silent" \/ (at["main"] = "run" /\ switch = amp)
    BY <1>1 DEF Touches, Started, noticed, effects
  <2>2. QED
    BY <2>1 DEF Taken, Fresh, Sounding, Starting, Running
<1>2. CASE TransferFails("adc")
  <2>1. /\ at["adc"] \in DOMAIN Reads /\ at'["adc"] = "volume" /\ at'["main"] = at["main"]
        /\ UNCHANGED <<input, given, seen, volume, switch, button, mixer, power, amp, preset>>
    <3>1. at["adc"] \in DOMAIN Reads
      BY <1>2 DEF TransferFails, OneConversion
    <3>2. GoesOn("adc", "volume") /\ UNCHANGED <<input, noticed, effects>>
      BY <1>2 DEF TransferFails, AdcTypes, AdcPlaces
    <3>3. QED
      BY <3>1, <3>2 DEF GoesOn, noticed, effects, AdcTypes, Threads
  <2>2. at["adc"] \notin {"off", "apply", "amplifier"}
    BY <2>1 DEF Reads
  <2>3. QED
    BY <2>1, <2>2 DEF Taken, Fresh, Sounding, Starting, Running, On
<1>3. CASE TransferFails("main")
  <2>1. at["main"] \in DOMAIN Reads
    BY <1>3 DEF TransferFails, OneConversion
  <2>2. at["main"] \in {"construct", "loudness", "initial"} /\ UNCHANGED input
    BY <1>3, <2>1 DEF AdcTypes, MainPlaces, Reads, TransferFails
  <2>3. CASE at["main"] = "loudness"
    <3>1. /\ at'["main"] = "silent" /\ at'["adc"] = at["adc"]
          /\ UNCHANGED <<given, seen, volume, switch, button, mixer, power, amp, preset>>
      BY <1>3, <2>3 DEF TransferFails, GoesOn, noticed, effects, AdcTypes, Threads
    <3>2. QED
      BY <3>1 DEF Taken, Fresh, Sounding, Starting, Running
  <2>4. CASE at["main"] # "loudness"
    <3>1. /\ at' = [main |-> "construct", adc |-> "off"]
          /\ given' = FALSE /\ seen' = FALSE /\ switch' = FALSE /\ power' = FALSE /\ amp' = FALSE
          /\ volume' = Unread /\ button' = 0
      BY <1>3, <2>4 DEF TransferFails
    <3>2. at'["main"] = "construct" /\ at'["adc"] = "off"
      BY <3>1
    <3>3. Pressed(input'[Ladder]) = 0
      BY <2>2 DEF Taken, Starting
    <3>4. QED
      BY <3>1, <3>2, <3>3 DEF Taken, Fresh, Sounding, Starting, Running
  <2>5. QED
    BY <2>3, <2>4
<1>4. CASE UNCHANGED adcVars
  BY <1>4 DEF adcVars, noticed, effects, Taken, Fresh, Sounding, Starting, Running, On
<1>5. QED
  BY <1>1, <1>2, <1>3, <1>4 DEF People, Threads

(***************************************************************************)
(* Once the player runs, what the ADC thread has taken in is what the      *)
(* radio does, whatever transfers fail and however often the start is      *)
(* repeated: for threads that do not convert at once, hands off the        *)
(* controls until the player has started, and a mixer that works.          *)
(***************************************************************************)
THEOREM ControlsAreObeyed ==
  ASSUME ~SharedBus, ~EarlyTouch, "mixer" \notin ControlFaults
  PROVE  AdcSpec => []Obeyed
<1>1. AdcInit => AdcTypes /\ OneConversion /\ Taken
  BY InitTypesAdc, InitTaken
<1>2. AdcTypes /\ OneConversion /\ Taken /\ [AdcNext]_adcVars => (AdcTypes /\ OneConversion /\ Taken)'
  BY NextTypesAdc, NextConversion, MainTaken, AdcTaken, RestTaken DEF AdcNext
<1>3. Taken => Obeyed
  <2> SUFFICES ASSUME Taken, at["main"] = "run" PROVE Obeyed
    BY DEF Obeyed
  <2>1. volume # Unread => mixer = Loudness(volume)
    BY DEF Taken, Sounding
  <2>2. button # 0 => preset = button
    BY DEF Taken, Running
  <2>3. at["adc"] \notin {"apply", "amplifier"} =>
          power = amp /\ (switch = amp \/ (amp = TRUE /\ switch = FALSE /\ On))
    BY DEF Taken, Running
  <2>4. QED
    BY <2>1, <2>2, <2>3 DEF Obeyed, On
<1>4. QED
  BY <1>1, <1>2, <1>3, PTL DEF AdcSpec

=============================================================================
