----------------------------- MODULE Supervision -----------------------------
(***************************************************************************)
(* What keeps the player and its media backends alive: the supervisor      *)
(* shell and the freeze watcher of S90radio, and the monitor threads of    *)
(* lib/utilities.py, one per backend, with the cleanup at exit.            *)
(*                                                                         *)
(* Shell, player and backends are one process group, the shell's.  A       *)
(* backend whose player is gone is left over until somebody kills it.      *)
(***************************************************************************)
EXTENDS Naturals

CONSTANTS
  Backends,     \* shairport-sync, nqptp, go-librespot
  MaxTroubles,  \* bound: crashes, exits and freezes
  MaxScripts    \* bound: starts and stops of the init script

ASSUME TroublesAssumption == MaxTroubles \in Nat /\ MaxScripts \in Nat

VARIABLES
  script,    \* S90radio: "stopped", "started", or a step of stop
  shell,     \* the supervisor: "none", "reap", "launch", "wait" or "sleep"
  player,    \* "none", "init", "ok", "frozen", or a step of its exit
  beat,      \* the heartbeat file: "none", "fresh" or "stale"
  watcher,   \* "none", "watch" or "kill"
  reason,    \* /run/radio-restart-reason
  own,       \* the backends that are children of the player
  leftover,  \* how many others run
  monitor,   \* the monitor threads
  known,     \* the backends in _processes
  troubles, scripts

procs == <<own, leftover, monitor, known>>
radio == <<script, shell, player, beat, watcher, reason, procs, troubles, scripts>>

Off == [b \in Backends |-> "none"]
Nobody == [b \in Backends |-> 0]

RadioTypes ==
  /\ script \in {"stopped", "started", "group", "shell", "killall"}
  /\ shell \in {"none", "reap", "launch", "wait", "sleep"}
  /\ player \in {"none", "init", "ok", "frozen", "snapshot", "terminate"}
  /\ beat \in {"none", "fresh", "stale"}
  /\ watcher \in {"none", "watch", "kill"}
  /\ reason \in {"none", "heartbeat_timeout"}
  /\ own \subseteq Backends /\ known \subseteq Backends
  /\ leftover \in [Backends -> 0 .. 1 + MaxTroubles]
  /\ monitor \in [Backends -> {"none", "check", "start", "register", "watch", "backoff"}]

RadioInit ==
  /\ script = "stopped" /\ shell = "none" /\ player = "none" /\ beat = "none"
  /\ watcher = "none" /\ reason = "none"
  /\ own = {} /\ leftover = Nobody /\ monitor = Off /\ known = {}
  /\ troubles = 0 /\ scripts = 0

Trouble == troubles < MaxTroubles /\ troubles' = troubles + 1

-----------------------------------------------------------------------------
(* The init script.                                                        *)

\* start-stop-daemon starts what its pid file does not show to be running.
Start ==
  /\ script \in {"stopped", "started"} /\ scripts < MaxScripts
  /\ scripts' = scripts + 1 /\ script' = "started"
  /\ shell' = IF shell = "none" THEN "reap" ELSE shell
  /\ watcher' = IF watcher = "none" THEN "watch" ELSE watcher
  /\ UNCHANGED <<player, beat, reason, procs, troubles>>

\* The watcher goes first.
Stop ==
  /\ script = "started" /\ scripts < MaxScripts
  /\ scripts' = scripts + 1 /\ script' = "group" /\ watcher' = "none"
  /\ UNCHANGED <<shell, player, beat, reason, procs, troubles>>

\* What a signal to the shell's group leaves, if there is a shell.
GroupDies ==
  IF shell # "none"
  THEN /\ shell' = "none" /\ player' = "none" /\ own' = {} /\ leftover' = Nobody
       /\ monitor' = Off /\ known' = {}
  ELSE UNCHANGED <<shell, player, procs>>

\* A player that dies leaves its backends behind.
PlayerDies ==
  /\ player' = "none" /\ monitor' = Off /\ known' = {} /\ own' = {}
  /\ leftover' = [b \in Backends |-> leftover[b] + IF b \in own THEN 1 ELSE 0]

\* kill_supervised_player
StopsGroup ==
  /\ script = "group" /\ script' = "shell"
  /\ GroupDies
  /\ UNCHANGED <<beat, watcher, reason, troubles, scripts>>

\* start-stop-daemon -K
StopsShell ==
  /\ script = "shell" /\ script' = "killall"
  /\ shell' = "none"
  /\ UNCHANGED <<player, beat, watcher, reason, procs, troubles, scripts>>

\* killall by name, which reaches children and others alike.
Killed == own' = {} /\ leftover' = Nobody

StopsBackends ==
  /\ script = "killall" /\ script' = "stopped"
  /\ Killed /\ beat' = "none"
  /\ UNCHANGED <<shell, player, watcher, reason, monitor, known, troubles, scripts>>

-----------------------------------------------------------------------------
(* The supervisor shell.                                                   *)

\* Mutant: nothing is reaped.
ReapNone ==
  /\ shell = "reap" /\ shell' = "launch"
  /\ beat' = "none"
  /\ UNCHANGED <<script, player, watcher, reason, procs, troubles, scripts>>

Reap ==
  /\ shell = "reap" /\ shell' = "launch"
  /\ Killed /\ beat' = "none"
  /\ UNCHANGED <<script, player, watcher, reason, monitor, known, troubles, scripts>>

Launch ==
  /\ shell = "launch" /\ shell' = "wait" /\ player' = "init"
  /\ UNCHANGED <<script, beat, watcher, reason, procs, troubles, scripts>>

\* The reason is recorded and removed; the pause grows with each restart.
Returns ==
  /\ shell = "wait" /\ player = "none"
  /\ shell' = "sleep" /\ reason' = "none"
  /\ UNCHANGED <<script, player, beat, watcher, procs, troubles, scripts>>

Sleeps ==
  /\ shell = "sleep" /\ shell' = "reap"
  /\ UNCHANGED <<script, player, beat, watcher, reason, procs, troubles, scripts>>

-----------------------------------------------------------------------------
(* The player.                                                             *)

\* Its services start the monitors, then it arms the heartbeat.
Initialises ==
  /\ player = "init" /\ player' = "ok" /\ beat' = "fresh"
  /\ monitor' = [b \in Backends |-> "check"]
  /\ UNCHANGED <<script, shell, watcher, reason, own, leftover, known, troubles, scripts>>

Beats ==
  /\ player = "ok" /\ beat # "fresh" /\ beat' = "fresh"
  /\ UNCHANGED <<script, shell, player, watcher, reason, procs, troubles, scripts>>

Freezes ==
  /\ player = "ok" /\ Trouble /\ player' = "frozen"
  /\ UNCHANGED <<script, shell, beat, watcher, reason, procs, scripts>>

\* A signal or a fault in native code: no handler runs.
Crashes ==
  /\ player # "none" /\ Trouble /\ PlayerDies
  /\ UNCHANGED <<script, shell, beat, watcher, reason, scripts>>

\* An exception ends it: cleanup sets the stop event.
Exits ==
  /\ player \in {"init", "ok"} /\ Trouble
  /\ player' = "snapshot"
  /\ UNCHANGED <<script, shell, beat, watcher, reason, procs, scripts>>

Stopping == player \in {"snapshot", "terminate"}

\* cleanup terminates what was known when it looked; the rest outlives it.
CleanupLooks ==
  /\ player = "snapshot" /\ player' = "terminate"
  /\ own' = own \ known /\ known' = {}
  /\ UNCHANGED <<script, shell, beat, watcher, reason, leftover, monitor, troubles, scripts>>

CleanupEnds ==
  /\ player = "terminate" /\ PlayerDies
  /\ UNCHANGED <<script, shell, beat, watcher, reason, troubles, scripts>>

-----------------------------------------------------------------------------
(* The monitor threads, _monitor_with_devnull.                             *)

Move(b, from, to) == monitor[b] = from /\ monitor' = [monitor EXCEPT ![b] = to]
others == <<script, shell, player, beat, watcher, reason, leftover, scripts>>

Checks(b) ==
  /\ Move(b, "check", IF Stopping THEN "none" ELSE "start")
  /\ UNCHANGED <<others, own, known, troubles>>

Starts(b) ==
  /\ Move(b, "start", "register") /\ own' = own \union {b}
  /\ UNCHANGED <<others, known, troubles>>

Registers(b) ==
  /\ Move(b, "register", "watch") /\ known' = known \union {b}
  /\ UNCHANGED <<others, own, troubles>>

BackendDies(b) ==
  /\ b \in own /\ Trouble /\ own' = own \ {b}
  /\ UNCHANGED <<others, known, monitor>>

\* Mutant: the pause is followed by nothing.
BacksOffForGood(b) ==
  /\ Move(b, "backoff", "none")
  /\ UNCHANGED <<others, own, known, troubles>>

\* The loop notices that the child is gone, pauses, and looks at the stop event.
Notices(b) ==
  /\ Move(b, "watch", IF Stopping THEN "none" ELSE "backoff")
  /\ Stopping \/ b \notin own
  /\ UNCHANGED <<others, own, known, troubles>>

BacksOff(b) ==
  /\ Move(b, "backoff", "check")
  /\ UNCHANGED <<others, own, known, troubles>>

-----------------------------------------------------------------------------
(* The freeze watcher.                                                     *)

\* Nobody touches the heartbeat for HEARTBEAT_TIMEOUT seconds.
Ages ==
  /\ beat = "fresh" /\ player # "ok" /\ beat' = "stale"
  /\ UNCHANGED <<script, shell, player, watcher, reason, procs, troubles, scripts>>

Finds ==
  /\ watcher = "watch" /\ beat = "stale"
  /\ watcher' = "kill" /\ reason' = "heartbeat_timeout"
  /\ UNCHANGED <<script, shell, player, beat, procs, troubles, scripts>>

\* The recorded pid is the shell's: so is the group.  A new player is slower to
\* start than the second until the heartbeat is removed.
KillsGroup ==
  /\ watcher = "kill" /\ watcher' = "watch" /\ beat' = "none"
  /\ GroupDies
  /\ UNCHANGED <<script, reason, troubles, scripts>>

-----------------------------------------------------------------------------

Script == StopsGroup \/ StopsShell \/ StopsBackends
Shell == Reap \/ Launch \/ Returns \/ Sleeps
Player == Initialises \/ Beats \/ CleanupLooks \/ CleanupEnds
Watcher == Finds \/ KillsGroup
Monitors(b) == Checks(b) \/ Starts(b) \/ Registers(b) \/ Notices(b) \/ BacksOff(b)

RadioNext ==
  \/ Start \/ Stop \/ Script \/ Shell \/ Player \/ Ages \/ Watcher
  \/ Freezes \/ Crashes \/ Exits
  \/ \E b \in Backends : Monitors(b) \/ BackendDies(b)

\* Every process is scheduled; nobody need use the script, nothing need fail.
RadioFairness ==
  /\ WF_radio(Script) /\ WF_radio(Shell) /\ WF_radio(Player) /\ WF_radio(Ages)
  /\ WF_radio(Watcher)
  /\ \A b \in Backends : WF_radio(Monitors(b))

RadioSpec == RadioInit /\ [][RadioNext]_radio /\ RadioFairness

-----------------------------------------------------------------------------
(* Properties.                                                             *)

\* A player's backend never meets one that an earlier player left behind
\* (S90radio, "Clearing them here keeps exactly one owner each"), and a radio
\* that was stopped runs nothing.
OneOwner ==
  /\ RadioTypes
  /\ \A b \in own : leftover[b] = 0
  /\ script = "stopped" =>
       shell = "none" /\ player = "none" /\ own = {} /\ leftover = Nobody

AllRuns == player = "ok" /\ \A b \in Backends : b \in own /\ monitor[b] = "watch"

\* Whatever ended, the player and every backend run again, unless the radio is
\* stopped or the freeze watcher has killed the supervisor with its group.
ComesBack == []<>(AllRuns \/ script # "started" \/ shell = "none")

\* S90radio: the freeze watcher kills a frozen player, "which triggers" its
\* restart by the supervisor.
FreezeRecovers == (player = "frozen") ~> (player = "ok" \/ script # "started")

=============================================================================
