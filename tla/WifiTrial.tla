------------------------------ MODULE WifiTrial ------------------------------
(***************************************************************************)
(* Changing the WiFi network from the web page (radio_web/network_apply.py *)
(* in the root helper, and the init script S41wlan): the new settings are  *)
(* on trial until they are confirmed, and a watcher restores the previous  *)
(* ones when the radio has no address at the deadline.                     *)
(*                                                                         *)
(* Every request is a thread of the helper; the thread of an apply goes on *)
(* as the watcher it started.  Two files hold a configuration, one for     *)
(* wpa_supplicant and one with a static address, absent for DHCP; each has *)
(* a copy "prev".  Reading one and writing the other is one step.  A file  *)
(* is replaced at once by way of a temporary one, whose name is the same   *)
(* for all threads.  An older bring-up that is still under way when WiFi   *)
(* is restarted reads the same files as the newer one and is merged with   *)
(* it.                                                                     *)
(***************************************************************************)
EXTENDS FiniteSets, Naturals

CONSTANTS
  Configs,      \* network, passphrase and addressing, as the form sends them
  None,         \* no configuration: an absent or empty file
  Static,       \* those with a static address
  Reachable,    \* those with which the radio is in the network
  Initial,      \* the one the radio was set up with
  Threads,      \* bound: the requests at a time, watchers included
  Faults,       \* what may go wrong
  MaxFaults     \* bound: how often

ASSUME ConfigsAssumption ==
  /\ None \notin Configs
  /\ Static \subseteq Configs /\ Reachable \subseteq Configs
  /\ Initial \in Reachable
ASSUME FaultsAssumption ==
  Faults \subseteq {"script",  \* S41wlan does its work, but takes too long
                    "probe",   \* the ip command fails
                    "disk",    \* a file cannot be written
                    "helper",  \* the helper dies and is started again
                    "power"}   \* the power fails
ASSUME BoundAssumption == MaxFaults \in Nat

VARIABLES
  files,               \* wpa_supplicant.conf, wlan-static.env, their copies,
                       \* and whether wlan-rollback-pending is there
  pc, config,          \* the threads: where, with which new configuration
  wifi,                \* the bring-up: how far, and what it read
  address,             \* wlan0 has an IPv4 address
  agreed,              \* observer: the files' contents last agreed upon, None
                       \* once requests overlapped or a request was cut off
  cut,                 \* observer: a request ended between the files and
                       \* the restart of WiFi
  faults

radio == <<wifi, address>>
observers == <<agreed, cut>>
vars == <<files, pc, config, radio, observers, faults>>

Apply == {"save", "saveStatic", "write", "writeStatic", "mark", "restart", "wait"}
Watch == {"watch", "late", "probe"}
Undo == {"undo", "undoStatic", "unmark", "drop", "dropStatic", "restartUndone"}
Confirm == {"confirm", "confirmDrop", "confirmDropStatic"}
Working == Apply \union Undo \union Confirm

\* The contents of the static address file that belong to a configuration.
StaticOf(c) == IF c \in Static THEN c ELSE None

TypeOK ==
  /\ files \in [wpa : Configs, wpaPrev : Configs \union {None},
               static : Static \union {None}, staticPrev : Static \union {None},
               marker : BOOLEAN]
  /\ pc \in [Threads -> Working \union Watch \union {"idle"}]
  /\ config \in [Threads -> Configs \union {None}]
  /\ wifi \in [at : {"associate", "address", "up"}, wpa : Configs \union {None}]
  /\ address \in BOOLEAN
  /\ agreed \in [wpa : Configs, static : Static \union {None}] \union {None}
  /\ cut \in BOOLEAN
  /\ faults \in 0 .. MaxFaults

Fault(kind) == kind \in Faults /\ faults < MaxFaults /\ faults' = faults + 1

Init ==
  /\ files = [wpa |-> Initial, wpaPrev |-> None, static |-> StaticOf(Initial),
              staticPrev |-> None, marker |-> FALSE]
  /\ pc = [t \in Threads |-> "idle"] /\ config = [t \in Threads |-> None]
  /\ wifi = [at |-> "up", wpa |-> Initial] /\ address = TRUE
  /\ agreed = [wpa |-> Initial, static |-> StaticOf(Initial)]
  /\ cut = FALSE /\ faults = 0

Goto(t, where) == pc' = [pc EXCEPT ![t] = where]
Step(t, from, to) == pc[t] = from /\ Goto(t, to)

-----------------------------------------------------------------------------
(* WiFi: S41wlan in the background.                                        *)

\* Someone in the network reaches the web page.
OnAir == wifi.at = "up" /\ wifi.wpa \in Reachable /\ address

\* stop_wifi; start_wifi goes on in the background.
Stopped ==
  /\ wifi' = [at |-> "associate", wpa |-> None]
  /\ address' = FALSE

\* wpa_supplicant starts with the file it finds.
Associates ==
  /\ wifi.at = "associate"
  /\ wifi' = [at |-> "address", wpa |-> files.wpa]
  /\ UNCHANGED <<files, pc, config, address, observers, faults>>

\* Mutant: the lease of the network before is not forgotten.
AddressesFromCache ==
  /\ wifi.at = "address"
  /\ wifi' = [wifi EXCEPT !.at = "up"]
  /\ address' = TRUE
  /\ UNCHANGED <<files, pc, config, observers, faults>>

\* A static address is set whether or not the radio is associated; otherwise
\* the DHCP client tries for a while and goes on in the background.
Addresses ==
  /\ wifi.at = "address"
  /\ wifi' = [wifi EXCEPT !.at = "up"]
  /\ address' = (files.static # None)
  /\ UNCHANGED <<files, pc, config, observers, faults>>

LeaseArrives ==
  /\ wifi.at = "up" /\ wifi.wpa \in Reachable /\ ~address
  /\ address' = TRUE
  /\ UNCHANGED <<files, pc, config, wifi, observers, faults>>

\* S41wlan writes into pipes that its background job holds open, so that the
\* helper learns of the restart when the bring-up has ended, or gives up.
BroughtUp == wifi.at = "up"

-----------------------------------------------------------------------------
(* Requests of the web page.                                               *)

Busy(t) == pc[t] \in Working \union {"late", "probe"}
Watching(t) == pc[t] \in Watch
Quiet == \A t \in Threads : ~Busy(t)

\* What people see work, and nobody is about to change.
Confirmable(t) == OnAir /\ wifi.wpa = files.wpa /\ \A u \in Threads \ {t} : ~Busy(u)

AgreedIf(orderly) == agreed' = IF orderly THEN agreed ELSE None

Asks(t) == OnAir /\ pc[t] = "idle"

AskApply(t, c) ==
  /\ Asks(t)
  /\ Goto(t, "save")
  /\ config' = [config EXCEPT ![t] = c]
  /\ AgreedIf(~files.marker /\ Quiet /\ \A u \in Threads : ~Watching(u))
  /\ UNCHANGED <<files, radio, cut, faults>>

\* The page offers both while a change is pending, and may be out of date.
AskDecision(t) ==
  /\ Asks(t)
  /\ \/ Goto(t, "confirm") \/ Goto(t, "undo")
  /\ AgreedIf(files.marker /\ Quiet)
  /\ UNCHANGED <<files, config, radio, cut, faults>>

-----------------------------------------------------------------------------
(* apply_wifi, confirm and rollback, one file at a time.                   *)

\* Mutant: a missing copy leaves both files alone.
UndonePresent ==
  [wpa |-> IF files.wpaPrev = None THEN files.wpa ELSE files.wpaPrev,
   static |-> IF files.staticPrev = None THEN files.static ELSE files.staticPrev]

\* A missing copy leaves wpa_supplicant.conf alone, but not the static address.
Undone ==
  [wpa |-> IF files.wpaPrev = None THEN files.wpa ELSE files.wpaPrev,
   static |-> files.staticPrev]

Sets(file, to, then) == [file |-> file, to |-> to, then |-> then]

\* What a thread does next to which file.  Apply: the copies, the new files, the
\* marker.  Rollback: the files, the marker, the copies.
Program(t) ==
  [save              |-> Sets("wpaPrev", files.wpa, "saveStatic"),
   saveStatic        |-> Sets("staticPrev", files.static, "write"),
   write             |-> Sets("wpa", config[t], "writeStatic"),
   writeStatic       |-> Sets("static", StaticOf(config[t]), "mark"),
   mark              |-> Sets("marker", TRUE, "restart"),
   undo              |-> Sets("wpa", Undone.wpa, "undoStatic"),
   undoStatic        |-> Sets("static", Undone.static, "unmark"),
   unmark            |-> Sets("marker", FALSE, "drop"),
   drop              |-> Sets("wpaPrev", None, "dropStatic"),
   dropStatic        |-> Sets("staticPrev", None, "restartUndone"),
   confirm           |-> Sets("marker", FALSE, "confirmDrop"),
   confirmDrop       |-> Sets("wpaPrev", None, "confirmDropStatic"),
   confirmDropStatic |-> Sets("staticPrev", None, "idle")]
AtFile(t) == pc[t] \in DOMAIN Program(t)
Now(t) == Program(t)[pc[t]]
Changed(t) == [files EXCEPT ![Now(t).file] = Now(t).to]

FileStep(t) ==
  /\ AtFile(t) /\ Goto(t, Now(t).then)
  /\ files' = Changed(t)
  /\ config' = [config EXCEPT ![t] =
                  IF pc[t] \in {"save", "saveStatic", "write"} THEN @ ELSE None]
  /\ agreed' = (CASE pc[t] # "confirm" -> agreed
                  [] pc[t] = "confirm" /\ Confirmable(t) ->
                       [wpa |-> files.wpa, static |-> files.static]
                  [] OTHER -> None)
  /\ UNCHANGED <<radio, cut, faults>>

\* A step replaces a file by way of a temporary one, unless it removes it.
Replaces(t) ==
  \/ pc[t] \in {"save", "saveStatic", "mark"}
  \/ pc[t] = "undo" /\ files.wpaPrev # None
  \/ pc[t] \in {"write", "writeStatic", "undoStatic"} /\ Now(t).to # None

\* Two threads write the same file: t moves the temporary file that u is still
\* filling, and then u does not find it and gives up its request.
Collides(t, u) ==
  /\ t # u /\ Replaces(t) /\ Replaces(u) /\ Now(t).file = Now(u).file
  /\ files' = Changed(u)
  /\ pc' = [pc EXCEPT ![t] = Now(t).then, ![u] = "idle"]
  /\ config' = [config EXCEPT ![u] = None]
  /\ UNCHANGED <<radio, observers, faults>>

\* The request ends with an error, and what it has written stays.
WriteFails(t) ==
  /\ Replaces(t) /\ Fault("disk")
  /\ Goto(t, "idle") /\ config' = [config EXCEPT ![t] = None]
  /\ agreed' = None /\ cut' = TRUE
  /\ UNCHANGED <<files, radio>>

\* Mutant: a rollback does not restart WiFi.
RestartsApplied(t) ==
  /\ Step(t, "restart", "wait") \/ Step(t, "restartUndone", "idle")
  /\ IF pc[t] = "restart" THEN Stopped ELSE UNCHANGED radio
  /\ cut' = FALSE
  /\ UNCHANGED <<files, config, agreed, faults>>

Restarts(t) ==
  /\ Step(t, "restart", "wait") \/ Step(t, "restartUndone", "idle")
  /\ Stopped
  /\ cut' = FALSE
  /\ UNCHANGED <<files, config, agreed, faults>>

\* The restart is done, and the watcher starts; or it is taken for failed.
Arms(t) ==
  /\ pc[t] = "wait" /\ BroughtUp
  /\ Goto(t, "watch")
  /\ UNCHANGED <<files, config, radio, observers, faults>>

GivesUp(t) ==
  /\ pc[t] = "wait" /\ Fault("script")
  /\ Goto(t, "undo")
  /\ UNCHANGED <<files, config, radio, observers>>

-----------------------------------------------------------------------------
(* _watch                                                                  *)

Looks(t) ==
  /\ pc[t] \in {"watch", "late"} /\ ~files.marker
  /\ Goto(t, "idle")
  /\ UNCHANGED <<files, config, radio, observers, faults>>

DeadlineComes(t) ==
  /\ pc[t] = "watch"
  /\ Goto(t, "late")
  /\ AgreedIf(Quiet)
  /\ UNCHANGED <<files, config, radio, cut, faults>>

FindsPending(t) ==
  /\ pc[t] = "late" /\ files.marker
  /\ Goto(t, "probe")
  /\ UNCHANGED <<files, config, radio, observers, faults>>

\* _has_ip; a probe that fails counts as no address.
ProbesAddress(t) ==
  /\ pc[t] = "probe"
  /\ \/ address /\ Goto(t, "idle") /\ UNCHANGED faults
     \/ ~address /\ Goto(t, "undo") /\ UNCHANGED faults
     \/ address /\ Fault("probe") /\ Goto(t, "undo")
  /\ UNCHANGED <<files, config, radio, observers>>

Thread(t) ==
  \/ FileStep(t) \/ Restarts(t) \/ Arms(t) \/ GivesUp(t)
  \/ Looks(t) \/ DeadlineComes(t) \/ FindsPending(t) \/ ProbesAddress(t)

-----------------------------------------------------------------------------
(* Crashes.  Threads are gone; the marker is in /run.                      *)

Ended ==
  pc' = [t \in Threads |-> "idle"] /\ config' = [t \in Threads |-> None]
Idle == \A t \in Threads : pc[t] = "idle"

HelperRestarts ==
  /\ Fault("helper")
  /\ Ended
  /\ AgreedIf(Idle)
  /\ cut' = (cut \/ ~Quiet)
  /\ UNCHANGED <<files, radio>>

PowerLoss ==
  /\ Fault("power")
  /\ Ended
  /\ files' = [files EXCEPT !.marker = FALSE] /\ AgreedIf(Idle /\ ~files.marker)
  /\ Stopped
  /\ cut' = FALSE

Wifi == Associates \/ Addresses \/ LeaseArrives

Next ==
  \/ Wifi \/ HelperRestarts \/ PowerLoss
  \/ \E t \in Threads :
       \/ Thread(t) \/ WriteFails(t) \/ \E u \in Threads : Collides(t, u)
       \/ AskDecision(t) \/ \E c \in Configs : AskApply(t, c)

Spec == Init /\ [][Next]_vars

\* The bring-up goes on, a reachable network gives a lease, threads run, and
\* deadlines come.
FairSpec ==
  /\ Spec
  /\ WF_vars(Associates \/ Addresses) /\ WF_vars(LeaseArrives)
  /\ \A t \in Threads : WF_vars(Thread(t))

-----------------------------------------------------------------------------
(* Properties.                                                             *)

Undisturbed == agreed # None
AsAgreed == files.wpa = agreed.wpa /\ files.static = agreed.static

\* Between requests, the configuration that was last agreed upon is in the
\* files, or a trial is marked and both files of it are saved.
Restorable ==
  /\ TypeOK
  /\ Quiet /\ Undisturbed =>
       IF files.marker
       THEN files.wpaPrev = agreed.wpa /\ files.staticPrev = agreed.static
       ELSE AsAgreed

\* Where requests have come to an end, what WiFi was brought up with is what the
\* files say, unless the last change was cut off (network_apply.py, S41wlan).
SavedRuns ==
  Idle /\ ~cut /\ wifi.at = "up" =>
    wifi.wpa = files.wpa /\ (files.static # None => address)

\* Whatever requests overlap and whenever watchers act, the radio ends up with
\* the network that is in the file, unless the last change was cut off.
RunsWhatIsSaved ==
  <>[]Idle =>
    <>[](cut \/ (wifi.at = "up" /\ wifi.wpa = files.wpa /\ (files.static # None => address)))

\* A trial of a configuration with which the radio is not in the network ends
\* with the radio in the network it was in before.
Reverts(c) ==
  files.marker /\ files.wpa = c /\ c \notin Reachable ~>
    ~Undisturbed \/ (OnAir /\ AsAgreed)

\* So it is when addresses come from DHCP.
DhcpTrialReverts == \A c \in Configs \ Static : Reverts(c)

\* template_network.py:67-69 promises it of every change: "The new settings are
\* tried first and revert automatically if the radio cannot reconnect".
EveryTrialReverts == \A c \in Configs : Reverts(c)

=============================================================================
