--------------------------- MODULE MCInstallStaging ---------------------------
(***************************************************************************)
(* The way of a package, for TLC: its release, and on the radio the        *)
(* listener, the confirmed upload and the staging.  A behaviour is one of  *)
(* the four.                                                               *)
(***************************************************************************)
EXTENDS InstallStaging, WebAccess, Release, TLC

CONSTANTS Addresses, MaxChanges, MaxRefusals

VARIABLES part,
          wlan, bound, monitor, service, changes, refusals

AllRequests == {"install", "switch", "cancel"}
AllFaults == {"kill", "spawn", "restart"}
AnyRun == [force : BOOLEAN, publish : BOOLEAN, skip : BOOLEAN, zip : {TRUE}, createTag : {TRUE}]
WithoutZip == [force |-> TRUE, publish |-> FALSE, skip |-> FALSE, zip |-> FALSE, createTag |-> TRUE]
WithoutTag == [force |-> FALSE, publish |-> FALSE, skip |-> FALSE, zip |-> TRUE, createTag |-> FALSE]
SomeRuns == AnyRun \union {WithoutZip, WithoutTag}
AllBreaks == {"compile", "collect", "stage", "push", "create", "edit", "upload", "silent"}
UploadFaults == {"image", "refused", "reboot", "restart"}

Lan == INSTANCE LanListener
lan == <<wlan, bound, monitor, service, changes, refusals>>

PartInit ==
  /\ part \in {"staging", "upload", "listener", "release"}
  /\ Init /\ WebInit /\ Lan!LanInit /\ RelInit

PartNext ==
  \/ part = "staging" /\ Next /\ UNCHANGED <<part, webVars, lan, relVars>>
  \/ part = "upload" /\ WebNext /\ UNCHANGED <<part, vars, lan, relVars>>
  \/ part = "listener" /\ Lan!LanNext /\ UNCHANGED <<part, vars, webVars, relVars>>
  \/ part = "release" /\ RelNext /\ UNCHANGED <<part, vars, webVars, lan>>

PartFairness ==
  /\ \A t \in Threads : /\ WF_machine(part = "staging" /\ Helper(t))
                        /\ WF_machine(part = "staging" /\ Worker(t))
  /\ WF_lan(part = "listener" /\ Lan!Monitor)

PartSpec == PartInit /\ [][PartNext]_<<part, vars, webVars, lan, relVars>> /\ PartFairness

\* firmware_installer.py: every operation gives the lock back.
LockComesBack == part = "staging" => LockReleased

\* server.py: the listener follows the address.
ListenerFollows == part = "listener" => Lan!ListenerFollows

=============================================================================
