--------------------------- MODULE FirmwareUpdate ---------------------------
(***************************************************************************)
(* A/B firmware updating from end to end: U-Boot's boot.cmd, the installer *)
(* worker and SWUpdate, the manual switch, and the health service that     *)
(* accepts a trial or lets it fail - with power loss between any two       *)
(* steps.  Staging and the install lock file are modelled in more detail   *)
(* in InstallStaging; here the lock is a single owner.                     *)
(*                                                                         *)
(* An action is one durable effect (an environment commit, a history       *)
(* write, the raw image) or one decision taken from what was read, so that *)
(* every point at which the power may fail lies between two actions.       *)
(***************************************************************************)
EXTENDS UBootEnv, Sequences, FiniteSets

CONSTANTS
  MaxOps,        \* bound: installations and manual switches in a behaviour
  MaxLosses,     \* bound: power losses while the radio boots or runs
  HistoryLimit,  \* MAX_HISTORY_ENTRIES
  Requests,      \* unsettled moments at which the operator still asks for
                 \* an update: "trial" (a trial is running), "early" (the
                 \* health service is still writing its records)
  Faults         \* what may go wrong besides power loss and bad images

ASSUME BoundsAssumption ==
  /\ MaxOps \in Nat
  /\ MaxLosses \in Nat
  /\ HistoryLimit \in Nat \ {0}
ASSUME RequestsAssumption == Requests \subseteq {"trial", "early"}
ASSUME FaultsAssumption ==
  Faults \subseteq {"reboot",  \* /sbin/reboot fails or times out
                    "setenv",  \* fw_setenv fails
                    "io",      \* a status or history write fails
                    "ro",      \* /data is mounted read-only
                    "absent"}  \* /data is not mounted

VARIABLES
  \* durable
  env,      \* U-Boot environment
  image,    \* what each root slot contains
  history,  \* /data/update/history.json
  queue,    \* /data/update/queue/firmware.swu exists
  \* this power cycle
  stage,    \* how far the machine is
  running,  \* radio.slot of the kernel command line
  data,     \* how /data is mounted
  lock,     \* owner of install.lock
  worker,   \* installer worker process
  switch,   \* prepare_rollback in the helper
  health,   \* S99firmware-health and the evaluator
  tried,    \* active_slot as the evaluator read it when it started
  \* observation and bounds
  ops,      \* updates requested so far; the number of the latest one
  losses,   \* power losses so far
  proven,   \* slots whose present image has passed the health checks
  trialOp,  \* the update the environment last put on trial
  passed,   \* updates whose trial was accepted while it was running
  reverted  \* updates U-Boot fell back from

durable   == <<env, image, history, queue>>
processes == <<data, lock, worker, switch, health, tried>>
observed  == <<ops, losses, proven, trialOp, passed, reverted>>
vars == <<durable, stage, running, processes, observed>>

(***************************************************************************)
(* healthy: boots and can pass the health checks; unhealthy: boots but     *)
(* never passes; broken: empty, half written or without a usable kernel.   *)
(***************************************************************************)
Image == {"healthy", "unhealthy", "broken"}

Result == {"installed", "manual_switch_prepared", "trial_failed",
           "accepted", "automatic_rollback", "failed"}

\* Results _record_result may still overwrite.
Open == {"installed", "manual_switch_prepared", "trial_failed"}

Entry == [op: 0 .. MaxOps, slot: Slot, result: Result]

HistoryOK(h) == h \in Seq(Entry) /\ Len(h) <= HistoryLimit

DataModes == {"rw"} \union (Faults \intersect {"ro", "absent"})

TypeOK ==
  /\ env \in UBootEnvironment
  /\ image \in [Slot -> Image]
  /\ HistoryOK(history)
  /\ queue \in BOOLEAN
  /\ stage \in {"uboot", "load", "linux", "wedged", "halted"}
  /\ running \in Slot
  /\ data \in {"rw", "ro", "absent"}
  /\ lock \in {"free", "worker", "switch"}
  /\ worker \in {"idle", "queued", "writing", "flashed", "committed", "recorded"}
  /\ switch \in {"idle", "checked", "committed", "recorded"}
  /\ health \in {"off", "reconcile", "clear", "decide", "evaluating",
                 "accepting", "record", "reboot"}
  /\ tried \in Slot
  /\ ops \in 0 .. MaxOps
  /\ losses \in 0 .. MaxLosses
  /\ proven \subseteq Slot
  /\ trialOp \in 0 .. MaxOps
  /\ passed \subseteq 0 .. MaxOps
  /\ reverted \subseteq 0 .. MaxOps

\* A new radio: the card image has A accepted and B empty.
Init ==
  /\ env = SeedEnvironment
  /\ image = [s \in Slot |-> IF s = "A" THEN "healthy" ELSE "broken"]
  /\ history = <<>>
  /\ queue = FALSE
  /\ stage = "uboot"
  /\ running = "A"
  /\ data = "absent"
  /\ lock = "free"
  /\ worker = "idle"
  /\ switch = "idle"
  /\ health = "off"
  /\ tried = "A"
  /\ ops = 0
  /\ losses = 0
  /\ proven = {"A"}
  /\ trialOp = 0
  /\ passed = {}
  /\ reverted = {}

-----------------------------------------------------------------------------
(* Update history *)

\* _append_history keeps the newest HistoryLimit entries.
Appended(h, op, slot, result) ==
  LET entry == [op |-> op, slot |-> slot, result |-> result]
  IN  IF Len(h) >= HistoryLimit THEN Append(Tail(h), entry) ELSE Append(h, entry)

\* The open entries of a slot, as positions in the history.
OpenEntries(h, slot) ==
  {i \in DOMAIN h : h[i].slot = slot /\ h[i].result \in Open}

\* What the health service can read: an unmounted /data has no history.
Readable == IF data = "absent" THEN <<>> ELSE history

HasOpenEntry(slot) == OpenEntries(Readable, slot) # {}

\* _record_result: the newest open entry of the slot takes the result.
Recorded(h, slot, result) ==
  LET i == CHOOSE i \in OpenEntries(h, slot) :
             \A j \in OpenEntries(h, slot) : j <= i
  IN  [h EXCEPT ![i].result = result]

-----------------------------------------------------------------------------
(* Power, U-Boot and the kernel *)

\* Everything that lives in RAM is gone; the machine is back in U-Boot.
Restarted ==
  /\ stage' = "uboot"
  /\ lock' = "free"
  /\ worker' = "idle"
  /\ switch' = "idle"
  /\ health' = "off"
  /\ data' = "absent"
  /\ UNCHANGED <<running, tried>>

PowerLoss ==
  /\ stage \in {"load", "linux"}
  /\ losses < MaxLosses
  /\ losses' = losses + 1
  /\ Restarted
  /\ UNCHANGED <<durable, ops, proven, trialOp, passed, reverted>>

\* Somebody unplugs a radio that shows no life.
PowerCycle ==
  /\ stage \in {"wedged", "halted"}
  /\ Restarted
  /\ UNCHANGED <<durable, observed>>

UBootSelect ==
  /\ stage = "uboot"
  /\ env' = BootSelect(env)
  /\ stage' = "load"
  /\ running' = env'.active
  /\ reverted' = IF env.upgrade /\ ~env'.upgrade
                 THEN reverted \union {trialOp} ELSE reverted
  /\ UNCHANGED <<image, history, queue, processes,
                 ops, losses, proven, trialOp, passed>>

\* The selected kernel boots and init reaches S99, with /data in some mode.
KernelBoots ==
  /\ stage = "load"
  /\ image[running] # "broken"
  /\ stage' = "linux"
  /\ data' \in DataModes
  /\ health' = "reconcile"
  /\ UNCHANGED <<durable, running, lock, worker, switch, tried, observed>>

\* ext4load or bootz returns: reset on a trial, stop otherwise.
KernelFailsToLoad ==
  /\ stage = "load"
  /\ image[running] = "broken"
  /\ stage' = IF env.upgrade THEN "uboot" ELSE "halted"
  /\ UNCHANGED <<durable, running, processes, observed>>

\* A bad image may also take the kernel down before the watchdog is armed.
KernelWedges ==
  /\ stage = "load"
  /\ image[running] # "healthy"
  /\ stage' = "wedged"
  /\ UNCHANGED <<durable, running, processes, observed>>

-----------------------------------------------------------------------------
(* Requests *)

RunningTrial == stage = "linux" /\ env.upgrade /\ env.active = running

Settling == health \in {"reconcile", "clear", "decide", "record"}

SettledEnough == Settling => "early" \in Requests

MayRequest ==
  /\ stage = "linux"
  /\ lock = "free"
  /\ ops < MaxOps
  /\ RunningTrial => "trial" \in Requests
  /\ SettledEnough

\* helper._reboot: refused while an installation or switch holds the lock.
UserReboot ==
  /\ stage = "linux"
  /\ lock = "free"
  /\ SettledEnough
  /\ Restarted
  /\ UNCHANGED <<durable, observed>>

\* install_firmware: take the lock, claim the package, start the worker.
\* There is no test of upgrade_available.
Install ==
  /\ MayRequest
  /\ data = "rw"
  /\ ~queue
  /\ queue' = TRUE
  /\ lock' = "worker"
  /\ worker' = "queued"
  /\ ops' = ops + 1
  /\ UNCHANGED <<env, image, history, stage, running, data, switch, health,
                 tried, losses, proven, trialOp, passed, reverted>>

\* cancel_staged_firmware, as far as the queue is concerned.
CancelStaged ==
  /\ stage = "linux"
  /\ lock = "free"
  /\ data = "rw"
  /\ queue
  /\ queue' = FALSE
  /\ UNCHANGED <<env, image, history, stage, running, processes, observed>>

-----------------------------------------------------------------------------
(* The worker and SWUpdate *)

\* Mutant: the slot to write is derived from U-Boot's selection instead of
\* the kernel command line.
TargetByEnvironment == Other(env.active)

\* _read_cmdline and radio-swupdate-inactive: the slot that is not running.
Target == Other(running)

\* The package passed inspection and swupdate -c; the raw write begins and
\* the slot holds neither the old nor the new image.
WorkerBeginsWrite ==
  /\ worker = "queued"
  /\ worker' = "writing"
  /\ image' = [image EXCEPT ![Target] = "broken"]
  /\ proven' = proven \ {Target}
  /\ UNCHANGED <<env, history, queue, stage, running, data, lock, switch,
                 health, tried, ops, losses, trialOp, passed, reverted>>

WorkerFinishesWrite ==
  /\ worker = "writing"
  /\ worker' = "flashed"
  /\ \E kind \in Image : image' = [image EXCEPT ![Target] = kind]
  /\ UNCHANGED <<env, history, queue, stage, running, data, lock, switch,
                 health, tried, observed>>

\* SWUpdate commits the manifest's bootenv once the image is written.
SWUpdateCommits ==
  /\ worker = "flashed"
  /\ worker' = "committed"
  /\ env' = InstalledEnvironment(env, Target)
  /\ trialOp' = ops
  /\ UNCHANGED <<image, history, queue, stage, running, data, lock, switch,
                 health, tried, ops, losses, proven, passed, reverted>>

WorkerRecords ==
  /\ worker = "committed"
  /\ worker' = "recorded"
  /\ history' = Appended(history, ops, Target, "installed")
  /\ UNCHANGED <<env, image, queue, stage, running, data, lock, switch,
                 health, tried, observed>>

\* finally: the queued package is removed and the lock released.
WorkerCleanup ==
  /\ worker' = "idle"
  /\ lock' = "free"
  /\ queue' = FALSE

WorkerReboots ==
  /\ worker = "recorded"
  /\ queue' = FALSE
  /\ Restarted
  /\ UNCHANGED <<env, image, history, observed>>

WorkerRebootFails ==
  /\ worker = "recorded"
  /\ "reboot" \in Faults
  /\ WorkerCleanup
  /\ UNCHANGED <<env, image, history, stage, running, data, switch, health,
                 tried, observed>>

\* The package is rejected, SWUpdate fails, or (with "io") a status write
\* fails after SWUpdate has committed.
WorkerFails ==
  /\ \/ worker \in {"queued", "writing", "flashed"}
     \/ worker = "committed" /\ "io" \in Faults
  /\ history' = Appended(history, ops, Target, "failed")
  /\ WorkerCleanup
  /\ UNCHANGED <<env, image, stage, running, data, switch, health, tried,
                 observed>>

-----------------------------------------------------------------------------
(* Manual switch: firmware_slots.prepare_rollback *)

SwitchChecks ==
  /\ MayRequest
  /\ ~env.upgrade
  /\ env.active = running
  /\ lock' = "switch"
  /\ switch' = "checked"
  /\ ops' = ops + 1
  /\ UNCHANGED <<durable, stage, running, data, worker, health, tried, losses,
                 proven, trialOp, passed, reverted>>

SwitchCommits ==
  /\ switch = "checked"
  /\ switch' = "committed"
  /\ env' = SwitchedEnvironment(env, running)
  /\ trialOp' = ops
  /\ UNCHANGED <<image, history, queue, stage, running, data, lock, worker,
                 health, tried, ops, losses, proven, passed, reverted>>

SwitchRecords ==
  /\ switch = "committed"
  /\ data = "rw"
  /\ switch' = "recorded"
  /\ history' = Appended(history, ops, Other(running), "manual_switch_prepared")
  /\ UNCHANGED <<env, image, queue, stage, running, data, lock, worker,
                 health, tried, observed>>

SwitchReboots ==
  /\ switch = "recorded"
  /\ Restarted
  /\ UNCHANGED <<durable, observed>>

\* The other slot is refused, fw_setenv fails, the history cannot be
\* written or reboot fails: the lock is released, what was committed stays.
SwitchFails ==
  /\ \/ switch = "checked"
     \/ switch = "committed" /\ (data # "rw" \/ "io" \in Faults)
     \/ switch = "recorded" /\ "reboot" \in Faults
  /\ switch' = "idle"
  /\ lock' = "free"
  /\ UNCHANGED <<durable, stage, running, data, worker, health, tried,
                 observed>>

-----------------------------------------------------------------------------
(* S99firmware-health *)

\* reconcile_rollback: U-Boot fell back and this is the retained slot.
RollbackToRecord ==
  ~env.upgrade /\ env.rollback \in Slot /\ env.rollback # running

\* Mutant: a boot of the trial itself counts as its acceptance.
AcceptanceAssumed == env.rollback = NoSlot

\* Mutant: an interrupted acceptance is never completed.
AcceptanceForgotten == FALSE

\* reconcile_acceptance: no trial is pending and none has just failed.
AcceptanceToRecord == ~env.upgrade /\ env.rollback = NoSlot

\* reconcile, first half.  A missing entry is a HealthError, a read-only
\* /data an OSError: either ends the process and S99 goes on.
Reconcile ==
  /\ health = "reconcile"
  /\ IF RollbackToRecord /\ HasOpenEntry(env.rollback) /\ data = "rw"
     THEN /\ history' = Recorded(history, env.rollback, "automatic_rollback")
          /\ health' = "clear"
     ELSE /\ history' = IF /\ AcceptanceToRecord
                           /\ HasOpenEntry(running)
                           /\ data = "rw"
                        THEN Recorded(history, running, "accepted")
                        ELSE history
          /\ health' = "decide"
  /\ UNCHANGED <<env, image, queue, stage, running, data, lock, worker,
                 switch, tried, observed>>

ReconcileClears ==
  /\ health = "clear"
  /\ health' = "decide"
  /\ env' \in {ClearedEnvironment(env)}
              \union (IF "setenv" \in Faults THEN {env} ELSE {})
  /\ UNCHANGED <<image, history, queue, stage, running, data, lock, worker,
                 switch, tried, observed>>

\* S99 starts the evaluator for a trial.  Its first act is to update the
\* progress tracker, which raises on a read-only /data.
DecideEvaluator ==
  /\ health = "decide"
  /\ health' \in IF env.upgrade
                 THEN {"evaluating"} \union (IF data = "ro" THEN {"off"} ELSE {})
                 ELSE {"off"}
  /\ tried' = env.active
  /\ UNCHANGED <<durable, stage, running, data, lock, worker, switch, observed>>

\* Mutant: neither the slot check nor accept_trial compares U-Boot's
\* selection with the running slot.
HealthPassesAnySlot ==
  /\ health = "evaluating"
  /\ image[running] = "healthy"
  /\ data = "rw"
  /\ health' = "accepting"
  /\ UNCHANGED <<durable, stage, running, data, lock, worker, switch, tried,
                 observed>>

\* Every check passed; accept_trial reads the environment once more.
HealthPasses ==
  /\ health = "evaluating"
  /\ tried = running
  /\ image[running] = "healthy"
  /\ data = "rw"
  /\ health' = IF env.upgrade /\ env.active = running THEN "accepting" ELSE "off"
  /\ UNCHANGED <<durable, stage, running, data, lock, worker, switch, tried,
                 observed>>

AcceptCommits ==
  /\ health = "accepting"
  /\ health' = "record"
  /\ env' = AcceptedEnvironment(env)
  /\ proven' = proven \union {running}
  /\ passed' = IF env.active = running THEN passed \union {trialOp} ELSE passed
  /\ UNCHANGED <<image, history, queue, stage, running, data, lock, worker,
                 switch, tried, ops, losses, trialOp, reverted>>

AcceptFails ==
  /\ health = "accepting"
  /\ "setenv" \in Faults
  /\ health' = "off"
  /\ UNCHANGED <<durable, stage, running, data, lock, worker, switch, tried,
                 observed>>

AcceptRecords ==
  /\ health = "record"
  /\ health' = "off"
  /\ history' = IF HasOpenEntry(running) /\ data = "rw"
                THEN Recorded(history, running, "accepted") ELSE history
  /\ UNCHANGED <<env, image, queue, stage, running, data, lock, worker,
                 switch, tried, observed>>

\* The deadline passed.  The failure is recorded before the reboot, so an
\* entry that cannot be written ends the evaluator instead.
HealthDeadline ==
  /\ health = "evaluating"
  /\ IF HasOpenEntry(tried)
     THEN IF data = "rw"
          THEN /\ history' = Recorded(history, tried, "trial_failed")
               /\ health' = "reboot"
          ELSE health' = "off" /\ history' = history
     ELSE health' = "reboot" /\ history' = history
  /\ UNCHANGED <<env, image, queue, stage, running, data, lock, worker,
                 switch, tried, observed>>

HealthReboots ==
  /\ health = "reboot"
  /\ Restarted
  /\ UNCHANGED <<durable, observed>>

HealthRebootFails ==
  /\ health = "reboot"
  /\ "reboot" \in Faults
  /\ health' = "off"
  /\ UNCHANGED <<durable, stage, running, data, lock, worker, switch, tried,
                 observed>>

-----------------------------------------------------------------------------

Boot == UBootSelect \/ KernelBoots \/ KernelFailsToLoad \/ KernelWedges

Operator == UserReboot \/ Install \/ CancelStaged \/ SwitchChecks

Worker ==
  \/ WorkerBeginsWrite \/ WorkerFinishesWrite \/ SWUpdateCommits
  \/ WorkerRecords \/ WorkerReboots \/ WorkerRebootFails \/ WorkerFails

Switch == SwitchCommits \/ SwitchRecords \/ SwitchReboots \/ SwitchFails

Health ==
  \/ Reconcile \/ ReconcileClears \/ DecideEvaluator
  \/ HealthPasses \/ AcceptCommits \/ AcceptFails \/ AcceptRecords
  \/ HealthDeadline \/ HealthReboots \/ HealthRebootFails

Next == PowerLoss \/ PowerCycle \/ Boot \/ Operator \/ Worker \/ Switch \/ Health

Spec == Init /\ [][Next]_vars

\* init and the processes it starts keep running; a radio without a sign of
\* life is unplugged.  Nobody is obliged to request anything.
FairSpec ==
  /\ Spec
  /\ WF_vars(PowerCycle)
  /\ WF_vars(Boot)
  /\ WF_vars(Worker)
  /\ WF_vars(Switch)
  /\ WF_vars(Health)

-----------------------------------------------------------------------------
(* Safety *)

\* While a trial is pending, previous_slot - where U-Boot will fall back to -
\* holds an image that has itself been accepted and not been touched since
\* (firmware-update-architecture.md:140, "Last accepted slot").
FallbackAccepted == env.upgrade => env.previous \in proven

\* Outside a trial U-Boot selects a slot whose present image was accepted:
\* nothing becomes permanent that did not pass its health checks while it was
\* running (firmware-updates.md:31).
SelectedAccepted == ~env.upgrade => env.active \in proven

\* The radio never ends up at boot.cmd's last line, "Unable to boot firmware
\* slot", which only a power cycle into the same line follows.
NeverStranded == stage # "halted"

\* An installation never touches the slot Linux runs from, whatever U-Boot
\* would select next (firmware-update-architecture.md:15).
RunningSlotUntouched ==
  [][stage = "linux" => image'[running] = image[running]]_vars

\* When Linux ends a trial, the slot made permanent is the one that was
\* running and passed the checks, not one selected in the meantime.
AcceptsWhatItTested ==
  [][stage = "linux" /\ env.upgrade /\ ~env'.upgrade => env'.active = running]_vars

\* The environment refines the promise of TrialUpdate.
Promise == INSTANCE TrialUpdate WITH
  Slots    <- Slot,
  NoTrial  <- NoSlot,
  Limit    <- BootLimit,
  good     <- IF env.upgrade THEN env.previous ELSE env.active,
  trial    <- IF env.upgrade THEN env.active ELSE NoSlot,
  attempts <- env.bootcount

KeepsPromise == Promise!Spec

\* The history calls an update accepted only if its own trial was accepted
\* (firmware_health.py:274).
AcceptedTruthfully ==
  \A i \in DOMAIN history :
    history[i].result = "accepted" => history[i].op \in passed

\* The history reports an automatic rollback only of an update U-Boot did
\* fall back from (firmware_health.py:259).
RollbackTruthfully ==
  \A i \in DOMAIN history :
    history[i].result = "automatic_rollback" => history[i].op \in reverted

\* Both: what firmware.html shows of an update is what became of it.
HistoryTruthful == AcceptedTruthfully /\ RollbackTruthfully

(***************************************************************************)
(* Inductive strengthening, for an operator who does not install while a   *)
(* trial runs ("trial" \notin Requests).  Settled says which slot is good;  *)
(* Flashing and Switching carry it through a half-finished update, and     *)
(* Evaluating says that nobody moves the selection under the evaluator     *)
(* between its last look at the environment and its commit.                *)
(***************************************************************************)
ProvenHealthy == \A s \in proven : image[s] = "healthy"

TrialDistinct == env.upgrade => env.active # env.previous

SelectionFollowed ==
  /\ stage = "load" => running = env.active
  /\ stage = "linux" =>
       IF env.upgrade THEN running \in {env.active, env.previous}
                      ELSE running = env.active

LockOwned ==
  /\ worker # "idle" <=> lock = "worker"
  /\ switch # "idle" <=> lock = "switch"

LinuxOnly ==
  stage # "linux" => worker = "idle" /\ switch = "idle" /\ health = "off"

Flashing == worker \in {"queued", "writing", "flashed"} => ~RunningTrial

Writing == worker = "writing" => Target \notin proven

Switching == switch = "checked" => ~env.upgrade

Evaluating ==
  health = "accepting" =>
    /\ env.upgrade
    /\ env.active = running
    /\ image[running] = "healthy"
    /\ env.bootcount > 0

TrialCounted ==
  /\ env.upgrade /\ stage = "load" => env.bootcount > 0
  /\ RunningTrial => env.bootcount > 0

CounterIdle == ~env.upgrade => env.bootcount = 0

IInv ==
  /\ TypeOK
  /\ FallbackAccepted
  /\ SelectedAccepted
  /\ NeverStranded
  /\ ProvenHealthy
  /\ TrialDistinct
  /\ SelectionFollowed
  /\ LockOwned
  /\ LinuxOnly
  /\ Flashing
  /\ Writing
  /\ Switching
  /\ Evaluating
  /\ TrialCounted
  /\ CounterIdle

-----------------------------------------------------------------------------
(* Liveness *)

\* A prepared trial is settled: accepted or fallen back from, whatever the
\* image does and wherever power is lost; and an acceptance cut off from its
\* record by power loss is recorded by a later boot, provided no rollback
\* marker was left behind (firmware_health.py:274).
TrialSettled ==
  /\ env.upgrade ~> ~env.upgrade
  /\ \A o \in 1 .. MaxOps :
       (o \in passed /\ env.rollback = NoSlot /\ \E i \in DOMAIN history :
          history[i].op = o /\ history[i].result \in Open)
       ~> (\A i \in DOMAIN history :
             history[i].op = o => history[i].result \notin Open)

=============================================================================
