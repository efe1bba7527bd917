--------------------------- MODULE InstallStaging ---------------------------
(***************************************************************************)
(* From an uploaded package to a running installer worker: the staging     *)
(* files, the claim by rename, and the lock file install.lock that the     *)
(* helper's request threads and the detached workers share by writing      *)
(* their pids into it.  FirmwareUpdate continues where a worker begins to  *)
(* install.                                                                *)
(*                                                                         *)
(* An access to the lock is several file operations (create, write, read,  *)
(* unlink), and other processes run between them.  The history variable    *)
(* torn, which no action reads, says whether one ever spoiled an access of *)
(* another.                                                                *)
(***************************************************************************)
EXTENDS Naturals, FiniteSets

CONSTANTS
  Threads,      \* helper threads, one request each
  Uploads,      \* web threads, one upload each; also names the packages
  NoPackage,
  Requests,     \* requests sent to the helper
  Faults,       \* what may fail
  MaxLosses     \* bound: power losses

ASSUME RequestsAssumption == Requests \subseteq {"install", "switch", "cancel"}
ASSUME FaultsAssumption ==
  Faults \subseteq {"kill",     \* a worker is killed
                    "spawn",    \* the status write or Popen fails
                    "restart"}  \* the helper is restarted
ASSUME NamesAssumption ==
  /\ NoPackage \notin Uploads
  /\ {"absent", "empty", "helper"} \intersect Threads = {}
ASSUME LossesAssumption == MaxLosses \in Nat

VARIABLES
  lock,     \* install.lock: absent, empty, "helper" or a worker's pid
  handles,  \* writers holding the present lock file open
  ready,    \* firmware.swu.ready: the package it holds
  queue,    \* queue/firmware.swu: the package it holds
  request,  \* what each helper thread was asked to do
  pc,       \* where each helper thread is
  tries,    \* _acquire_lock: attempts used up
  before,   \* _claim_staged: the package validated before the rename
  worker,   \* the worker each thread started; the thread names its pid
  upload,   \* where each upload is
  losses,
  torn      \* history: an access to the lock was spoiled

lockVars == <<lock, handles>>
threadVars == <<request, pc, tries, before>>
machine == <<lockVars, ready, queue, threadVars, worker, upload, losses>>
vars == <<machine, torn>>

Package == Uploads \union {NoPackage}

Writers == Threads \X {"helper", "worker"}

TypeOK ==
  /\ lock \in {"absent", "empty", "helper"} \union Threads
  /\ handles \subseteq Writers
  /\ ready \in Package
  /\ queue \in Package
  /\ request \in [Threads -> {"none"} \union Requests]
  /\ pc \in [Threads -> {"idle", "acquire", "read", "unlink", "stamp",
                         "claim", "rename", "spawn", "record", "recording",
                         "switching", "release", "drop", "clear", "done"}]
  /\ tries \in [Threads -> 0 .. 1]
  /\ before \in [Threads -> Package]
  /\ worker \in [Threads -> {"none", "starting", "stamp", "checking",
                             "installing", "cleanup", "release", "zombie",
                             "dead"}]
  /\ upload \in [Uploads -> {"idle", "checked", "streaming", "done"}]
  /\ losses \in 0 .. MaxLosses
  /\ torn \in BOOLEAN

Init ==
  /\ lock = "absent"
  /\ handles = {}
  /\ ready = NoPackage
  /\ queue = NoPackage
  /\ request = [t \in Threads |-> "none"]
  /\ pc = [t \in Threads |-> "idle"]
  /\ tries = [t \in Threads |-> 0]
  /\ before = [t \in Threads |-> NoPackage]
  /\ worker = [t \in Threads |-> "none"]
  /\ upload = [u \in Uploads |-> "idle"]
  /\ losses = 0
  /\ torn = FALSE

-----------------------------------------------------------------------------
(* The lock file *)

Alive(t) == worker[t] \notin {"none", "zombie", "dead"}

\* Mutant: only the helper's own pid is recognised as running.
RunningHelperOnly(text) == text = "helper"

\* _pid_is_running: kill(pid, 0) also succeeds for a child that has ended
\* but was not waited for.
Running(text) ==
  text = "helper" \/ (text \in Threads /\ (Alive(text) \/ worker[text] = "zombie"))

\* _release_lock: whoever's lock it is.
Unlinked == lock' = "absent" /\ handles' = {}

\* write_text, first half: the file is created or emptied.
Opened(w) == lock' = "empty" /\ handles' = handles \union {w}

\* Second half: the text reaches the file that was opened, which may no
\* longer be the one the path names.
Written(w, text) ==
  /\ lock' = IF w \in handles THEN text ELSE lock
  /\ handles' = handles \ {w}

\* Starting a process lets subprocess wait for children that have ended.
Reaped(workers) ==
  [t \in Threads |-> IF workers[t] = "zombie" THEN "dead" ELSE workers[t]]

Goto(t, step) == pc' = [pc EXCEPT ![t] = step]

\* Where a thread goes on once it holds the lock.
Granted(t) == IF request[t] = "install" THEN "claim" ELSE "switching"

-----------------------------------------------------------------------------
(* Helper threads *)

Receive(t) ==
  /\ pc[t] = "idle"
  /\ \E r \in Requests :
       /\ request' = [request EXCEPT ![t] = r]
       /\ Goto(t, IF r = "cancel" THEN "read" ELSE "acquire")
  /\ UNCHANGED <<lockVars, ready, queue, tries, before, worker, upload, losses>>

\* O_CREAT | O_EXCL
AcquireOpens(t) ==
  /\ pc[t] = "acquire"
  /\ IF lock = "absent"
     THEN Goto(t, "stamp") /\ Opened(<<t, "helper">>)
     ELSE Goto(t, "read") /\ UNCHANGED lockVars
  /\ UNCHANGED <<ready, queue, request, tries, before, worker, upload, losses>>

\* Also the check of cancel_staged_firmware.  An absent or empty file reads
\* as pid -1, which is not running.
ReadsLock(t) ==
  /\ pc[t] = "read"
  /\ Goto(t, CASE Running(lock) -> "done"
               [] ~Running(lock) /\ request[t] # "cancel" -> "unlink"
               [] ~Running(lock) /\ request[t] = "cancel" ->
                    IF lock = "absent" THEN "clear" ELSE "drop")
  /\ UNCHANGED <<lockVars, ready, queue, request, tries, before, worker,
                 upload, losses>>

LastAttempt(t) == tries[t] = 1

AcquireUnlinks(t) ==
  /\ pc[t] = "unlink"
  /\ Unlinked
  /\ IF LastAttempt(t)
     THEN Goto(t, "done") /\ UNCHANGED tries
     ELSE Goto(t, "acquire") /\ tries' = [tries EXCEPT ![t] = @ + 1]
  /\ UNCHANGED <<ready, queue, request, before, worker, upload, losses>>

AcquireStamps(t) ==
  /\ pc[t] = "stamp"
  /\ Written(<<t, "helper">>, "helper")
  /\ Goto(t, Granted(t))
  /\ UNCHANGED <<ready, queue, request, tries, before, worker, upload, losses>>

\* _claim_staged up to the rename.
ClaimValidates(t) ==
  /\ pc[t] = "claim"
  /\ before' = [before EXCEPT ![t] = ready]
  /\ Goto(t, IF ready # NoPackage /\ queue = NoPackage THEN "rename" ELSE "release")
  /\ UNCHANGED <<lockVars, ready, queue, request, tries, worker, upload, losses>>

\* Mutant: the renamed file is not compared with the validated one.
AnyPackage(t) == TRUE

SamePackage(t) == ready = before[t]

\* The rename, and the comparison of the inode before and after it.
ClaimRenames(t) ==
  /\ pc[t] = "rename"
  /\ ready' = NoPackage
  /\ CASE ready = NoPackage ->
            Goto(t, "release") /\ UNCHANGED queue
       [] ready # NoPackage /\ SamePackage(t) ->
            Goto(t, "spawn") /\ queue' = ready
       [] ready # NoPackage /\ ~SamePackage(t) ->
            Goto(t, "release") /\ queue' = NoPackage
  /\ UNCHANGED <<lockVars, request, tries, before, worker, upload, losses>>

Spawn(t) ==
  /\ pc[t] = "spawn"
  /\ worker' = [Reaped(worker) EXCEPT ![t] = "starting"]
  /\ Goto(t, "record")
  /\ UNCHANGED <<lockVars, ready, queue, request, tries, before, upload, losses>>

\* The claimed package stays in the queue.
SpawnFails(t) ==
  /\ pc[t] = "spawn"
  /\ "spawn" \in Faults
  /\ Goto(t, "release")
  /\ UNCHANGED <<lockVars, ready, queue, request, tries, before, worker,
                 upload, losses>>

\* install_firmware hands the lock over to the worker.
Records(t) ==
  /\ pc[t] = "record"
  /\ Opened(<<t, "helper">>)
  /\ Goto(t, "recording")
  /\ UNCHANGED <<ready, queue, request, tries, before, worker, upload, losses>>

Recorded(t) ==
  /\ pc[t] = "recording"
  /\ Written(<<t, "helper">>, t)
  /\ Goto(t, "done")
  /\ UNCHANGED <<ready, queue, request, tries, before, worker, upload, losses>>

\* prepare_rollback between the two ends of its try block; it runs
\* fw_printenv, so ended children are waited for.
Switches(t) ==
  /\ pc[t] = "switching"
  /\ worker' = Reaped(worker)
  /\ Goto(t, "release")
  /\ UNCHANGED <<lockVars, ready, queue, request, tries, before, upload, losses>>

\* Mutant: a failed installation or switch keeps its lock.
KeepsLock(t) ==
  /\ pc[t] = "release"
  /\ Goto(t, "done")
  /\ UNCHANGED <<lockVars, ready, queue, request, tries, before, worker,
                 upload, losses>>

Releases(t) ==
  /\ pc[t] = "release"
  /\ Unlinked
  /\ Goto(t, "done")
  /\ UNCHANGED <<ready, queue, request, tries, before, worker, upload, losses>>

CancelDrops(t) ==
  /\ pc[t] = "drop"
  /\ Unlinked
  /\ Goto(t, "clear")
  /\ UNCHANGED <<ready, queue, request, tries, before, worker, upload, losses>>

CancelClears(t) ==
  /\ pc[t] = "clear"
  /\ ready' = NoPackage
  /\ queue' = NoPackage
  /\ Goto(t, "done")
  /\ UNCHANGED <<lockVars, request, tries, before, worker, upload, losses>>

\* Every other privileged operation runs a command and so reaps.
OtherCommand ==
  /\ \E t \in Threads : worker[t] = "zombie"
  /\ worker' = Reaped(worker)
  /\ UNCHANGED <<lockVars, ready, queue, threadVars, upload, losses>>

\* The helper is stopped in whatever it does and started again:
\* recover_interrupted_install removes a lock whose owner is gone.  Ended
\* workers were inherited, and reaped, by init; live ones go on.
HelperRestart ==
  /\ "restart" \in Faults
  /\ pc' = [t \in Threads |-> IF pc[t] = "idle" THEN "idle" ELSE "done"]
  /\ worker' = Reaped(worker)
  /\ IF lock \in Threads /\ Alive(lock)
     THEN UNCHANGED lock /\ handles' = {w \in handles : w[2] = "worker"}
     ELSE Unlinked
  /\ UNCHANGED <<ready, queue, request, tries, before, upload, losses>>

-----------------------------------------------------------------------------
(* Workers *)

Step(t, step) == worker' = [worker EXCEPT ![t] = step]

WorkerStarts(t) ==
  /\ worker[t] = "starting"
  /\ Opened(<<t, "worker">>)
  /\ Step(t, "stamp")
  /\ UNCHANGED <<ready, queue, threadVars, upload, losses>>

WorkerStamps(t) ==
  /\ worker[t] = "stamp"
  /\ Written(<<t, "worker">>, t)
  /\ Step(t, "checking")
  /\ UNCHANGED <<ready, queue, threadVars, upload, losses>>

\* Inspection and swupdate -c of the queued package.
WorkerChecks(t) ==
  /\ worker[t] = "checking"
  /\ \/ queue # NoPackage /\ Step(t, "installing")
     \/ Step(t, "cleanup")
  /\ UNCHANGED <<lockVars, ready, queue, threadVars, upload, losses>>

WorkerInstalls(t) ==
  /\ worker[t] = "installing"
  /\ Step(t, "cleanup")
  /\ UNCHANGED <<lockVars, ready, queue, threadVars, upload, losses>>

\* finally, whatever happened
WorkerCleans(t) ==
  /\ worker[t] = "cleanup"
  /\ queue' = NoPackage
  /\ Step(t, "release")
  /\ UNCHANGED <<lockVars, ready, threadVars, upload, losses>>

WorkerReleases(t) ==
  /\ worker[t] = "release"
  /\ Unlinked
  /\ Step(t, "zombie")
  /\ UNCHANGED <<ready, queue, threadVars, upload, losses>>

WorkerKilled(t) ==
  /\ "kill" \in Faults
  /\ Alive(t)
  /\ Step(t, "zombie")
  /\ handles' = handles \ {<<t, "worker">>}
  /\ UNCHANGED <<lock, ready, queue, threadVars, upload, losses>>

-----------------------------------------------------------------------------
(* Uploads: stage_upload *)

Proceed(u, step) == upload' = [upload EXCEPT ![u] = step]

\* The lock is looked at before _UPLOAD_LOCK is taken.
UploadChecks(u) ==
  /\ upload[u] = "idle"
  /\ Proceed(u, IF lock = "absent" THEN "checked" ELSE "done")
  /\ UNCHANGED <<lockVars, ready, queue, threadVars, worker, losses>>

\* A replacement invalidates the package staged before.
UploadBegins(u) ==
  /\ upload[u] = "checked"
  /\ IF \E v \in Uploads : upload[v] = "streaming"
     THEN Proceed(u, "done") /\ UNCHANGED ready
     ELSE Proceed(u, "streaming") /\ ready' = NoPackage
  /\ UNCHANGED <<lockVars, queue, threadVars, worker, losses>>

\* The rename of .part to .ready, or an end without it.
UploadEnds(u) ==
  /\ upload[u] = "streaming"
  /\ Proceed(u, "done")
  /\ ready' \in {u, ready}
  /\ UNCHANGED <<lockVars, queue, threadVars, worker, losses>>

PowerLoss ==
  /\ losses < MaxLosses
  /\ losses' = losses + 1
  /\ Unlinked
  /\ pc' = [t \in Threads |-> IF pc[t] = "idle" THEN "idle" ELSE "done"]
  /\ worker' = [t \in Threads |-> IF worker[t] = "none" THEN "none" ELSE "dead"]
  /\ upload' = [u \in Uploads |-> IF upload[u] = "idle" THEN "idle" ELSE "done"]
  /\ UNCHANGED <<ready, queue, request, tries, before>>

-----------------------------------------------------------------------------

Helper(t) ==
  \/ AcquireOpens(t) \/ ReadsLock(t) \/ AcquireUnlinks(t)
  \/ AcquireStamps(t) \/ ClaimValidates(t) \/ ClaimRenames(t)
  \/ Spawn(t) \/ SpawnFails(t) \/ Records(t) \/ Recorded(t)
  \/ Switches(t) \/ Releases(t) \/ CancelDrops(t) \/ CancelClears(t)

Worker(t) ==
  \/ WorkerStarts(t) \/ WorkerStamps(t) \/ WorkerChecks(t)
  \/ WorkerInstalls(t) \/ WorkerCleans(t) \/ WorkerReleases(t)

Upload(u) == UploadChecks(u) \/ UploadBegins(u) \/ UploadEnds(u)

Steps ==
  \/ \E t \in Threads : Receive(t) \/ Helper(t) \/ Worker(t) \/ WorkerKilled(t)
  \/ \E u \in Uploads : Upload(u)
  \/ OtherCommand \/ HelperRestart \/ PowerLoss

\* A helper thread relies on what it read in the lock, or still has to write
\* its text there.
Between(t) == pc[t] \in {"unlink", "stamp", "record", "recording", "drop", "clear"}

\* The lock changes under a process that is in the middle of an access, or
\* the helper is stopped with a worker started and its pid not recorded.
Spoils ==
  \E t \in Threads :
    \/ lockVars' # lockVars /\ Between(t) /\ pc'[t] = pc[t]
    \/ lockVars' # lockVars /\ worker[t] = "stamp" /\ worker'[t] = "stamp"
    \/ pc[t] \in {"record", "recording"} /\ pc'[t] = "done" /\ lock' # t /\ Alive(t)'

Next == Steps /\ torn' = (torn \/ Spoils)

Spec == Init /\ [][Next]_vars

\* Threads and processes are scheduled; nobody is obliged to ask for anything.
FairSpec ==
  /\ Spec
  /\ \A t \in Threads : WF_machine(Helper(t)) /\ WF_machine(Worker(t))

-----------------------------------------------------------------------------
(* Properties *)

\* An operation lasts from the thread's lock to the end of its worker.
Operating(t) ==
  \/ pc[t] \in {"claim", "rename", "spawn", "record", "recording", "switching"}
  \/ worker[t] \in {"starting", "stamp", "checking", "installing", "cleanup"}

OneOperation == Cardinality({t \in Threads : Operating(t)}) <= 1

\* Nobody replaces or removes the package a worker is installing: it is the
\* one its thread validated (test_firmware_installer.py:186).
QueueIntact ==
  \A t \in Threads : worker[t] = "installing" => queue = before[t]

\* Installations and manual switches exclude each other
\* (firmware-update-architecture.md:327, "operation exclusion"), and none
\* touches the package of another, as long as no access to the lock is
\* spoiled: the lock may be any process's, left by any that died.
OneAtATime == ~torn => OneOperation /\ QueueIntact

\* However lock accesses interleave, two workers never both install the
\* package they were started for: the rename is the claim
\* (persistent-data.md:78, "awaiting the installer's atomic claim").
ClaimedOnce ==
  /\ TypeOK
  /\ \A t, u \in Threads :
       t # u /\ worker[t] # "none" /\ worker[u] # "none" => before[t] # before[u]

\* Nobody running will remove the lock: a process died before it wrote its
\* pid, or the worker it names has ended.
OwnerGone ==
  \/ lock = "empty" /\ handles = {}
  \/ lock \in Threads /\ ~Alive(lock)

\* When all is done, no lock stays that names a process that runs on: the pid
\* of the helper itself would refuse every request until it is restarted.
NeverLockedOut ==
  (\A t \in Threads : pc[t] \in {"idle", "done"} /\ ~Alive(t)) =>
    lock = "absent" \/ OwnerGone

\* Every operation gives the lock back, or leaves one whose owner is gone and
\* which the next operation may take.
LockReleased ==
  lock # "absent" ~> lock = "absent" \/ OwnerGone

=============================================================================
