------------------------- MODULE HelperAndWebProofs -------------------------
(***************************************************************************)
(* The two programs of an upload: the privileged helper (InstallStaging)   *)
(* for any number of threads, uploads and losses of power, and the web     *)
(* process (WebAccess) for any number of request threads, clients and      *)
(* tokens, and every limit; each for every set of faults.                  *)
(*                                                                         *)
(* That no package is claimed twice holds however the file operations on   *)
(* the lock interleave: the rename alone sees to it.  That operations      *)
(* exclude each other is the work of the lock, and holds for as long as no *)
(* access to it is spoiled by another process.  The limiter's bound and    *)
(* the single use of a confirmation hold whatever fails.  That the tracker *)
(* follows the update holds where no confirmation is given during an       *)
(* update: the code does not refuse one, and a new tracker then takes the  *)
(* place of the one in use.  The web process also listens at the address   *)
(* of wlan0 (LanListener), for any addresses and changes.  The run         *)
(* "exclusion" shows all of it on small instances.                         *)
(***************************************************************************)
EXTENDS InstallStaging, WebAccess, LanListener, FiniteSetTheorems, TLAPS

-----------------------------------------------------------------------------
(* The privileged helper *)

(***************************************************************************)
(* The state is well typed.                                                *)
(***************************************************************************)
LEMMA InitTypes == Init => TypeOK
<1>1. Init => torn \in BOOLEAN
  BY DEF Init
<1>2. QED
  BY <1>1, LossesAssumption DEF Init, TypeOK, Package, Writers

LEMMA HelperTypes ==
  ASSUME TypeOK, torn' \in BOOLEAN, NEW t \in Threads, Receive(t) \/ Helper(t)
  PROVE  TypeOK'
<1> USE DEF TypeOK, lockVars, threadVars, Goto, Package
<1>1. CASE Receive(t)
  BY <1>1 DEF Receive
<1>2. CASE AcquireOpens(t) \/ ReadsLock(t)
  BY <1>2 DEF AcquireOpens, ReadsLock, Granted, Opened, Writers
<1>3. CASE AcquireUnlinks(t) \/ AcquireStamps(t)
  BY <1>3 DEF AcquireUnlinks, AcquireStamps, Unlinked, Written, LastAttempt, Granted
<1>4. CASE ClaimValidates(t) \/ ClaimRenames(t)
  BY <1>4 DEF ClaimValidates, ClaimRenames
<1>5. CASE Spawn(t) \/ SpawnFails(t) \/ Switches(t)
  BY <1>5 DEF Spawn, SpawnFails, Switches, Reaped
<1>6. CASE Records(t) \/ Recorded(t)
  BY <1>6 DEF Records, Recorded, Opened, Written, Writers
<1>7. CASE Releases(t) \/ CancelDrops(t) \/ CancelClears(t)
  BY <1>7 DEF Releases, CancelDrops, CancelClears, Unlinked
<1>8. QED
  BY <1>1, <1>2, <1>3, <1>4, <1>5, <1>6, <1>7 DEF Helper

LEMMA WorkerTypes ==
  ASSUME TypeOK, torn' \in BOOLEAN, NEW t \in Threads, Worker(t) \/ WorkerKilled(t)
  PROVE  TypeOK'
<1> USE DEF TypeOK, lockVars, threadVars, Step, Package
<1>1. CASE WorkerStarts(t) \/ WorkerStamps(t)
  BY <1>1 DEF WorkerStarts, WorkerStamps, Opened, Written, Writers
<1>2. CASE WorkerChecks(t) \/ WorkerInstalls(t) \/ WorkerCleans(t) \/ WorkerReleases(t)
  BY <1>2 DEF WorkerChecks, WorkerInstalls, WorkerCleans, WorkerReleases, Unlinked
<1>3. CASE WorkerKilled(t)
  BY <1>3 DEF WorkerKilled
<1>4. QED
  BY <1>1, <1>2, <1>3 DEF Worker

LEMMA OtherTypes ==
  ASSUME TypeOK, torn' \in BOOLEAN,
         \/ \E u \in Uploads : Upload(u)
         \/ OtherCommand \/ HelperRestart \/ PowerLoss \/ UNCHANGED machine
  PROVE  TypeOK'
<1> USE DEF TypeOK, lockVars, threadVars, Package
<1>1. CASE \E u \in Uploads : Upload(u)
  BY <1>1 DEF Upload, UploadChecks, UploadBegins, UploadEnds, Proceed
<1>2. CASE OtherCommand
  BY <1>2 DEF OtherCommand, Reaped
<1>3. CASE HelperRestart
  BY <1>3 DEF HelperRestart, Reaped, Unlinked
<1>4. CASE PowerLoss
  BY <1>4, LossesAssumption DEF PowerLoss, Unlinked
<1>5. CASE UNCHANGED machine
  BY <1>5 DEF machine
<1>6. QED
  BY <1>1, <1>2, <1>3, <1>4, <1>5

LEMMA StepOrStutter ==
  ASSUME [Next]_vars
  PROVE  Steps \/ UNCHANGED machine
BY DEF Next, vars

LEMMA NextTypes == TypeOK /\ [Next]_vars => TypeOK'
<1> SUFFICES ASSUME TypeOK, [Next]_vars PROVE TypeOK'
  OBVIOUS
<1>1. torn' \in BOOLEAN
  BY DEF Next, vars, TypeOK
<1>2. Steps \/ UNCHANGED machine
  BY StepOrStutter
<1>3. QED
  BY <1>1, <1>2, HelperTypes, WorkerTypes, OtherTypes DEF Steps

-----------------------------------------------------------------------------
(* The rename claims: each package is somewhere on its way once.           *)

(***************************************************************************)
(* The thread has renamed a package into the queue, or started a worker.   *)
(***************************************************************************)
Claimed(t) == pc[t] \in {"spawn", "record", "recording"} \/ worker[t] # "none"

(***************************************************************************)
(* A package is first an upload that has not ended, then it is staged,     *)
(* then one thread has it.                                                 *)
(***************************************************************************)
OneWay ==
  /\ \A t \in Threads :
       pc[t] \in {"idle", "acquire", "read", "unlink", "stamp", "claim", "rename", "spawn"}
         => worker[t] = "none"
  /\ \A u \in Uploads : upload[u] # "done" => ready # u /\ \A t \in Threads : Claimed(t) => before[t] # u
  /\ \A t \in Threads : Claimed(t) => before[t] # NoPackage /\ ready # before[t]
  /\ \A t, u \in Threads : t # u /\ Claimed(t) /\ Claimed(u) => before[t] # before[u]

LEMMA InitOneWay == Init => OneWay
BY NamesAssumption DEF Init, OneWay, Claimed

\* Steps that claim nothing and stage nothing.
LEMMA NothingClaimed ==
  ASSUME TypeOK, OneWay, UNCHANGED before,
         ready' \in {ready, NoPackage},
         \A u \in Uploads : upload'[u] # "done" => upload[u] # "done",
         \A t \in Threads : Claimed(t)' => Claimed(t),
         \A t \in Threads :
           pc'[t] \in {"idle", "acquire", "read", "unlink", "stamp", "claim", "rename", "spawn"}
             => worker'[t] = "none"
  PROVE  OneWay'
BY NamesAssumption DEF OneWay, TypeOK, Package

LEMMA HelperOneWay ==
  ASSUME TypeOK, OneWay, NEW t \in Threads, Receive(t) \/ Helper(t)
  PROVE  OneWay'
<1> USE DEF Goto
<1>1. CASE ClaimValidates(t)
  <2>1. ~Claimed(t) /\ UNCHANGED <<ready, upload, worker>>
    BY <1>1 DEF ClaimValidates, OneWay, Claimed
  <2>2. \A u \in Threads : u # t => before'[u] = before[u] /\ pc'[u] = pc[u] /\ Claimed(u)' = Claimed(u)
    BY <1>1 DEF ClaimValidates, TypeOK, Claimed
  <2>3. ~Claimed(t)' /\ worker[t] = "none"
    BY <1>1 DEF ClaimValidates, TypeOK, Claimed, OneWay
  <2>4. QED
    BY <2>1, <2>2, <2>3 DEF OneWay
<1>2. CASE ClaimRenames(t) /\ ready # NoPackage /\ SamePackage(t)
  <2>1. /\ ~Claimed(t) /\ UNCHANGED <<before, upload, worker>> /\ ready' = NoPackage
        /\ before[t] = ready /\ worker[t] = "none" /\ pc'[t] = "spawn"
    BY <1>2 DEF ClaimRenames, OneWay, Claimed, SamePackage, TypeOK
  <2>2. \A u \in Threads : u # t => pc'[u] = pc[u] /\ Claimed(u)' = Claimed(u)
    BY <1>2 DEF ClaimRenames, TypeOK, Claimed
  <2>3. \A u \in Uploads : upload[u] # "done" => before[t] # u
    BY <2>1 DEF OneWay
  <2>4. QED
    BY <1>2, <2>1, <2>2, <2>3, NamesAssumption DEF OneWay, TypeOK, Package
<1>3. CASE ClaimRenames(t) /\ ~(ready # NoPackage /\ SamePackage(t))
  <2>1. UNCHANGED <<before, upload, worker>> /\ ready' = NoPackage /\ pc'[t] = "release"
        /\ \A u \in Threads : u # t => pc'[u] = pc[u]
    BY <1>3 DEF ClaimRenames, TypeOK
  <2>2. \A u \in Threads : Claimed(u)' => Claimed(u)
    BY <2>1 DEF Claimed
  <2>3. QED
    BY <2>1, <2>2, NothingClaimed DEF OneWay
<1>4. CASE Spawn(t)
  <2>1. UNCHANGED <<ready, before, upload>> /\ Claimed(t) /\ pc'[t] = "record"
        /\ \A u \in Threads : u # t => pc'[u] = pc[u] /\ (worker'[u] = "none" <=> worker[u] = "none")
    BY <1>4 DEF Spawn, TypeOK, Claimed, Reaped
  <2>2. \A u \in Threads : Claimed(u)' => Claimed(u)
    BY <2>1 DEF Claimed
  <2>3. QED
    BY <2>1, <2>2, NothingClaimed DEF OneWay
<1>5. CASE Receive(t) \/ AcquireOpens(t) \/ ReadsLock(t) \/ AcquireUnlinks(t) \/ AcquireStamps(t)
  <2>1. UNCHANGED <<ready, before, upload, worker>>
        /\ pc[t] \in {"idle", "acquire", "read", "unlink", "stamp"}
        /\ pc'[t] \notin {"spawn", "record", "recording"}
        /\ \A u \in Threads : u # t => pc'[u] = pc[u]
    BY <1>5 DEF Receive, AcquireOpens, ReadsLock, AcquireUnlinks, AcquireStamps, TypeOK,
                Granted, Unlinked, Written, Opened
  <2>2. \A u \in Threads : Claimed(u)' => Claimed(u)
    BY <2>1 DEF Claimed
  <2>3. QED
    BY <2>1, <2>2, NothingClaimed DEF OneWay
<1>6. CASE SpawnFails(t) \/ Records(t) \/ Recorded(t) \/ Releases(t) \/ CancelDrops(t) \/ CancelClears(t)
  <2>1. /\ UNCHANGED <<before, upload, worker>> /\ ready' \in {ready, NoPackage}
        /\ pc'[t] \in {"recording", "release", "clear", "done"}
        /\ pc'[t] = "recording" => Claimed(t)
        /\ \A u \in Threads : u # t => pc'[u] = pc[u]
    BY <1>6 DEF SpawnFails, Records, Recorded, Releases, CancelDrops, CancelClears, TypeOK, Claimed,
                Unlinked, Written, Opened
  <2>2. \A u \in Threads : Claimed(u)' => Claimed(u)
    BY <2>1 DEF Claimed
  <2>3. QED
    BY <2>1, <2>2, NothingClaimed DEF OneWay
<1>7. CASE Switches(t)
  <2>1. /\ UNCHANGED <<before, upload, ready>> /\ pc'[t] = "release"
        /\ \A u \in Threads : /\ u # t => pc'[u] = pc[u]
                              /\ worker'[u] = "none" <=> worker[u] = "none"
    BY <1>7 DEF Switches, TypeOK, Reaped
  <2>2. \A u \in Threads : Claimed(u)' => Claimed(u)
    BY <2>1 DEF Claimed
  <2>3. QED
    BY <2>1, <2>2, NothingClaimed DEF OneWay
<1>8. QED
  BY <1>1, <1>2, <1>3, <1>4, <1>5, <1>6, <1>7 DEF Helper

LEMMA RestOneWay ==
  ASSUME TypeOK, OneWay,
         \/ \E t \in Threads : Worker(t) \/ WorkerKilled(t)
         \/ \E u \in Uploads : Upload(u)
         \/ OtherCommand \/ HelperRestart \/ PowerLoss \/ UNCHANGED machine
  PROVE  OneWay'
<1>1. CASE \E t \in Threads : Worker(t) \/ WorkerKilled(t)
  <2>1. PICK t \in Threads : Worker(t) \/ WorkerKilled(t)
    BY <1>1
  <2>2. UNCHANGED <<before, upload, ready, pc>> /\ worker[t] # "none" /\ worker'[t] # "none"
        /\ \A u \in Threads : u # t => worker'[u] = worker[u]
    BY <2>1 DEF Worker, WorkerKilled, WorkerStarts, WorkerStamps, WorkerChecks, WorkerInstalls,
                WorkerCleans, WorkerReleases, Step, threadVars, TypeOK, Alive
  <2>3. \A u \in Threads : Claimed(u)' => Claimed(u)
    BY <2>2 DEF Claimed
  <2>4. QED
    BY <2>2, <2>3, NothingClaimed DEF OneWay
<1>2. CASE \E u \in Uploads : UploadChecks(u) \/ UploadBegins(u)
  <2>1. UNCHANGED <<before, pc, worker>> /\ ready' \in {ready, NoPackage}
        /\ \A u \in Uploads : upload'[u] # "done" => upload[u] # "done"
    BY <1>2 DEF UploadChecks, UploadBegins, Proceed, threadVars, TypeOK
  <2>2. \A t \in Threads : Claimed(t)' => Claimed(t)
    BY <2>1 DEF Claimed
  <2>3. QED
    BY <2>1, <2>2, NothingClaimed DEF OneWay
<1>3. CASE \E u \in Uploads : UploadEnds(u)
  <2>1. PICK u \in Uploads : UploadEnds(u)
    BY <1>3
  <2>2. /\ UNCHANGED <<before, pc, worker>> /\ ready' \in {u, ready}
        /\ upload[u] = "streaming" /\ upload'[u] = "done"
        /\ \A v \in Uploads : v # u => upload'[v] = upload[v]
    BY <2>1 DEF UploadEnds, Proceed, threadVars, TypeOK
  <2>3. \A t \in Threads : Claimed(t)' = Claimed(t)
    BY <2>2 DEF Claimed
  <2>4. \A t \in Threads : Claimed(t) => before[t] # u
    BY <2>2 DEF OneWay
  <2>5. QED
    BY <2>2, <2>3, <2>4 DEF OneWay
<1>4. CASE OtherCommand \/ HelperRestart \/ PowerLoss \/ UNCHANGED machine
  <2>1. /\ UNCHANGED <<before, ready>>
        /\ \A u \in Uploads : upload'[u] # "done" => upload[u] # "done"
        /\ \A t \in Threads : /\ pc'[t] \in {pc[t], "done"}
                              /\ worker'[t] = "none" <=> worker[t] = "none"
    BY <1>4 DEF OtherCommand, HelperRestart, PowerLoss, machine, threadVars, Reaped, TypeOK
  <2>2. \A t \in Threads : Claimed(t)' => Claimed(t)
    BY <2>1 DEF Claimed
  <2>3. QED
    BY <2>1, <2>2, NothingClaimed DEF OneWay
<1>5. QED
  BY <1>1, <1>2, <1>3, <1>4 DEF Upload

(***************************************************************************)
(* However lock accesses interleave and whatever fails, two workers are    *)
(* never started for the same package.                                     *)
(***************************************************************************)
THEOREM NoPackageTwice == Spec => []ClaimedOnce
<1>1. Init => TypeOK /\ OneWay
  BY InitTypes, InitOneWay
<1>2. TypeOK /\ OneWay /\ [Next]_vars => (TypeOK /\ OneWay)'
  BY NextTypes, StepOrStutter, HelperOneWay, RestOneWay DEF Steps
<1>3. TypeOK /\ OneWay => ClaimedOnce
  BY DEF OneWay, Claimed, ClaimedOnce
<1>4. QED
  BY <1>1, <1>2, <1>3, PTL DEF Spec

-----------------------------------------------------------------------------
(* The lock excludes, as long as no access to it is spoiled.               *)

(***************************************************************************)
(* A thread starts its worker when it is through, and only a worker that   *)
(* was started has its pid in the lock, or the file open.                  *)
(***************************************************************************)
Started ==
  /\ \A t \in Threads : pc[t] \notin {"record", "recording", "done"} => worker[t] = "none"
  /\ \A t \in Threads : pc[t] \in {"record", "recording"} => worker[t] # "none"
  /\ lock \in Threads => worker[lock] # "none"
  /\ \A t \in Threads : <<t, "worker">> \in handles => worker[t] = "stamp"

Holds(t) == pc[t] \in {"claim", "rename", "spawn", "record", "switching", "release"}

\* A thread that created the lock and has not given it back, or its worker.
Owner(t) == Holds(t) \/ pc[t] \in {"stamp", "recording"} \/ Alive(t)

(***************************************************************************)
(* What the lock holds, by where its owner is: the helper's pid while the  *)
(* thread works, the worker's once it is recorded, and nothing while       *)
(* either writes.  Who found the lock's owner dead can still rely on it.   *)
(***************************************************************************)
Guarded(t) ==
  /\ Holds(t) => lock = "helper"
  /\ pc[t] \in {"stamp", "recording"} => lock = "empty" /\ <<t, "helper">> \in handles
  /\ worker[t] = "stamp" => pc[t] = "done" /\ lock = "empty" /\ <<t, "worker">> \in handles
  /\ worker[t] = "starting" => pc[t] \in {"record", "recording"} \/ (pc[t] = "done" /\ lock = t)
  /\ Alive(t) /\ worker[t] \notin {"starting", "stamp"} => pc[t] = "done" /\ lock = t
  /\ pc[t] \in {"unlink", "drop"} => ~Running(lock)
  /\ pc[t] = "clear" => lock = "absent"

Locked ==
  /\ \A t, u \in Threads : Owner(t) /\ Owner(u) => t = u
  /\ \A t \in Threads : Guarded(t)

(***************************************************************************)
(* Whoever claimed a package and has not cleaned up finds it in the queue. *)
(***************************************************************************)
Queued ==
  \A t \in Threads :
    pc[t] = "spawn" \/ worker[t] \in {"starting", "stamp", "checking", "installing"}
      => queue = before[t]

Excluded == Started /\ (~torn => Locked /\ Queued)

LEMMA InitExcluded == Init => Excluded
BY NamesAssumption DEF Init, Excluded, Started, Locked, Queued, Guarded, Owner, Holds, Alive

LEMMA HelperStarted ==
  ASSUME TypeOK, Started, NEW t \in Threads, Receive(t) \/ Helper(t)
  PROVE  Started'
<1> USE NamesAssumption DEF Goto, TypeOK, Started
<1>1. CASE Receive(t)
  BY <1>1 DEF Receive, lockVars
<1>2. CASE AcquireOpens(t) \/ ReadsLock(t)
  BY <1>2 DEF AcquireOpens, ReadsLock, Opened, lockVars
<1>3. CASE AcquireUnlinks(t)
  BY <1>3 DEF AcquireUnlinks, Unlinked
<1>4. CASE AcquireStamps(t)
  <2>1. /\ UNCHANGED worker /\ lock' \in {lock, "helper"} /\ handles' \subseteq handles
        /\ pc[t] = "stamp" /\ pc'[t] \in {"claim", "switching"}
        /\ \A u \in Threads : u # t => pc'[u] = pc[u]
    BY <1>4 DEF AcquireStamps, Written, Granted
  <2>2. QED
    BY <2>1
<1>5. CASE ClaimValidates(t) \/ ClaimRenames(t) \/ SpawnFails(t)
  BY <1>5 DEF ClaimValidates, ClaimRenames, SpawnFails, lockVars
<1>6. CASE Spawn(t) \/ Switches(t)
  <2>1. /\ UNCHANGED <<lock, handles>>
        /\ \A u \in Threads : u # t => pc'[u] = pc[u]
        /\ \A u \in Threads : \/ worker'[u] = worker[u]
                              \/ worker[u] = "zombie" /\ worker'[u] = "dead"
                              \/ u = t /\ pc[t] = "spawn" /\ worker'[t] = "starting"
        /\ \/ pc[t] = "spawn" /\ pc'[t] = "record" /\ worker'[t] = "starting"
           \/ pc[t] = "switching" /\ pc'[t] = "release"
    BY <1>6 DEF Spawn, Switches, Reaped, lockVars
  <2>2. QED
    BY <2>1
<1>7. CASE Records(t)
  BY <1>7 DEF Records, Opened
<1>8. CASE Recorded(t)
  <2>1. /\ UNCHANGED worker /\ lock' \in {lock, t} /\ handles' \subseteq handles
        /\ pc[t] = "recording" /\ pc'[t] = "done"
        /\ \A u \in Threads : u # t => pc'[u] = pc[u]
    BY <1>8 DEF Recorded, Written
  <2>2. QED
    BY <2>1
<1>9. CASE Releases(t) \/ CancelDrops(t) \/ CancelClears(t)
  BY <1>9 DEF Releases, CancelDrops, CancelClears, Unlinked, lockVars
<1>10. QED
  BY <1>1, <1>2, <1>3, <1>4, <1>5, <1>6, <1>7, <1>8, <1>9 DEF Helper

\* What every step of a worker does to it.
LEMMA WorkerMoves ==
  ASSUME TypeOK, Started, NEW t \in Threads, Worker(t) \/ WorkerKilled(t)
  PROVE  /\ Alive(t) /\ UNCHANGED <<pc, request, before, tries>> /\ worker'[t] # "none"
         /\ pc[t] \in {"record", "recording", "done"}
         /\ \A u \in Threads : u # t => worker'[u] = worker[u]
BY DEF Worker, WorkerKilled, WorkerStarts, WorkerStamps, WorkerChecks, WorkerInstalls,
       WorkerCleans, WorkerReleases, Step, threadVars, TypeOK, Alive, Started

LEMMA WorkerStarted ==
  ASSUME TypeOK, Started, NEW t \in Threads, Worker(t) \/ WorkerKilled(t)
  PROVE  Started'
<1>1. /\ lock' \in {lock, "absent", "empty", t}
      /\ \A u \in Threads : u # t /\ <<u, "worker">> \in handles' => <<u, "worker">> \in handles
      /\ <<t, "worker">> \in handles' => worker'[t] = "stamp"
  BY DEF Worker, WorkerKilled, WorkerStarts, WorkerStamps, WorkerChecks, WorkerInstalls,
         WorkerCleans, WorkerReleases, Step, lockVars, TypeOK, Alive, Opened, Written, Unlinked, Started
<1>2. QED
  BY <1>1, WorkerMoves, NamesAssumption DEF Started

LEMMA RestStarted ==
  ASSUME TypeOK, Started,
         \/ \E u \in Uploads : Upload(u)
         \/ OtherCommand \/ HelperRestart \/ PowerLoss \/ UNCHANGED machine
  PROVE  Started'
<1>1. /\ lock' \in {lock, "absent"} /\ handles' \subseteq handles
      /\ \A u \in Threads : /\ pc'[u] = pc[u] \/ (pc[u] # "idle" /\ pc'[u] = "done")
                            /\ worker'[u] = "none" <=> worker[u] = "none"
                            /\ worker[u] = "stamp" => worker'[u] = "stamp" \/ handles' = {}
  BY DEF Upload, UploadChecks, UploadBegins, UploadEnds, OtherCommand, HelperRestart, PowerLoss,
         machine, lockVars, threadVars, Reaped, Unlinked, TypeOK
<1>2. QED
  BY <1>1, NamesAssumption DEF Started

-----------------------------------------------------------------------------
(* Steps that spoil nothing.                                               *)

\* Who is in the middle of an access moves when the lock changes.
LEMMA Undisturbed ==
  ASSUME ~Spoils, lockVars' # lockVars, NEW u \in Threads
  PROVE  /\ Between(u) => pc'[u] # pc[u]
         /\ worker[u] = "stamp" => worker'[u] # "stamp"
BY DEF Spoils

\* A step that leaves the lock alone.
LEMMA Quiet ==
  ASSUME TypeOK, Locked, UNCHANGED lockVars, NEW t \in Threads,
         \A u \in Threads :
           u # t => pc'[u] = pc[u] /\ (worker'[u] = worker[u] \/ (worker[u] = "zombie" /\ worker'[u] = "dead")),
         Running(lock)' => Running(lock),
         Owner(t)' => Owner(t),
         Guarded(t)'
  PROVE  Locked'
<1>1. \A u \in Threads : u # t => (Holds(u)' <=> Holds(u)) /\ (Alive(u)' <=> Alive(u))
  BY DEF Holds, Alive
<1>2. \A u \in Threads : Owner(u)' => Owner(u)
  BY <1>1 DEF Owner
<1>3. \A u \in Threads : u # t => Guarded(u)'
  <2>1. TAKE u \in Threads
  <2>2. HAVE u # t
  <2>3. Guarded(u) /\ UNCHANGED <<lock, handles>>
    BY DEF Locked, lockVars
  <2>4. /\ pc'[u] = pc[u] /\ (Holds(u)' <=> Holds(u)) /\ (Alive(u)' <=> Alive(u))
        /\ worker'[u] \in {"stamp", "starting"} \/ Alive(u)' => worker'[u] = worker[u]
    BY <1>1, <2>2 DEF Alive
  <2>5. QED
    BY <2>3, <2>4 DEF Guarded, Alive
<1>4. QED
  BY <1>2, <1>3 DEF Locked

\* A step of the only owner, or towards one, that changes the lock.
LEMMA Sole ==
  ASSUME ~Spoils, lockVars' # lockVars, NEW t \in Threads,
         \A u \in Threads : u # t => pc'[u] = pc[u] /\ worker'[u] = worker[u] /\ ~Owner(u),
         Guarded(t)'
  PROVE  Locked'
<1>1. \A u \in Threads : u # t => ~Owner(u)' /\ ~Holds(u)' /\ ~Alive(u)'
  BY DEF Owner, Holds, Alive
<1>2. \A u \in Threads : u # t => ~Between(u)'
  BY Undisturbed DEF Between
<1>3. \A u \in Threads : u # t => Guarded(u)'
  BY <1>1, <1>2 DEF Guarded, Between, Alive
<1>4. QED
  BY <1>1, <1>3 DEF Locked

\* The lock may be taken when its owner is found dead.
LEMMA OwnerFree ==
  ASSUME Locked, ~Spoils, lockVars' # lockVars, NEW t \in Threads, ~Running(lock), UNCHANGED worker,
         \A u \in Threads : u # t => pc'[u] = pc[u]
  PROVE  \A u \in Threads : u # t => ~Owner(u)
<1>1. TAKE u \in Threads
<1>2. HAVE u # t
<1>3. ~Between(u) /\ worker[u] # "stamp"
  BY <1>2, Undisturbed
<1>4. ~Holds(u)
  BY DEF Locked, Guarded, Running
<1>5. Alive(u) => lock = u
  BY <1>3 DEF Locked, Guarded, Between
<1>6. ~Alive(u)
  BY <1>5 DEF Running
<1>7. QED
  BY <1>3, <1>4, <1>6 DEF Owner, Between

LEMMA NoLockNoOwner ==
  ASSUME Locked, lock = "absent"
  PROVE  \A u \in Threads : ~Owner(u)
<1>1. TAKE u \in Threads
<1>2. Guarded(u) /\ lock # u
  BY NamesAssumption DEF Locked
<1>3. ~Holds(u) /\ pc[u] \notin {"stamp", "recording", "record"}
  BY <1>2 DEF Guarded, Holds
<1>4. ~Alive(u)
  BY <1>2, <1>3 DEF Guarded
<1>5. QED
  BY <1>3, <1>4 DEF Owner

LEMMA HelperLocked ==
  ASSUME TypeOK, Started, Locked, ~Spoils, NEW t \in Threads, Receive(t) \/ Helper(t)
  PROVE  Locked'
<1> USE DEF Goto
<1>1. Guarded(t) /\ \A u \in Threads : Owner(t) /\ Owner(u) => t = u
  BY DEF Locked
<1>2. CASE Receive(t)
  <2>1. /\ UNCHANGED <<lock, handles, worker>> /\ pc[t] = "idle" /\ pc'[t] \in {"acquire", "read"}
        /\ worker[t] = "none"
        /\ \A u \in Threads : u # t => pc'[u] = pc[u]
    BY <1>2 DEF Receive, TypeOK, lockVars, Started
  <2>2. Guarded(t)' /\ ~Owner(t)' /\ (Running(lock)' <=> Running(lock))
    BY <2>1 DEF Guarded, Owner, Holds, Alive, Running
  <2>3. QED
    BY <2>1, <2>2, Quiet DEF lockVars
<1>3. CASE AcquireOpens(t) /\ lock = "absent"
  <2>1. /\ lock' = "empty" /\ <<t, "helper">> \in handles' /\ UNCHANGED worker
        /\ worker[t] = "none" /\ pc'[t] = "stamp"
        /\ \A u \in Threads : u # t => pc'[u] = pc[u]
    BY <1>3 DEF AcquireOpens, Opened, TypeOK, Started
  <2>2. Guarded(t)'
    BY <2>1 DEF Guarded, Holds, Alive
  <2>3. lockVars' # lockVars
    BY <1>3, <2>1 DEF lockVars
  <2>4. QED
    BY <1>3, <2>1, <2>2, <2>3, NoLockNoOwner, Sole
<1>4. CASE (AcquireOpens(t) /\ lock # "absent") \/ ReadsLock(t)
  <2>1. /\ UNCHANGED <<lock, handles, worker>> /\ worker[t] = "none"
        /\ pc'[t] \in {"read", "done", "unlink", "clear", "drop"}
        /\ pc'[t] \in {"unlink", "drop"} => ~Running(lock)
        /\ pc'[t] = "clear" => lock = "absent"
        /\ \A u \in Threads : u # t => pc'[u] = pc[u]
    BY <1>4 DEF AcquireOpens, ReadsLock, TypeOK, lockVars, Started
  <2>2. Guarded(t)' /\ ~Owner(t)' /\ (Running(lock)' <=> Running(lock))
    BY <2>1 DEF Guarded, Owner, Holds, Alive, Running
  <2>3. QED
    BY <2>1, <2>2, Quiet DEF lockVars
<1>5. CASE AcquireUnlinks(t) \/ CancelDrops(t)
  <2>1. /\ lock' = "absent" /\ UNCHANGED worker /\ worker[t] = "none" /\ ~Running(lock)
        /\ pc'[t] \in {"done", "acquire", "clear"}
        /\ \A u \in Threads : u # t => pc'[u] = pc[u]
    BY <1>1, <1>5 DEF AcquireUnlinks, CancelDrops, Unlinked, TypeOK, Started, Guarded
  <2>2. Guarded(t)' /\ ~Owner(t)'
    BY <2>1 DEF Guarded, Owner, Holds, Alive
  <2>3. ~Running(lock)'
    BY <2>1, NamesAssumption DEF Running
  <2>4. CASE lockVars' = lockVars
    BY <2>1, <2>2, <2>3, <2>4, Quiet
  <2>5. CASE lockVars' # lockVars
    BY <2>1, <2>2, <2>5, OwnerFree, Sole
  <2>6. QED
    BY <2>4, <2>5
<1>6. CASE AcquireStamps(t)
  <2>1. /\ pc[t] = "stamp" /\ lock = "empty" /\ lock' = "helper" /\ UNCHANGED worker /\ worker[t] = "none"
        /\ pc'[t] \in {"claim", "switching"}
        /\ \A u \in Threads : u # t => pc'[u] = pc[u]
    BY <1>1, <1>6 DEF AcquireStamps, Written, Granted, TypeOK, Started, Guarded
  <2>2. Guarded(t)'
    BY <2>1 DEF Guarded, Holds, Alive
  <2>3. \A u \in Threads : u # t => ~Owner(u)
    BY <1>1, <2>1 DEF Owner
  <2>4. lockVars' # lockVars
    BY <2>1 DEF lockVars
  <2>5. QED
    BY <2>1, <2>2, <2>3, <2>4, Sole
<1>7. CASE ClaimValidates(t) \/ ClaimRenames(t) \/ SpawnFails(t)
  <2>1. /\ UNCHANGED <<lock, handles, worker>> /\ worker[t] = "none" /\ Holds(t) /\ Holds(t)'
        /\ pc'[t] \in {"rename", "spawn", "release"}
        /\ \A u \in Threads : u # t => pc'[u] = pc[u]
    BY <1>7 DEF ClaimValidates, ClaimRenames, SpawnFails, TypeOK, lockVars, Started, Holds
  <2>2. Guarded(t)' /\ Owner(t) /\ (Running(lock)' <=> Running(lock))
    BY <1>1, <2>1 DEF Guarded, Owner, Alive, Running
  <2>3. QED
    BY <2>1, <2>2, Quiet DEF lockVars
<1>8. CASE Spawn(t) \/ Switches(t)
  <2>1. /\ UNCHANGED <<lock, handles>> /\ Holds(t) /\ Holds(t)'
        /\ \/ pc'[t] = "record" /\ worker'[t] = "starting"
           \/ pc'[t] = "release" /\ worker'[t] = "none"
        /\ \A u \in Threads : u # t => /\ pc'[u] = pc[u]
                                       /\ \/ worker'[u] = worker[u]
                                          \/ worker[u] = "zombie" /\ worker'[u] = "dead"
    BY <1>8 DEF Spawn, Switches, Reaped, TypeOK, lockVars, Started, Holds
  <2>2. lock = "helper"
    BY <1>1, <2>1 DEF Guarded
  <2>3. Guarded(t)' /\ Owner(t) /\ Running(lock)
    BY <2>1, <2>2 DEF Guarded, Owner, Alive, Running
  <2>4. QED
    BY <2>1, <2>3, Quiet DEF lockVars
<1>9. CASE Records(t)
  <2>1. /\ pc[t] = "record" /\ lock = "helper" /\ lock' = "empty" /\ <<t, "helper">> \in handles'
        /\ UNCHANGED worker /\ pc'[t] = "recording"
        /\ \A u \in Threads : u # t => pc'[u] = pc[u]
    BY <1>1, <1>9 DEF Records, Opened, TypeOK, Guarded, Holds
  <2>2. worker[t] \notin {"stamp", "checking", "installing", "cleanup", "release"}
    BY <1>1, <2>1 DEF Guarded, Alive
  <2>3. Guarded(t)'
    BY <2>1, <2>2 DEF Guarded, Holds, Alive, TypeOK
  <2>4. \A u \in Threads : u # t => ~Owner(u)
    BY <1>1, <2>1 DEF Owner, Holds
  <2>5. lockVars' # lockVars
    BY <2>1 DEF lockVars
  <2>6. QED
    BY <2>1, <2>3, <2>4, <2>5, Sole
<1>10. CASE Recorded(t)
  <2>1. /\ pc[t] = "recording" /\ lock = "empty" /\ lock' = t /\ UNCHANGED worker /\ pc'[t] = "done"
        /\ \A u \in Threads : u # t => pc'[u] = pc[u]
    BY <1>1, <1>10 DEF Recorded, Written, TypeOK, Guarded
  <2>2. worker[t] # "stamp"
    BY <1>1, <2>1 DEF Guarded
  <2>3. Guarded(t)'
    BY <2>1, <2>2 DEF Guarded, Holds
  <2>4. \A u \in Threads : u # t => ~Owner(u)
    BY <1>1, <2>1 DEF Owner
  <2>5. lockVars' # lockVars
    BY <2>1, NamesAssumption DEF lockVars
  <2>6. QED
    BY <2>1, <2>3, <2>4, <2>5, Sole
<1>11. CASE Releases(t)
  <2>1. /\ pc[t] = "release" /\ lock = "helper" /\ lock' = "absent" /\ UNCHANGED worker
        /\ worker[t] = "none" /\ pc'[t] = "done"
        /\ \A u \in Threads : u # t => pc'[u] = pc[u]
    BY <1>1, <1>11 DEF Releases, Unlinked, TypeOK, Guarded, Holds, Started
  <2>2. Guarded(t)'
    BY <2>1 DEF Guarded, Holds, Alive
  <2>3. \A u \in Threads : u # t => ~Owner(u)
    BY <1>1, <2>1 DEF Owner, Holds
  <2>4. lockVars' # lockVars
    BY <2>1 DEF lockVars
  <2>5. QED
    BY <2>1, <2>2, <2>3, <2>4, Sole
<1>12. CASE CancelClears(t)
  <2>1. /\ UNCHANGED <<lock, handles, worker>> /\ worker[t] = "none" /\ pc'[t] = "done"
        /\ \A u \in Threads : u # t => pc'[u] = pc[u]
    BY <1>12 DEF CancelClears, TypeOK, lockVars, Started
  <2>2. Guarded(t)' /\ ~Owner(t)' /\ (Running(lock)' <=> Running(lock))
    BY <2>1 DEF Guarded, Owner, Holds, Alive, Running
  <2>3. QED
    BY <2>1, <2>2, Quiet DEF lockVars
<1>13. QED
  BY <1>2, <1>3, <1>4, <1>5, <1>6, <1>7, <1>8, <1>9, <1>10, <1>11, <1>12 DEF Helper

LEMMA WorkerLocked ==
  ASSUME TypeOK, Started, Locked, ~Spoils, NEW t \in Threads, Worker(t) \/ WorkerKilled(t)
  PROVE  Locked'
<1>1. /\ Alive(t) /\ Guarded(t) /\ UNCHANGED pc /\ pc[t] \in {"record", "recording", "done"}
      /\ \A u \in Threads : u # t => worker'[u] = worker[u] /\ ~Owner(u)
  BY WorkerMoves DEF Locked, Owner
<1>2. CASE WorkerKilled(t)
  <2>1. /\ worker'[t] = "zombie" /\ lock' = lock /\ handles' = handles \ {<<t, "worker">>}
    BY <1>2 DEF WorkerKilled, Step, TypeOK
  <2>2. <<t, "helper">> \in handles => <<t, "helper">> \in handles'
    BY <2>1
  <2>3. Guarded(t)'
    BY <1>1, <2>1, <2>2 DEF Guarded, Holds, Alive
  <2>4. Running(lock)' => Running(lock)
    BY <1>1, <2>1 DEF Running, Alive
  <2>5. CASE lockVars' = lockVars
    BY <1>1, <2>3, <2>4, <2>5, Quiet DEF Owner
  <2>6. CASE lockVars' # lockVars
    BY <1>1, <2>3, <2>6, Sole
  <2>7. QED
    BY <2>5, <2>6
<1>3. CASE WorkerStarts(t)
  <2>1. /\ worker[t] = "starting" /\ worker'[t] = "stamp" /\ lock' = "empty"
        /\ <<t, "worker">> \in handles' /\ <<t, "worker">> \notin handles
    BY <1>3 DEF WorkerStarts, Opened, Step, TypeOK, Started
  <2>2. lockVars' # lockVars
    BY <2>1 DEF lockVars
  <2>3. pc[t] = "done"
    BY <1>1, <2>2, Undisturbed DEF Between
  <2>4. Guarded(t)'
    BY <1>1, <2>1, <2>3 DEF Guarded, Holds, Alive
  <2>5. QED
    BY <1>1, <2>2, <2>4, Sole
<1>4. CASE WorkerStamps(t)
  <2>1. /\ worker[t] = "stamp" /\ pc[t] = "done" /\ lock = "empty" /\ lock' = t /\ worker'[t] = "checking"
    BY <1>1, <1>4 DEF WorkerStamps, Written, Step, TypeOK, Guarded
  <2>2. lockVars' # lockVars
    BY <2>1, NamesAssumption DEF lockVars
  <2>3. Guarded(t)'
    BY <1>1, <2>1 DEF Guarded, Holds
  <2>4. QED
    BY <1>1, <2>2, <2>3, Sole
<1>5. CASE WorkerChecks(t) \/ WorkerInstalls(t) \/ WorkerCleans(t)
  <2>1. /\ UNCHANGED <<lock, handles>> /\ worker[t] \notin {"starting", "stamp"}
        /\ worker'[t] \in {"installing", "cleanup", "release"}
    BY <1>5 DEF WorkerChecks, WorkerInstalls, WorkerCleans, Step, lockVars, TypeOK
  <2>2. pc[t] = "done" /\ lock = t
    BY <1>1, <2>1 DEF Guarded
  <2>3. Guarded(t)' /\ Running(lock) /\ Owner(t)
    BY <1>1, <2>1, <2>2 DEF Guarded, Holds, Running, Owner
  <2>4. QED
    BY <1>1, <2>1, <2>3, Quiet DEF lockVars
<1>6. CASE WorkerReleases(t)
  <2>1. /\ worker[t] = "release" /\ worker'[t] = "zombie" /\ lock' = "absent"
    BY <1>6 DEF WorkerReleases, Unlinked, Step, TypeOK
  <2>2. pc[t] = "done" /\ lock = t
    BY <1>1, <2>1 DEF Guarded
  <2>3. Guarded(t)'
    BY <1>1, <2>1, <2>2 DEF Guarded, Holds, Alive
  <2>4. lockVars' # lockVars
    BY <2>1, <2>2, NamesAssumption DEF lockVars
  <2>5. QED
    BY <1>1, <2>3, <2>4, Sole
<1>7. QED
  BY <1>2, <1>3, <1>4, <1>5, <1>6 DEF Worker

LEMMA RestLocked ==
  ASSUME TypeOK, Started, Locked, ~Spoils,
         \/ \E u \in Uploads : Upload(u)
         \/ OtherCommand \/ HelperRestart \/ PowerLoss \/ UNCHANGED machine
  PROVE  Locked'
<1>1. CASE (\E u \in Uploads : Upload(u)) \/ UNCHANGED machine
  <2>1. UNCHANGED <<lock, handles, pc, worker>>
    BY <1>1 DEF Upload, UploadChecks, UploadBegins, UploadEnds, machine, lockVars, threadVars
  <2>2. QED
    BY <2>1 DEF Locked, Guarded, Owner, Holds, Alive, Running
<1>2. CASE OtherCommand
  <2>1. PICK t \in Threads : worker[t] = "zombie"
    BY <1>2 DEF OtherCommand
  <2>2. /\ UNCHANGED <<lock, handles, pc>>
        /\ \A u \in Threads : worker'[u] = worker[u] \/ (worker[u] = "zombie" /\ worker'[u] = "dead")
    BY <1>2 DEF OtherCommand, Reaped, lockVars, threadVars, TypeOK
  <2>3. Running(lock)' => Running(lock)
    BY <2>2 DEF Running, Alive
  <2>4. ~Alive(t) /\ ~Alive(t)' /\ worker'[t] \in {"zombie", "dead"}
    BY <2>1, <2>2 DEF Alive
  <2>5. Guarded(t)
    BY DEF Locked
  <2>6. Guarded(t)' /\ (Owner(t)' => Owner(t))
    BY <2>2, <2>3, <2>4, <2>5 DEF Guarded, Owner, Holds, Alive
  <2>7. QED
    BY <2>2, <2>3, <2>6, Quiet DEF lockVars
<1>3. CASE HelperRestart
  <2>1. \A u \in Threads : /\ pc'[u] = IF pc[u] = "idle" THEN "idle" ELSE "done"
                           /\ worker'[u] = worker[u] \/ (worker[u] = "zombie" /\ worker'[u] = "dead")
    BY <1>3 DEF HelperRestart, Reaped, TypeOK
  <2>2. \A u \in Threads : (Owner(u)' <=> Alive(u)') /\ (Alive(u)' <=> Alive(u)) /\ ~Holds(u)'
    BY <2>1 DEF Owner, Holds, Alive
  <2>3. CASE lock \in Threads /\ Alive(lock)
    <3>1. lock' = lock
      BY <1>3, <2>3 DEF HelperRestart
    <3>2. lock # "empty" /\ lock # "helper"
      BY <2>3, NamesAssumption
    <3>3. \A u \in Threads : Guarded(u)'
      BY <2>1, <2>2, <3>1, <3>2 DEF Locked, Guarded, Holds, Alive
    <3>4. QED
      BY <2>2, <3>3 DEF Locked, Owner
  <2>4. CASE ~(lock \in Threads /\ Alive(lock))
    <3>1. lock' = "absent"
      BY <1>3, <2>4 DEF HelperRestart, Unlinked
    <3>2. \A u \in Threads : ~Alive(u)
      <4>1. TAKE u \in Threads
      <4>2. SUFFICES ASSUME Alive(u) PROVE FALSE
        OBVIOUS
      <4>3. Guarded(u) /\ lock # u
        BY <2>4, <4>2 DEF Locked
      <4>4. pc[u] \in {"record", "recording"} \/ worker[u] = "stamp"
        BY <4>2, <4>3 DEF Guarded
      <4>5. worker'[u] = worker[u] /\ Alive(u)' /\ lock' # u
        BY <2>1, <2>2, <3>1, <4>2, NamesAssumption DEF Alive
      <4>6. CASE pc[u] \in {"record", "recording"}
        <5>1. pc'[u] = "done"
          BY <2>1, <4>6
        <5>2. QED
          BY <4>5, <4>6, <5>1 DEF Spoils
      <4>7. CASE worker[u] = "stamp"
        <5>1. lockVars' # lockVars
          BY <3>1, <4>3, <4>7 DEF Guarded, lockVars
        <5>2. QED
          BY <4>5, <4>7, <5>1, Undisturbed
      <4>8. QED
        BY <4>4, <4>6, <4>7
    <3>3. \A u \in Threads : ~Owner(u)' /\ Guarded(u)'
      BY <2>1, <2>2, <3>2 DEF Guarded, Alive
    <3>4. QED
      BY <3>3 DEF Locked
  <2>5. QED
    BY <2>3, <2>4
<1>4. CASE PowerLoss
  <2>1. \A u \in Threads : /\ pc'[u] = IF pc[u] = "idle" THEN "idle" ELSE "done"
                           /\ worker'[u] = IF worker[u] = "none" THEN "none" ELSE "dead"
    BY <1>4 DEF PowerLoss
  <2>2. \A u \in Threads : ~Holds(u)' /\ ~Alive(u)' /\ pc'[u] \in {"idle", "done"}
    BY <2>1 DEF Holds, Alive
  <2>3. QED
    BY <2>1, <2>2 DEF Locked, Guarded, Owner, Alive
<1>5. QED
  BY <1>1, <1>2, <1>3, <1>4

-----------------------------------------------------------------------------
(* The package in the queue                                                *)

Working(t) == pc[t] = "spawn" \/ worker[t] \in {"starting", "stamp", "checking", "installing"}

LEMMA WorkingOwns == \A t \in Threads : Working(t) => Owner(t)
BY DEF Working, Owner, Holds, Alive

LEMMA StepQueued ==
  ASSUME TypeOK, Started, Locked, Queued, Steps \/ UNCHANGED machine
  PROVE  Queued'
<1>1. ASSUME NEW t \in Threads, ClaimValidates(t)
      PROVE  Queued'
  <2>1. UNCHANGED <<queue, worker>> /\ worker[t] = "none" /\ pc'[t] # "spawn"
        /\ \A u \in Threads : u # t => before'[u] = before[u] /\ pc'[u] = pc[u]
    BY <1>1 DEF ClaimValidates, Goto, TypeOK, Started
  <2>2. QED
    BY <2>1 DEF Queued
<1>2. ASSUME NEW t \in Threads, ClaimRenames(t)
      PROVE  Queued'
  <2>1. UNCHANGED <<before, worker>> /\ pc[t] = "rename" /\ worker[t] = "none"
        /\ (pc'[t] = "spawn" => queue' = before[t])
        /\ \A u \in Threads : u # t => pc'[u] = pc[u]
    BY <1>2 DEF ClaimRenames, SamePackage, Goto, TypeOK, Started
  <2>2. \A u \in Threads : u # t => ~Working(u)
    BY <2>1, WorkingOwns DEF Locked, Owner, Holds
  <2>3. QED
    BY <2>1, <2>2 DEF Queued, Working
<1>3. ASSUME NEW t \in Threads, WorkerCleans(t)
      PROVE  Queued'
  <2>1. UNCHANGED <<before, pc>> /\ worker[t] = "cleanup" /\ worker'[t] = "release" /\ pc[t] # "spawn"
        /\ \A u \in Threads : u # t => worker'[u] = worker[u]
    BY <1>3 DEF WorkerCleans, Step, threadVars, TypeOK, Started
  <2>2. \A u \in Threads : u # t => ~Working(u)
    BY <2>1, WorkingOwns DEF Locked, Owner, Alive
  <2>3. QED
    BY <2>1, <2>2 DEF Queued, Working
<1>4. ASSUME NEW t \in Threads, CancelClears(t)
      PROVE  Queued'
  <2>1. UNCHANGED <<before, worker>> /\ pc[t] = "clear" /\ pc'[t] = "done"
        /\ \A u \in Threads : u # t => pc'[u] = pc[u]
    BY <1>4 DEF CancelClears, Goto, TypeOK
  <2>2. \A u \in Threads : ~Working(u)
    BY <2>1, NoLockNoOwner, WorkingOwns DEF Locked, Guarded
  <2>3. QED
    BY <2>1, <2>2 DEF Queued, Working
<1>5. ASSUME NEW t \in Threads, Spawn(t)
      PROVE  Queued'
  <2>1. UNCHANGED <<before, queue>> /\ pc[t] = "spawn" /\ pc'[t] = "record"
        /\ \A u \in Threads : u # t => pc'[u] = pc[u] /\ worker'[u] \in {worker[u], "dead"}
    BY <1>5 DEF Spawn, Reaped, Goto, TypeOK
  <2>2. QED
    BY <2>1 DEF Queued
<1>6. ASSUME NEW t \in Threads,
             \/ Receive(t) \/ AcquireOpens(t) \/ ReadsLock(t) \/ AcquireUnlinks(t) \/ AcquireStamps(t)
             \/ SpawnFails(t) \/ Records(t) \/ Recorded(t) \/ Switches(t) \/ Releases(t) \/ CancelDrops(t)
      PROVE  Queued'
  <2>1. UNCHANGED <<before, queue>> /\ pc'[t] # "spawn"
        /\ \A u \in Threads : /\ u # t => pc'[u] = pc[u]
                              /\ worker'[u] \in {worker[u], "dead"}
    BY <1>6 DEF Receive, AcquireOpens, ReadsLock, AcquireUnlinks, AcquireStamps, SpawnFails, Records,
                Recorded, Switches, Releases, CancelDrops, Granted, Reaped, Goto, TypeOK
  <2>2. QED
    BY <2>1 DEF Queued
<1>7. ASSUME NEW t \in Threads, Worker(t) \/ WorkerKilled(t), ~WorkerCleans(t)
      PROVE  Queued'
  <2>1. /\ UNCHANGED <<before, queue, pc>>
        /\ worker'[t] \in {"starting", "stamp", "checking", "installing"}
             => worker[t] \in {"starting", "stamp", "checking", "installing"}
        /\ \A u \in Threads : u # t => worker'[u] = worker[u]
    BY <1>7 DEF Worker, WorkerKilled, WorkerStarts, WorkerStamps, WorkerChecks, WorkerInstalls,
                WorkerReleases, Step, threadVars, TypeOK
  <2>2. QED
    BY <2>1 DEF Queued
<1>8. ASSUME \/ \E u \in Uploads : Upload(u)
             \/ OtherCommand \/ HelperRestart \/ PowerLoss \/ UNCHANGED machine
      PROVE  Queued'
  <2>1. UNCHANGED <<before, queue>>
        /\ \A t \in Threads : /\ pc'[t] \in {pc[t], "idle", "done"}
                              /\ worker'[t] \in {worker[t], "none", "dead"}
    BY <1>8 DEF Upload, UploadChecks, UploadBegins, UploadEnds, OtherCommand, HelperRestart, PowerLoss,
                machine, threadVars, Reaped, TypeOK
  <2>2. QED
    BY <2>1 DEF Queued
<1>9. QED
  BY <1>1, <1>2, <1>3, <1>4, <1>5, <1>6, <1>7, <1>8 DEF Steps, Helper, Worker

LEMMA NextExcluded == TypeOK /\ Excluded /\ [Next]_vars => Excluded'
<1> SUFFICES ASSUME TypeOK, Excluded, [Next]_vars PROVE Excluded'
  OBVIOUS
<1>1. Steps \/ UNCHANGED machine
  BY StepOrStutter
<1>2. Started'
  BY <1>1, HelperStarted, WorkerStarted, RestStarted DEF Excluded, Steps
<1>3. ASSUME ~torn'
      PROVE  (Locked /\ Queued)'
  <2>1. CASE Next
    <3>1. ~torn /\ ~Spoils
      BY <1>3, <2>1, Zenon DEF Next
    <3>2. QED
      BY <1>1, <3>1, HelperLocked, WorkerLocked, RestLocked, StepQueued DEF Excluded, Steps
  <2>2. CASE UNCHANGED vars
    <3>1. ~torn /\ UNCHANGED machine
      BY <1>3, <2>2 DEF vars
    <3>2. ~Spoils
      BY <3>1 DEF machine, lockVars, threadVars, Spoils
    <3>3. QED
      BY <3>1, <3>2, RestLocked, StepQueued DEF Excluded
  <2>3. QED
    BY <2>1, <2>2
<1>4. QED
  BY <1>2, <1>3, Zenon DEF Excluded

(***************************************************************************)
(* As long as no access to the lock is spoiled, installations and manual   *)
(* switches exclude each other, and a worker installs the package its      *)
(* thread validated, whoever else installs or cancels, for any number of   *)
(* threads, whoever is killed or restarted.                                *)
(***************************************************************************)
THEOREM OperationsExclude == Spec => []OneAtATime
<1>1. Init => TypeOK /\ Excluded
  BY InitTypes, InitExcluded
<1>2. TypeOK /\ Excluded /\ [Next]_vars => (TypeOK /\ Excluded)'
  BY NextTypes, NextExcluded
<1>3. ASSUME TypeOK, Excluded, ~torn PROVE OneOperation /\ QueueIntact
  <2> DEFINE operating == {t \in Threads : Operating(t)}
  <2>1. \A t, u \in operating : t = u
    <3>1. \A t \in Threads : Operating(t) => Owner(t)
      BY DEF Operating, Owner, Holds, Alive
    <3>2. QED
      BY <1>3, <3>1 DEF Excluded, Locked
  <2>2. Cardinality(operating) <= 1
    <3> HIDE DEF operating
    <3>1. CASE operating = {}
      BY <3>1, FS_EmptySet
    <3>2. CASE operating # {}
      <4>1. PICK t \in operating : TRUE
        BY <3>2
      <4>2. operating = {t}
        BY <2>1, <4>1
      <4>3. Cardinality({t}) = 1
        BY FS_Singleton
      <4>4. QED
        BY <4>2, <4>3
    <3>3. QED
      BY <3>1, <3>2
  <2>3. QueueIntact
    BY <1>3 DEF Excluded, Queued, QueueIntact
  <2>4. QED
    BY <2>2, <2>3 DEF OneOperation
<1>4. TypeOK /\ Excluded => OneAtATime
  BY <1>3, Zenon DEF OneAtATime
<1>5. QED
  BY <1>1, <1>2, <1>4, PTL DEF Spec

-----------------------------------------------------------------------------
(* Who has to write or remove the lock, however accesses to it interleave. *)

(***************************************************************************)
(* The lock names the helper only while one of its threads holds it, and   *)
(* is open only to those that are about to write to it.                    *)
(***************************************************************************)
InHand ==
  /\ lock = "helper" => \E t \in Threads : Holds(t)
  /\ \A t \in Threads :
       /\ <<t, "helper">> \in handles => pc[t] \in {"stamp", "recording"}
       /\ <<t, "worker">> \in handles => worker[t] = "stamp"

LEMMA InitInHand == Init => InHand
BY DEF Init, InHand

\* Steps that leave the lock alone.
LEMMA LockInHand ==
  ASSUME InHand, UNCHANGED lockVars,
         \A t \in Threads :
           /\ Holds(t) => Holds(t)'
           /\ pc[t] \in {"stamp", "recording"} => pc'[t] = pc[t]
           /\ worker[t] = "stamp" => worker'[t] = "stamp"
  PROVE  InHand'
BY DEF InHand, lockVars

LEMMA HelperInHand ==
  ASSUME TypeOK, OneWay, InHand, NEW t \in Threads, Receive(t) \/ Helper(t)
  PROVE  InHand'
<1> USE DEF TypeOK, Goto
<1>1. CASE Receive(t) \/ ReadsLock(t)
  BY <1>1, LockInHand DEF Receive, ReadsLock, Holds
<1>2. CASE ClaimValidates(t) \/ ClaimRenames(t) \/ SpawnFails(t)
  BY <1>2, LockInHand DEF ClaimValidates, ClaimRenames, SpawnFails, Holds
<1>3. CASE Spawn(t) \/ Switches(t)
  <2>1. /\ UNCHANGED lockVars /\ Holds(t)' /\ \A u \in Threads : u # t => pc'[u] = pc[u]
        /\ pc[t] \in {"spawn", "switching"}
    BY <1>3 DEF Spawn, Switches, Holds
  <2>2. \A u \in Threads : worker[u] = "stamp" => worker'[u] = "stamp"
    <3>1. pc[t] = "spawn" => worker[t] = "none"
      BY DEF OneWay
    <3>2. QED
      BY <1>3, <3>1 DEF Spawn, Switches, Reaped
  <2>3. QED
    BY <2>1, <2>2, LockInHand DEF Holds
<1>4. CASE AcquireOpens(t) \/ Records(t)
  BY <1>4 DEF AcquireOpens, Records, Opened, lockVars, InHand, Holds
<1>5. CASE AcquireUnlinks(t) \/ Releases(t) \/ CancelDrops(t)
  BY <1>5 DEF AcquireUnlinks, Releases, CancelDrops, Unlinked, InHand
<1>6. CASE CancelClears(t)
  BY <1>6, LockInHand DEF CancelClears, Holds
<1>7. CASE AcquireStamps(t)
  <2>1. Holds(t)'
    BY <1>7 DEF AcquireStamps, Granted, Holds
  <2>2. QED
    BY <1>7, <2>1 DEF AcquireStamps, Written, InHand
<1>8. CASE Recorded(t)
  <2>1. lock' = "helper" => lock = "helper"
    BY <1>8, NamesAssumption DEF Recorded, Written
  <2>2. \A u \in Threads : Holds(u) => Holds(u)'
    BY <1>8 DEF Recorded, Holds
  <2>3. QED
    BY <1>8, <2>1, <2>2 DEF Recorded, Written, InHand
<1>9. QED
  BY <1>1, <1>2, <1>3, <1>4, <1>5, <1>6, <1>7, <1>8 DEF Helper

LEMMA OtherInHand ==
  ASSUME TypeOK, InHand,
         \/ \E t \in Threads : Worker(t) \/ WorkerKilled(t)
         \/ \E u \in Uploads : Upload(u)
         \/ OtherCommand \/ HelperRestart \/ PowerLoss \/ UNCHANGED machine
  PROVE  InHand'
<1> USE DEF TypeOK, threadVars
<1>1. ASSUME NEW t \in Threads, WorkerStarts(t) \/ WorkerReleases(t)
      PROVE  InHand'
  BY <1>1 DEF WorkerStarts, WorkerReleases, Opened, Unlinked, Step, InHand, Holds
<1>2. ASSUME NEW t \in Threads, WorkerStamps(t)
      PROVE  InHand'
  <2>1. lock' = "helper" => lock = "helper"
    BY <1>2, NamesAssumption DEF WorkerStamps, Written
  <2>2. QED
    BY <1>2, <2>1 DEF WorkerStamps, Written, Step, InHand, Holds
<1>3. ASSUME NEW t \in Threads, WorkerChecks(t) \/ WorkerInstalls(t) \/ WorkerCleans(t)
      PROVE  InHand'
  BY <1>3, LockInHand DEF WorkerChecks, WorkerInstalls, WorkerCleans, Step, Holds
<1>4. ASSUME NEW t \in Threads, WorkerKilled(t)
      PROVE  InHand'
  BY <1>4 DEF WorkerKilled, Step, InHand, Holds
<1>5. ASSUME NEW u \in Uploads, Upload(u)
      PROVE  InHand'
  BY <1>5, LockInHand DEF Upload, UploadChecks, UploadBegins, UploadEnds, Holds
<1>6. CASE OtherCommand
  BY <1>6, LockInHand DEF OtherCommand, Reaped, Holds
<1>7. CASE HelperRestart
  <2>1. CASE lock \in Threads /\ Alive(lock)
    <3>1. lock' # "helper" /\ handles' = {w \in handles : w[2] = "worker"}
      BY <1>7, <2>1, NamesAssumption DEF HelperRestart
    <3>2. \A t \in Threads : worker[t] = "stamp" => worker'[t] = "stamp"
      BY <1>7 DEF HelperRestart, Reaped
    <3>3. QED
      BY <3>1, <3>2 DEF InHand
  <2>2. CASE ~(lock \in Threads /\ Alive(lock))
    BY <1>7, <2>2 DEF HelperRestart, Unlinked, InHand
  <2>3. QED
    BY <2>1, <2>2
<1>8. CASE PowerLoss
  BY <1>8 DEF PowerLoss, Unlinked, InHand
<1>9. CASE UNCHANGED machine
  BY <1>9, LockInHand DEF machine, Holds
<1>10. QED
  BY <1>1, <1>2, <1>3, <1>4, <1>5, <1>6, <1>7, <1>8, <1>9 DEF Worker

(***************************************************************************)
(* However file operations on the lock interleave, and whatever is killed  *)
(* or restarted: when all is done, the next request may take the lock.     *)
(***************************************************************************)
THEOREM NobodyIsLockedOut == Spec => []NeverLockedOut
<1>1. Init => TypeOK /\ OneWay /\ InHand
  BY InitTypes, InitOneWay, InitInHand
<1>2. TypeOK /\ OneWay /\ InHand /\ [Next]_vars => (TypeOK /\ OneWay /\ InHand)'
  <2> SUFFICES ASSUME TypeOK, OneWay, InHand, [Next]_vars PROVE (OneWay /\ InHand)'
    BY NextTypes
  <2>1. Steps \/ UNCHANGED machine
    BY StepOrStutter
  <2>2. OneWay'
    BY <2>1, HelperOneWay, RestOneWay DEF Steps
  <2>3. InHand'
    BY <2>1, HelperInHand, OtherInHand DEF Steps
  <2>4. QED
    BY <2>2, <2>3
<1>3. TypeOK /\ InHand => NeverLockedOut
  <2> SUFFICES ASSUME TypeOK, InHand, \A t \in Threads : pc[t] \in {"idle", "done"} /\ ~Alive(t)
               PROVE  lock = "absent" \/ OwnerGone
    BY DEF NeverLockedOut
  <2>1. lock # "helper"
    BY DEF InHand, Holds
  <2>2. handles = {}
    <3>1. \A t \in Threads : <<t, "helper">> \notin handles /\ <<t, "worker">> \notin handles
      BY DEF InHand, Alive
    <3>2. \A w \in Writers : \E t \in Threads : w = <<t, "helper">> \/ w = <<t, "worker">>
      BY DEF Writers
    <3>3. handles \subseteq Writers
      BY DEF TypeOK
    <3>4. QED
      BY <3>1, <3>2, <3>3
  <2>3. QED
    BY <2>1, <2>2 DEF OwnerGone, TypeOK
<1>4. QED
  BY <1>1, <1>2, <1>3, PTL DEF Spec

-----------------------------------------------------------------------------
(* The web process *)

Tokens == 1 .. MaxTokens

(***************************************************************************)
(* What a thread is at, with what it carries from one step to the next.    *)
(***************************************************************************)
Asked ==
    [at : {"idle"}]
      \cup [at : {"login"}, client : Clients]
      \cup [at : {"confirm"}, client : Clients, session : Ids]
      \cup [at : {"issue"}, session : Ids, tracker : Tokens]
      \cup [at : {"shown", "staging", "queueing", "calling", "told"}, tracker : Tokens]

InProgress == {"queued", "writing", "written", "trial"}
UpdateStates == {"none", "refused", "accepted", "automatic_rollback"} \cup InProgress

WebTypes ==
    /\ asked \in [WebThreads -> Asked]
    /\ failures \in [Clients -> 0 .. MaxFailures]
    /\ sessions \subseteq Ids
    /\ grants \subseteq [session : Ids, tracker : Tokens]
    /\ tracker \in [id : Ids, state : TrackerStates]
    /\ update \in [of : Ids, state : UpdateStates]
    /\ made \in [session : Ids, tracker : Ids]
    /\ staged \in [Tokens -> Nat]

LEMMA InitWebTypes == WebInit => WebTypes
BY LimitsAssumption DEF WebInit, WebTypes, Asked, Ids, Tokens, Idle, TrackerStates, Terminal,
   UpdateStates

\* What a thread carries follows from where it is.
LEMMA Carried ==
  ASSUME WebTypes, NEW t \in WebThreads
  PROVE  /\ At(t, {"login"}) => asked[t] \in [at : {"login"}, client : Clients]
         /\ At(t, {"confirm"}) => asked[t] \in [at : {"confirm"}, client : Clients, session : Ids]
         /\ At(t, {"issue"}) => asked[t] \in [at : {"issue"}, session : Ids, tracker : Tokens]
         /\ At(t, {"shown", "staging", "queueing", "calling", "told"})
              => asked[t] \in [at : {"shown", "staging", "queueing", "calling", "told"}, tracker : Tokens]
BY DEF WebTypes, Asked, At

LEMMA PasswordTypes ==
  ASSUME WebTypes, NEW t \in WebThreads, Asks(t) \/ Wrong(t) \/ LogsIn(t) \/ Creates(t) \/ Issues(t)
  PROVE  WebTypes'
<1> USE DEF Moves, Ends, Idle
<1>1. CASE Asks(t)
  BY <1>1 DEF Asks, WebTypes, Asked
<1>2. CASE Wrong(t)
  BY <1>2, Carried, LimitsAssumption DEF Wrong, WebTypes, Asked, At
<1>3. CASE LogsIn(t)
  BY <1>3, Carried, LimitsAssumption DEF LogsIn, WebTypes, Asked, At, Ids
<1>4. CASE Creates(t)
  <2>1. asked[t].client \in Clients /\ asked[t].session \in Ids
    BY <1>4, Carried DEF Creates, At
  <2>2. made' \in [session : Ids, tracker : Ids] /\ made'.tracker \in Tokens
    BY <1>4, LimitsAssumption DEF Creates, WebTypes, Ids, Tokens
  <2>3. asked' \in [WebThreads -> Asked]
    <3> DEFINE r == [at |-> "issue", session |-> asked[t].session, tracker |-> made'.tracker]
    <3>1. r \in Asked
      BY <2>1, <2>2 DEF Asked
    <3>2. asked' = [asked EXCEPT ![t] = r]
      BY <1>4 DEF Creates
    <3> HIDE DEF r
    <3>3. QED
      BY <3>1, <3>2 DEF WebTypes
  <2>4. failures' \in [Clients -> 0 .. MaxFailures]
    <3>1. failures' = [failures EXCEPT ![asked[t].client] = 0]
      BY <1>4 DEF Creates
    <3>2. failures \in [Clients -> 0 .. MaxFailures] /\ 0 \in 0 .. MaxFailures
      BY LimitsAssumption DEF WebTypes
    <3>3. QED
      BY <3>1, <3>2
  <2>5. tracker' \in [id : Ids, state : TrackerStates]
    BY <1>4, <2>2 DEF Creates, Ids, Tokens, TrackerStates
  <2>6. QED
    BY <1>4, <2>2, <2>3, <2>4, <2>5 DEF Creates, WebTypes
<1>5. CASE Issues(t)
  BY <1>5, Carried DEF Issues, WebTypes, Asked, At
<1>6. QED
  BY <1>1, <1>2, <1>3, <1>4, <1>5

LEMMA NotedTypes ==
  ASSUME WebTypes, NEW s \in TrackerStates
  PROVE  Noted(s) \in [id : Ids, state : TrackerStates]
BY DEF WebTypes, Noted

LEMMA UploadTypes ==
  ASSUME WebTypes, NEW t \in WebThreads,
         \/ \E s \in sessions, g \in grants : Shows(t, s, g)
         \/ Admits(t) \/ Stages(t) \/ Queues(t) \/ Calls(t) \/ Told(t)
  PROVE  WebTypes'
<1> USE DEF Moves, Ends, Idle, To
<1>1. CASE \E s \in sessions, g \in grants : Shows(t, s, g)
  BY <1>1 DEF Shows, Consumed, WebTypes, Asked
<1>2. CASE Admits(t)
  BY <1>2, Carried DEF Admits, WebTypes, Asked, At
<1>3. CASE Stages(t)
  BY <1>3, Carried DEF Stages, WebTypes, Asked, At
<1>4. CASE Queues(t)
  <2>1. tracker' \in [id : Ids, state : TrackerStates]
    BY <1>4, NotedTypes DEF Queues, TrackerStates
  <2>2. QED
    BY <1>4, <2>1, Carried DEF Queues, WebTypes, Asked, At
<1>5. CASE Calls(t)
  <2>1. asked[t] \in [at : {"calling"}, tracker : Tokens]
    BY <1>5, Carried DEF Calls, At
  <2>2. asked' \in [WebThreads -> Asked]
    BY <1>5, <2>1 DEF Calls, WebTypes, Asked
  <2>3. update' \in [of : Ids, state : UpdateStates]
    BY <1>5, <2>1 DEF Calls, WebTypes, UpdateStates, InProgress, Ids, Tokens
  <2>4. QED
    BY <1>5, <2>2, <2>3 DEF Calls, WebTypes
<1>6. CASE Told(t)
  <2>1. tracker' \in [id : Ids, state : TrackerStates]
    BY <1>6, NotedTypes DEF Told, TrackerStates, Terminal
  <2>2. QED
    BY <1>6, <2>1 DEF Told, WebTypes, Asked
<1>7. QED
  BY <1>1, <1>2, <1>3, <1>4, <1>5, <1>6

LEMMA UpdateTypes ==
  ASSUME WebTypes, Writes \/ GivesUp \/ Commits \/ RebootFails \/ WebRestarts \/ Reboots \/ TrialEnds
  PROVE  WebTypes'
<1>1. CASE WebRestarts \/ Reboots
  BY <1>1, LimitsAssumption DEF WebRestarts, Reboots, WebEnds, WebTypes, Asked, Idle,
     UpdateStates, InProgress
<1>2. ASSUME NEW from, NEW to \in UpdateStates, NEW s \in TrackerStates, Updates(from, to, s),
             UNCHANGED <<asked, sessions, grants>>
      PROVE  WebTypes'
  BY <1>2, NotedTypes DEF Updates, WebTypes
<1>3. CASE Writes \/ GivesUp \/ Commits \/ RebootFails \/ TrialEnds
  BY <1>3, <1>2 DEF Writes, GivesUp, Commits, RebootFails, TrialEnds, UpdateStates, InProgress,
     TrackerStates, Terminal
<1>4. QED
  BY <1>1, <1>3

LEMMA NextWebTypes == WebTypes /\ [WebNext]_webVars => WebTypes'
<1> SUFFICES ASSUME WebTypes, [WebNext]_webVars PROVE WebTypes'
  OBVIOUS
<1>1. CASE \E c \in Clients : WindowEnds(c)
  BY <1>1, LimitsAssumption DEF WindowEnds, WebTypes
<1>2. CASE (\E s \in sessions : SessionEnds(s)) \/ \E g \in grants : GrantExpires(g)
  BY <1>2 DEF SessionEnds, GrantExpires, WebTypes
<1>3. CASE UNCHANGED webVars
  BY <1>3 DEF webVars, WebTypes
<1>4. QED
  BY <1>1, <1>2, <1>3, PasswordTypes, UploadTypes, UpdateTypes DEF WebNext

LEMMA TypesImply == WebTypes => WebTypeOK
BY DEF WebTypes, WebTypeOK, Asked, Tokens, Ids

---------------------------------------------------------------------------
(* Wrong passwords.                                                        *)

(***************************************************************************)
(* Every thread that got past the limiter and has not answered may yet     *)
(* count against the client: the sum is what is bounded.                   *)
(***************************************************************************)
Checking(c) == {t \in WebThreads : asked[t].at \in {"login", "confirm"} /\ asked[t].client = c}

Counted ==
    \A c \in Clients :
      failures[c] + Cardinality(Checking(c)) < MaxAttempts + Cardinality(WebThreads)

LEMMA CheckingFinite ==
  \A c \in Clients : /\ IsFiniteSet(Checking(c)) /\ Cardinality(Checking(c)) \in Nat
                     /\ Cardinality(Checking(c)) <= Cardinality(WebThreads)
                     /\ Cardinality(WebThreads) \in Nat
BY ThreadsAssumption, FS_Subset, FS_CardinalityType DEF Checking

\* Whoever leaves the check, leaves it; nobody else does anything that counts.
LEMMA NotMoreCounted ==
  ASSUME WebTypes, WebTypes', Counted,
         \A c \in Clients : /\ failures'[c] <= failures[c]
                            /\ Checking(c)' \subseteq Checking(c)
  PROVE  Counted'
<1> SUFFICES ASSUME NEW c \in Clients
             PROVE  failures'[c] + Cardinality(Checking(c)') < MaxAttempts + Cardinality(WebThreads)
  BY DEF Counted
<1>1. Cardinality(Checking(c)') <= Cardinality(Checking(c)) /\ Cardinality(Checking(c)') \in Nat
  BY CheckingFinite, FS_Subset, FS_CardinalityType
<1>2. failures'[c] \in Nat /\ failures[c] \in Nat
  BY LimitsAssumption DEF WebTypes
<1>3. QED
  BY <1>1, <1>2, CheckingFinite, LimitsAssumption DEF Counted

LEMMA NextCounted ==
  ASSUME WebTypes, WebTypes', Counted, [WebNext]_webVars
  PROVE  Counted'
<1>1. ASSUME NEW t \in WebThreads, Asks(t)
      PROVE  Counted'
  <2>1. PICK c \in Clients : ~Blocked(c) /\ asked'[t].client = c
    BY <1>1 DEF Asks, Moves, WebTypes
  <2>2. failures' = failures /\ \A u \in WebThreads : u # t => asked'[u] = asked[u]
    BY <1>1 DEF Asks, Moves, WebTypes
  <2> SUFFICES ASSUME NEW d \in Clients
               PROVE  failures'[d] + Cardinality(Checking(d)') < MaxAttempts + Cardinality(WebThreads)
    BY DEF Counted
  <2>3. Cardinality(Checking(d)') <= Cardinality(WebThreads) /\ Cardinality(Checking(d)') \in Nat
    <3>1. Checking(d)' \subseteq WebThreads
      BY DEF Checking
    <3>2. QED
      BY <3>1, ThreadsAssumption, FS_Subset, FS_CardinalityType
  <2>4. CASE d = c
    <3>1. failures[d] \in Nat /\ failures[d] < MaxAttempts
      BY <2>1, <2>4, LimitsAssumption DEF Blocked, WebTypes
    <3>2. QED
      BY <2>2, <2>3, <3>1, CheckingFinite, LimitsAssumption
  <2>5. CASE d # c
    <3>1. Checking(d)' \subseteq Checking(d)
      BY <2>1, <2>2, <2>5 DEF Checking
    <3>2. Cardinality(Checking(d)') <= Cardinality(Checking(d))
      BY <3>1, CheckingFinite, FS_Subset
    <3>3. failures[d] \in Nat
      BY LimitsAssumption DEF WebTypes
    <3>4. QED
      BY <2>2, <2>3, <3>2, <3>3, CheckingFinite, LimitsAssumption DEF Counted
  <2>6. QED
    BY <2>4, <2>5
<1>2. ASSUME NEW t \in WebThreads, Wrong(t)
      PROVE  Counted'
  <2>1. PICK c \in Clients : asked[t].client = c /\ At(t, {"login", "confirm"})
    BY <1>2, Carried DEF Wrong, At
  <2>2. /\ asked' = [asked EXCEPT ![t] = Idle]
        /\ failures' = [failures EXCEPT ![c] = @ + 1]
    BY <1>2, <2>1 DEF Wrong, Ends, Moves
  <2> SUFFICES ASSUME NEW d \in Clients
               PROVE  failures'[d] + Cardinality(Checking(d)') < MaxAttempts + Cardinality(WebThreads)
    BY DEF Counted
  <2>3. failures[d] \in Nat
    BY LimitsAssumption DEF WebTypes
  <2>4. CASE d = c
    <3>1. t \in Checking(d) /\ Checking(d)' = Checking(d) \ {t}
      BY <2>1, <2>2, <2>4 DEF Checking, At, Idle, WebTypes
    <3>2. Cardinality(Checking(d)') = Cardinality(Checking(d)) - 1
      BY <3>1, CheckingFinite, FS_RemoveElement
    <3>3. failures'[d] = failures[d] + 1
      BY <2>2, <2>4 DEF WebTypes
    <3>4. QED
      BY <2>3, <3>2, <3>3, CheckingFinite, LimitsAssumption DEF Counted
  <2>5. CASE d # c
    <3>1. Checking(d)' = Checking(d) /\ failures'[d] = failures[d]
      BY <2>1, <2>2, <2>5 DEF Checking, Idle, WebTypes
    <3>2. QED
      BY <3>1 DEF Counted
  <2>6. QED
    BY <2>4, <2>5
<1>3. ASSUME NEW t \in WebThreads,
             \/ LogsIn(t) \/ Creates(t) \/ Issues(t)
             \/ \E s \in sessions, g \in grants : Shows(t, s, g)
             \/ Admits(t) \/ Stages(t) \/ Queues(t) \/ Calls(t) \/ Told(t)
      PROVE  Counted'
  <2>1. /\ asked'[t].at \notin {"login", "confirm"}
        /\ \A u \in WebThreads : u # t => asked'[u] = asked[u]
    <3> USE DEF Moves, Ends, To, Idle, WebTypes
    <3>1. CASE LogsIn(t) \/ Creates(t) \/ Issues(t) \/ \E s \in sessions, g \in grants : Shows(t, s, g)
      BY <3>1 DEF LogsIn, Creates, Issues, Shows
    <3>2. CASE Admits(t) \/ Stages(t) \/ Queues(t) \/ Calls(t) \/ Told(t)
      BY <3>2, Carried DEF Admits, Stages, Queues, Calls, Told, At
    <3>3. QED
      BY <1>3, <3>1, <3>2
  <2>2. \A c \in Clients : failures'[c] \in {0, failures[c]}
    BY <1>3 DEF LogsIn, Creates, Issues, Shows, Admits, Stages, Queues, Calls, Told, WebTypes
  <2>3. \A c \in Clients : failures'[c] <= failures[c]
    BY <2>2, LimitsAssumption DEF WebTypes
  <2>4. \A c \in Clients : Checking(c)' \subseteq Checking(c)
    BY <2>1 DEF Checking
  <2>5. QED
    BY <2>3, <2>4, NotMoreCounted
<1>4. CASE \/ \E c \in Clients : WindowEnds(c)
           \/ \E s \in sessions : SessionEnds(s)
           \/ \E g \in grants : GrantExpires(g)
           \/ Writes \/ GivesUp \/ Commits \/ RebootFails
           \/ WebRestarts \/ Reboots \/ TrialEnds \/ UNCHANGED webVars
  <2>1. /\ asked' \in {asked, [t \in WebThreads |-> Idle]}
        /\ \A c \in Clients : failures'[c] \in {0, failures[c]}
    BY <1>4 DEF WindowEnds, SessionEnds, GrantExpires, Writes, GivesUp, Commits, RebootFails,
                WebRestarts, Reboots, TrialEnds, Updates, WebEnds, webVars, WebTypes
  <2>2. \A c \in Clients : failures'[c] <= failures[c]
    BY <2>1, LimitsAssumption DEF WebTypes
  <2>3. \A c \in Clients : Checking(c)' \subseteq Checking(c)
    BY <2>1 DEF Checking, Idle
  <2>4. QED
    BY <2>2, <2>3, NotMoreCounted
<1>5. QED
  BY <1>1, <1>2, <1>3, <1>4 DEF WebNext

(***************************************************************************)
(* However the requests overlap, one client's wrong passwords within one   *)
(* window stay below the limit plus the number of threads.                 *)
(***************************************************************************)
THEOREM PasswordsBounded == WebSpec => []AttemptsBounded
<1>1. WebInit => WebTypes /\ Counted
  <2>1. ASSUME WebInit, NEW c \in Clients
        PROVE  failures[c] + Cardinality(Checking(c)) < MaxAttempts + Cardinality(WebThreads)
    <3>1. Checking(c) = {}
      BY <2>1 DEF WebInit, Checking, Idle
    <3>2. failures[c] = 0 /\ Cardinality(Checking(c)) = 0
      BY <2>1, <3>1, FS_EmptySet DEF WebInit
    <3>3. QED
      BY <3>2, CheckingFinite, LimitsAssumption
  <2>2. QED
    BY <2>1, InitWebTypes DEF Counted
<1>2. WebTypes /\ Counted /\ [WebNext]_webVars => (WebTypes /\ Counted)'
  BY NextWebTypes, NextCounted
<1>3. ASSUME WebTypes, Counted PROVE AttemptsBounded
  <2>1. \A c \in Clients : failures[c] \in Nat
    BY <1>3, LimitsAssumption DEF WebTypes
  <2>2. \A c \in Clients : failures[c] < MaxAttempts + Cardinality(WebThreads)
    BY <1>3, <2>1, CheckingFinite, LimitsAssumption DEF Counted
  <2>3. QED
    BY <1>3, <2>2, TypesImply DEF AttemptsBounded
<1>4. QED
  BY <1>1, <1>2, <1>3, PTL DEF WebSpec

---------------------------------------------------------------------------
(* Tokens: one confirmation, one upload.                                   *)

Waits(t, k) == At(t, {"issue", "shown"}) /\ asked[t].tracker = k
Uploading(t) == At(t, {"staging", "queueing", "calling", "told"})

(***************************************************************************)
(* A token is with the thread that issues or shows its grant, or it is the *)
(* grant, or an upload was accepted under it: never two of these.          *)
(***************************************************************************)
Once ==
    /\ \A k \in Tokens : staged[k] <= 1 /\ (k > made.tracker => staged[k] = 0)
    /\ \A t \in WebThreads, k \in Tokens :
         Waits(t, k) => /\ k <= made.tracker /\ staged[k] = 0
                        /\ \A g \in grants : g.tracker # k
                        /\ \A u \in WebThreads : Waits(u, k) => u = t
    /\ \A g \in grants : /\ g.tracker <= made.tracker /\ staged[g.tracker] = 0
                         /\ \A h \in grants : h.tracker = g.tracker => h = g
    /\ \A t \in WebThreads : Uploading(t) => staged[asked[t].tracker] = 1
    /\ update.of # 0 => staged[update.of] = 1

\* Steps that neither make nor use a token.
LEMMA TokensKept ==
  ASSUME WebTypes, Once, made'.tracker = made.tracker, UNCHANGED staged,
         update'.of = update.of, grants' \subseteq grants,
         \A t \in WebThreads :
           /\ At(t, {"issue", "shown"})' => At(t, {"issue", "shown"}) /\ asked'[t] = asked[t]
           /\ Uploading(t)' => Uploading(t) /\ asked'[t].tracker = asked[t].tracker
  PROVE  Once'
<1>1. \A t \in WebThreads, k \in Tokens : Waits(t, k)' => Waits(t, k)
  BY DEF Waits
<1>2. QED
  BY <1>1 DEF Once

LEMMA NextOnce ==
  ASSUME WebTypes, Once, [WebNext]_webVars
  PROVE  Once'
<1>1. ASSUME NEW t \in WebThreads, Creates(t)
      PROVE  Once'
  <2> DEFINE k == made.tracker + 1
  <2>1. /\ k \in Tokens /\ made'.tracker = k /\ made.tracker \in Nat
        /\ UNCHANGED <<staged, update, grants>>
        /\ asked'[t].at = "issue" /\ asked'[t].tracker = k
        /\ \A u \in WebThreads : u # t => asked'[u] = asked[u]
    BY <1>1, LimitsAssumption DEF Creates, Moves, WebTypes, Ids, Tokens
  <2>2. \A u \in WebThreads, l \in Tokens : Waits(u, l)' <=> (IF u = t THEN l = k ELSE Waits(u, l))
    BY <2>1 DEF Waits, At
  <2>3. ~Uploading(t)' /\ \A u \in WebThreads : u # t => (Uploading(u)' <=> Uploading(u))
    BY <2>1 DEF Uploading, At
  <2>4. staged[k] = 0 /\ \A g \in grants : g.tracker # k
    BY <2>1 DEF Once, WebTypes
  <2>5. \A u \in WebThreads : ~Waits(u, k)
    BY <2>1 DEF Once
  <2>6. \A l \in Tokens : l \in Nat
    BY DEF Tokens
  <2> HIDE DEF k
  <2>7. \A u \in WebThreads, l \in Tokens :
          Waits(u, l)' => /\ l <= made'.tracker /\ staged'[l] = 0
                          /\ \A g \in grants' : g.tracker # l
                          /\ \A v \in WebThreads : Waits(v, l)' => v = u
    BY <2>1, <2>2, <2>4, <2>5, <2>6 DEF Once, k
  <2>8. \A g \in grants' : g.tracker <= made'.tracker
    BY <2>1, <2>6 DEF Once, k, WebTypes
  <2>9. \A l \in Tokens : l > made'.tracker => staged'[l] = 0
    BY <2>1, <2>6 DEF Once, k
  <2>10. QED
    BY <2>1, <2>3, <2>7, <2>8, <2>9 DEF Once
<1>2. ASSUME NEW t \in WebThreads, Issues(t)
      PROVE  Once'
  <2>1. PICK k \in Tokens : k = asked[t].tracker /\ Waits(t, k)
    BY <1>2, Carried DEF Issues, At, Waits
  <2>2. /\ UNCHANGED <<made, staged, update>>
        /\ grants' = grants \cup {[session |-> asked[t].session, tracker |-> k]}
        /\ asked'[t] = Idle
        /\ \A u \in WebThreads : u # t => asked'[u] = asked[u]
    BY <1>2, <2>1 DEF Issues, Ends, Moves, WebTypes
  <2>3. \A u \in WebThreads, l \in Tokens : Waits(u, l)' <=> (u # t /\ Waits(u, l))
    BY <2>2 DEF Waits, At, Idle
  <2>4. \A u \in WebThreads : Uploading(u)' => u # t /\ Uploading(u)
    BY <2>2 DEF Uploading, At, Idle
  <2>5. \A g \in grants' : g \in grants \/ g.tracker = k
    BY <2>2
  <2>6. \A g, h \in grants' : h.tracker = g.tracker => h = g
    BY <2>1, <2>2 DEF Once
  <2>7. QED
    BY <2>1, <2>2, <2>3, <2>4, <2>5, <2>6 DEF Once
<1>3. ASSUME NEW t \in WebThreads, NEW s \in sessions, NEW g \in grants, Shows(t, s, g)
      PROVE  Once'
  <2>1. /\ UNCHANGED <<made, staged, update>> /\ grants' = grants \ {g}
        /\ asked'[t] \in {[at |-> "shown", tracker |-> g.tracker], Idle}
        /\ \A u \in WebThreads : u # t => asked'[u] = asked[u]
    BY <1>3 DEF Shows, Consumed, Moves, WebTypes
  <2>2. \A u \in WebThreads, l \in Tokens : Waits(u, l)' => IF u = t THEN l = g.tracker ELSE Waits(u, l)
    BY <2>1 DEF Waits, At, Idle
  <2>3. \A u \in WebThreads : Uploading(u)' => u # t /\ Uploading(u)
    BY <2>1 DEF Uploading, At, Idle
  <2>4. \A u \in WebThreads : ~Waits(u, g.tracker)
    BY DEF Once, WebTypes
  <2>5. \A h \in grants' : h.tracker # g.tracker
    BY <2>1 DEF Once
  <2>6. QED
    BY <2>1, <2>2, <2>3, <2>4, <2>5 DEF Once
<1>4. ASSUME NEW t \in WebThreads, Admits(t)
      PROVE  Once'
  <2>1. PICK k \in Tokens : k = asked[t].tracker /\ Waits(t, k) /\ asked[t] \in [at : {"shown"}, tracker : Tokens]
    BY <1>4, Carried DEF Admits, At, Waits
  <2>2. /\ UNCHANGED <<made, update, grants>>
        /\ \/ asked'[t] = Idle /\ UNCHANGED staged
           \/ /\ asked'[t].at = "staging" /\ asked'[t].tracker = k
              /\ staged' = [staged EXCEPT ![k] = @ + 1]
        /\ \A u \in WebThreads : u # t => asked'[u] = asked[u]
    BY <1>4, <2>1 DEF Admits, Ends, To, Moves, WebTypes
  <2>3. \A u \in WebThreads, l \in Tokens : Waits(u, l)' => u # t /\ Waits(u, l)
    BY <2>2 DEF Waits, At, Idle
  <2>4. \A u \in WebThreads : u # t => (Uploading(u)' <=> Uploading(u))
    BY <2>2 DEF Uploading, At
  <2>5. staged[k] = 0 /\ k <= made.tracker /\ (\A g \in grants : g.tracker # k) /\ update.of # k
        /\ \A u \in WebThreads : Waits(u, k) => u = t
    BY <2>1 DEF Once, Tokens
  <2>6. staged'[k] \in {0, 1} /\ \A l \in Tokens : l # k => staged'[l] = staged[l]
    BY <2>2, <2>5 DEF WebTypes
  <2>7. Uploading(t)' => staged'[k] = 1 /\ asked'[t].tracker = k
    BY <2>2, <2>5 DEF WebTypes, Uploading, At, Idle
  <2>8. \A u \in WebThreads : u # t /\ Uploading(u) => asked[u].tracker \in Tokens /\ asked[u].tracker # k
    BY <2>5, Carried DEF Uploading, At, Once
  <2>9. \A l \in Tokens : staged'[l] <= 1 /\ (l > made.tracker => staged'[l] = 0)
    BY <2>5, <2>6 DEF Once, WebTypes, Ids, Tokens
  <2>10. update.of # 0 => update.of \in Tokens
    BY LimitsAssumption DEF WebTypes, Ids, Tokens
  <2>11. \A u \in WebThreads : Uploading(u)' => staged'[asked'[u].tracker] = 1
    BY <2>2, <2>4, <2>6, <2>7, <2>8 DEF Once
  <2>12. \A g \in grants : g.tracker \in Tokens
    BY DEF WebTypes
  <2>13. QED
    BY <2>2, <2>3, <2>5, <2>6, <2>9, <2>10, <2>11, <2>12 DEF Once
<1>5. ASSUME NEW t \in WebThreads, Calls(t)
      PROVE  Once'
  <2>1. /\ UNCHANGED <<made, staged, grants>> /\ Uploading(t)
        /\ update'.of \in {update.of, asked[t].tracker}
        /\ asked'[t] = Idle \/ (asked'[t].at = "told" /\ asked'[t].tracker = asked[t].tracker)
        /\ \A u \in WebThreads : u # t => asked'[u] = asked[u]
    BY <1>5, Carried DEF Calls, To, Ends, Moves, At, Uploading, WebTypes
  <2>2. \A u \in WebThreads, l \in Tokens : Waits(u, l)' => Waits(u, l)
    BY <2>1 DEF Waits, At, Idle
  <2>3. \A u \in WebThreads : Uploading(u)' => Uploading(u) /\ asked'[u].tracker = asked[u].tracker
    BY <2>1 DEF Uploading, At, Idle
  <2>4. QED
    BY <2>1, <2>2, <2>3 DEF Once
<1>6. ASSUME NEW t \in WebThreads,
             Asks(t) \/ Wrong(t) \/ LogsIn(t) \/ Stages(t) \/ Queues(t) \/ Told(t)
      PROVE  Once'
  <2> USE DEF To, Moves, Ends, Idle, WebTypes, At
  <2>1. /\ made'.tracker = made.tracker /\ UNCHANGED <<staged, update, grants>>
        /\ \/ asked'[t].at \in {"idle", "login", "confirm"}
           \/ /\ Uploading(t) /\ asked'[t].tracker = asked[t].tracker
              /\ asked'[t].at \notin {"issue", "shown"}
        /\ \A u \in WebThreads : u # t => asked'[u] = asked[u]
    <3>1. CASE Asks(t) \/ Wrong(t) \/ LogsIn(t) \/ Told(t)
      BY <3>1 DEF Asks, Wrong, LogsIn, Told
    <3>2. CASE Stages(t) \/ Queues(t)
      BY <3>2, Carried DEF Stages, Queues, Uploading
    <3>3. QED
      BY <1>6, <3>1, <3>2
  <2>2. QED
    BY <2>1, TokensKept DEF Uploading
<1>7. CASE \/ \E c \in Clients : WindowEnds(c)
           \/ \E s \in sessions : SessionEnds(s)
           \/ \E g \in grants : GrantExpires(g)
           \/ Writes \/ GivesUp \/ Commits \/ RebootFails
           \/ WebRestarts \/ Reboots \/ TrialEnds \/ UNCHANGED webVars
  <2>1. /\ UNCHANGED <<made, staged>> /\ update'.of = update.of /\ grants' \subseteq grants
        /\ asked' \in {asked, [t \in WebThreads |-> Idle]}
    BY <1>7 DEF WindowEnds, SessionEnds, GrantExpires, Writes, GivesUp, Commits, RebootFails,
                WebRestarts, Reboots, TrialEnds, Updates, WebEnds, webVars, WebTypes
  <2>2. QED
    BY <2>1, TokensKept DEF Uploading, At, Idle
<1>8. QED
  BY <1>1, <1>2, <1>3, <1>4, <1>5, <1>6, <1>7 DEF WebNext

LEMMA InitOnce == WebInit => Once
BY LimitsAssumption DEF WebInit, Once, Waits, Uploading, At, Idle, Tokens

---------------------------------------------------------------------------
(* The tracker of an update.                                               *)

Orderly == ~Overtakes /\ {"late", "history"} \cap WebFaults = {}

(***************************************************************************)
(* What the tracker of an update may say of it.                            *)
(***************************************************************************)
Says ==
    /\ update.state \in {"queued", "writing"} => tracker.state \in {"queued", "installing"}
    /\ update.state \in {"written", "trial"} => tracker.state \in {"rebooting", "reboot_failed"}
    /\ update.state \in {"accepted", "automatic_rollback"}
         => tracker.state \in {update.state, "reboot_failed"}
    /\ update.state = "refused" => tracker.state = "failed"

(***************************************************************************)
(* The tracker is the uploading thread's, whose update is still to come,   *)
(* or that of the update under way.                                        *)
(***************************************************************************)
Followed ==
    /\ \A t \in WebThreads : Uploading(t) =>
         /\ tracker.id = asked[t].tracker
         /\ update.of # tracker.id /\ update.state \notin InProgress
         /\ At(t, {"staging", "queueing"}) => tracker.state = "starting"
         /\ At(t, {"calling"}) => tracker.state = "queued"
         /\ \A u \in WebThreads : Uploading(u) => u = t
    /\ update.state \in InProgress => tracker.id = update.of
    /\ update.state = "none" <=> update.of = 0
    /\ update.of # 0 /\ tracker.id = update.of => Says

LEMMA InitFollowed == WebInit => Followed
BY DEF WebInit, Followed, Uploading, At, Idle, InProgress, Says

\* Steps that only end uploads leave the tracker and the update alone.
LEMMA FollowedKept ==
  ASSUME Followed, UNCHANGED <<tracker, update>>,
         \A t \in WebThreads : Uploading(t)' => Uploading(t) /\ asked'[t] = asked[t]
  PROVE  Followed'
BY DEF Followed, Says, At

LEMMA ThreadFollowed ==
  ASSUME WebTypes, Orderly, Once, Followed, NEW t \in WebThreads,
         \/ Creates(t) \/ Admits(t) \/ Stages(t) \/ Queues(t) \/ Calls(t) \/ Told(t)
  PROVE  Followed'
<1>1. CASE Creates(t)
  <2>1. /\ \A u \in WebThreads : ~Uploading(u)
        /\ update.state \notin InProgress
    BY <1>1 DEF Creates, Orderly, UnderWay, Uploading, InProgress, At
  <2>2. /\ UNCHANGED update /\ tracker'.id = made.tracker + 1 /\ made.tracker + 1 \in Tokens
        /\ asked'[t].at = "issue" /\ \A u \in WebThreads : u # t => asked'[u] = asked[u]
    BY <1>1, LimitsAssumption DEF Creates, Moves, WebTypes, Ids, Tokens
  <2>3. \A u \in WebThreads : ~Uploading(u)'
    BY <2>1, <2>2 DEF Uploading, At
  <2>4. staged[made.tracker + 1] = 0
    BY <2>2 DEF Once, WebTypes, Ids
  <2>5. update'.of # tracker'.id
    BY <2>2, <2>4 DEF Once, Tokens
  <2>6. QED
    BY <2>1, <2>2, <2>3, <2>5 DEF Followed
<1>2. CASE Admits(t)
  <2>1. PICK k \in Tokens : k = asked[t].tracker /\ Waits(t, k) /\ asked[t] \in [at : {"shown"}, tracker : Tokens]
    BY <1>2, Carried DEF Admits, At, Waits
  <2>2. /\ UNCHANGED <<tracker, update>>
        /\ \/ asked'[t] = Idle
           \/ asked'[t].at = "staging" /\ asked'[t].tracker = k /\ Unused(k)
        /\ \A u \in WebThreads : u # t => asked'[u] = asked[u]
    BY <1>2, <2>1 DEF Admits, Ends, To, Moves, WebTypes
  <2>3. CASE asked'[t] = Idle
    BY <2>2, <2>3, FollowedKept DEF Uploading, At, Idle
  <2>4. CASE asked'[t].at = "staging" /\ asked'[t].tracker = k /\ Unused(k)
    <3>1. staged[k] = 0 /\ tracker.id = k /\ tracker.state = "starting" /\ k # 0
      BY <2>1, <2>4 DEF Once, Unused, Tokens
    <3>2. update.of # k /\ \A u \in WebThreads : ~Uploading(u)
      BY <3>1 DEF Once, Followed
    <3>3. \A u \in WebThreads : Uploading(u)' => u = t
      BY <2>2, <3>2 DEF Uploading, At
    <3>4. QED
      BY <2>2, <2>4, <3>1, <3>2, <3>3 DEF Followed, At
  <2>5. QED
    BY <2>2, <2>3, <2>4
<1>3. CASE Stages(t) \/ Queues(t) \/ Calls(t) \/ Told(t)
  <2>1. /\ Uploading(t) /\ tracker.id = asked[t].tracker /\ tracker.id # 0
        /\ update.of # tracker.id /\ update.state \notin InProgress
        /\ \A u \in WebThreads : Uploading(u) => u = t
    BY <1>3, Carried DEF Stages, Queues, Calls, Told, Followed, Uploading, At, Tokens
  <2>2. \A u \in WebThreads : u # t => asked'[u] = asked[u]
    BY <1>3 DEF Stages, Queues, Calls, Told, To, Ends, Moves, WebTypes
  <2>3. \A u \in WebThreads : Uploading(u)' => u = t
    BY <2>1, <2>2 DEF Uploading, At
  <2>4. CASE Stages(t)
    <3>1. /\ UNCHANGED <<tracker, update>> /\ tracker.state = "starting"
          /\ ~Uploading(t)' \/ (asked'[t].at = "queueing" /\ asked'[t].tracker = asked[t].tracker)
      BY <2>1, <2>4, Carried DEF Stages, Ends, To, Moves, WebTypes, Uploading, Idle, At, Followed
    <3>2. QED
      BY <2>1, <2>3, <3>1 DEF Followed, At
  <2>5. CASE Queues(t)
    <3>1. /\ UNCHANGED update /\ tracker'.id = tracker.id /\ tracker'.state = "queued"
          /\ asked'[t].at = "calling" /\ asked'[t].tracker = asked[t].tracker
      BY <2>1, <2>5, Carried DEF Queues, Noted, Terminal, To, Moves, WebTypes, At, Followed
    <3>2. QED
      BY <2>1, <2>3, <3>1 DEF Followed, At
  <2>6. CASE Calls(t) /\ update' = update
    <3>1. /\ UNCHANGED tracker
          /\ ~Uploading(t)' \/ (asked'[t].at = "told" /\ asked'[t].tracker = asked[t].tracker)
      BY <2>6, Carried DEF Calls, Ends, To, Moves, WebTypes, Uploading, Idle, At
    <3>2. QED
      BY <2>1, <2>3, <2>6, <3>1 DEF Followed, At
  <2>7. CASE Calls(t) /\ update' # update
    <3>1. /\ UNCHANGED tracker /\ ~Uploading(t)' /\ tracker.state = "queued"
          /\ update'.of = tracker.id /\ update'.state = "queued"
      BY <2>1, <2>7 DEF Calls, Orderly, Ends, Moves, WebTypes, Uploading, Idle, At, Followed
    <3>2. QED
      BY <2>1, <2>3, <3>1 DEF Followed, Says, At, InProgress
  <2>8. CASE Told(t)
    <3>1. UNCHANGED update /\ tracker'.id = tracker.id /\ ~Uploading(t)'
      BY <2>8 DEF Told, Noted, Ends, Moves, WebTypes, Uploading, Idle, At
    <3>2. QED
      BY <2>1, <2>3, <3>1 DEF Followed, At
  <2>9. QED
    BY <1>3, <2>4, <2>5, <2>6, <2>7, <2>8
<1>4. QED
  BY <1>1, <1>2, <1>3

LEMMA NextFollowed ==
  ASSUME WebTypes, Orderly, Once, Followed, [WebNext]_webVars
  PROVE  Followed'
<1>2. ASSUME Writes \/ GivesUp \/ Commits \/ RebootFails \/ TrialEnds
      PROVE  Followed'
  <2>1. /\ UNCHANGED asked /\ update.state \in InProgress /\ update'.of = update.of
        /\ tracker'.id = tracker.id
    BY <1>2 DEF Writes, GivesUp, Commits, RebootFails, TrialEnds, Updates, Noted, WebTypes, InProgress
  <2>2. \A t \in WebThreads : ~Uploading(t)'
    BY <2>1 DEF Followed, Uploading, At
  <2>3. tracker.id = update.of /\ update.of # 0 /\ Says
    BY <2>1 DEF Followed, InProgress
  <2>4. CASE Writes \/ GivesUp
    BY <2>1, <2>2, <2>3, <2>4 DEF Writes, GivesUp, Updates, Noted, Terminal, Says, Followed,
       WebTypes, InProgress
  <2>5. CASE Commits \/ RebootFails
    BY <2>1, <2>2, <2>3, <2>5 DEF Commits, RebootFails, Orderly, Updates, Noted, Terminal, Says,
       Followed, WebTypes, InProgress
  <2>6. CASE TrialEnds
    BY <2>1, <2>2, <2>3, <2>6 DEF TrialEnds, Updates, Noted, Terminal, Says, Followed, WebTypes,
       InProgress
  <2>7. QED
    BY <1>2, <2>4, <2>5, <2>6
<1>3. ASSUME Reboots
      PROVE  Followed'
  <2>1. /\ UNCHANGED tracker /\ update.state = "written" /\ update'.state = "trial" /\ update'.of = update.of
        /\ \A t \in WebThreads : ~Uploading(t)'
    BY <1>3 DEF Reboots, WebEnds, WebTypes, Uploading, At, Idle
  <2>2. QED
    BY <2>1 DEF Followed, Says, InProgress
<1>4. ASSUME NEW t \in WebThreads,
             \/ Asks(t) \/ Wrong(t) \/ LogsIn(t) \/ Issues(t)
             \/ \E s \in sessions, g \in grants : Shows(t, s, g)
      PROVE  Followed'
  <2>1. /\ UNCHANGED <<tracker, update>> /\ ~Uploading(t)'
        /\ \A u \in WebThreads : u # t => asked'[u] = asked[u]
    BY <1>4 DEF Asks, Wrong, LogsIn, Issues, Shows, Moves, Ends, Idle, WebTypes, Uploading, At
  <2>2. QED
    BY <2>1, FollowedKept DEF Uploading, At
<1>5. CASE \/ \E c \in Clients : WindowEnds(c)
           \/ \E s \in sessions : SessionEnds(s)
           \/ \E g \in grants : GrantExpires(g)
           \/ WebRestarts \/ UNCHANGED webVars
  <2>1. UNCHANGED <<tracker, update>> /\ asked' \in {asked, [t \in WebThreads |-> Idle]}
    BY <1>5 DEF WindowEnds, SessionEnds, GrantExpires, WebRestarts, WebEnds, webVars
  <2>2. QED
    BY <2>1, FollowedKept DEF Uploading, At, Idle
<1>6. QED
  BY <1>2, <1>3, <1>4, <1>5, ThreadFollowed DEF WebNext

(***************************************************************************)
(* No confirmation is ever used for two uploads, whatever else goes wrong. *)
(***************************************************************************)
THEOREM OneUploadEach == WebSpec => [](\A k \in DOMAIN staged : staged[k] <= 1)
<1>1. WebInit => WebTypes /\ Once
  BY InitWebTypes, InitOnce
<1>2. WebTypes /\ Once /\ [WebNext]_webVars => (WebTypes /\ Once)'
  BY NextWebTypes, NextOnce
<1>3. WebTypes /\ Once => \A k \in DOMAIN staged : staged[k] <= 1
  BY DEF WebTypes, Once
<1>4. QED
  BY <1>1, <1>2, <1>3, PTL DEF WebSpec

(***************************************************************************)
(* And the tracker tells what became of the upload it was made for, where  *)
(* nobody confirms during an update, the helper's answer is not lost, and  *)
(* the history can be written.                                             *)
(***************************************************************************)
THEOREM UploadTracked ==
  ASSUME ~Overtakes, "late" \notin WebFaults, "history" \notin WebFaults
  PROVE  WebSpec => []TrackedUpload
<1>1. WebInit => WebTypes /\ Once /\ Followed
  BY InitWebTypes, InitOnce, InitFollowed
<1>2. Orderly
  BY DEF Orderly
<1>3. WebTypes /\ Once /\ Followed /\ [WebNext]_webVars => (WebTypes /\ Once /\ Followed)'
  BY <1>2, NextWebTypes, NextOnce, NextFollowed
<1>4. ASSUME WebTypes, Once, Followed PROVE TrackedUpload
  <2>1. \A k \in DOMAIN staged : staged[k] <= 1
    BY <1>4 DEF WebTypes, Once
  <2>2. update.state \in {"queued", "writing", "written", "trial"} => tracker.id = update.of
    BY <1>4 DEF Followed, InProgress
  <2>3. ASSUME update.of # 0, tracker.id = update.of
        PROVE  /\ tracker.state \in {"accepted", "automatic_rollback"} => update.state = tracker.state
               /\ tracker.state = "failed" => update.state = "refused"
               /\ tracker.state = "rebooting" => update.state \in {"written", "trial"}
    <3>1. Says /\ update.state \in UpdateStates \ {"none"}
      BY <1>4, <2>3 DEF Followed, WebTypes
    <3>2. QED
      BY <3>1 DEF Says, UpdateStates, InProgress
  <2>4. QED
    BY <2>1, <2>2, <2>3 DEF TrackedUpload
<1>5. QED
  BY <1>1, <1>3, <1>4, PTL DEF WebSpec

-----------------------------------------------------------------------------
(* The listener at the address of wlan0 *)

(***************************************************************************)
(* server_close waits for the monitor until it has ended or for as long as *)
(* a join takes, and then for the listener's lock: no pass is under way    *)
(* when the service is closed, and the next one sees that it is.           *)
(***************************************************************************)
Passes == [at : {"rest", "closing", "binding", "over"}, desired : Addresses \cup {""}]

NoPass ==
  /\ monitor \in Passes
  /\ wlan \in Addresses \cup {""}
  /\ service = "closed" => monitor.at \in {"rest", "over"} /\ bound = ""

(***************************************************************************)
(* The closed listener stays closed, however the monitor's last pass and   *)
(* the end of the service interleave, whatever addresses there are.        *)
(***************************************************************************)
THEOREM ListenerStaysClosed == LanSpec => []StaysClosed
<1>1. LanInit => NoPass
  <2>1. [at |-> "rest", desired |-> ""] \in Passes
    BY DEF Passes
  <2>2. QED
    BY <2>1 DEF LanInit, NoPass
<1>2. ASSUME NoPass, [LanNext]_lanVars PROVE NoPass'
  <2>1. CASE Looks
    BY <1>2, <2>1 DEF NoPass, Passes, Looks
  <2>2. CASE ClosesOld
    <3>1. monitor' \in Passes
      BY <1>2, <2>2 DEF NoPass, Passes, ClosesOld
    <3>2. service # "closed"
      BY <1>2, <2>2 DEF NoPass, ClosesOld
    <3>3. QED
      BY <1>2, <2>2, <3>1, <3>2 DEF NoPass, ClosesOld
  <2>3. CASE Binds
    <3>1. monitor' \in Passes
      BY <2>3 DEF Passes, Binds
    <3>2. service # "closed"
      BY <1>2, <2>3 DEF NoPass, Binds
    <3>3. QED
      BY <1>2, <2>3, <3>1, <3>2 DEF NoPass, Binds
  <2>4. CASE WlanChanges \/ ServerCloses \/ Joined \/ ListenerCloses
    BY <1>2, <2>4 DEF NoPass, WlanChanges, ServerCloses, Joined, ListenerCloses
  <2>5. CASE UNCHANGED lanVars
    BY <1>2, <2>5 DEF NoPass, lanVars
  <2>6. QED
    BY <1>2, <2>1, <2>2, <2>3, <2>4, <2>5 DEF LanNext, Monitor
<1>3. NoPass => StaysClosed
  BY DEF NoPass, StaysClosed
<1>4. QED
  BY <1>1, <1>2, <1>3, PTL DEF LanSpec

=============================================================================
