----------------------- MODULE ReleaseAndUpdateProofs -----------------------
(***************************************************************************)
(* Firmware from its release to its acceptance: FirmwareUpdate for every   *)
(* BootLimit, history length, set of faults and number of updates and      *)
(* power losses (type correctness without further hypotheses; as long as   *)
(* nobody installs while a trial runs, the inductive invariant IInv with   *)
(* the safety properties it implies; and what the history says of an       *)
(* update), and Release for every set of options and every number of runs, *)
(* commits and breaks.                                                     *)
(***************************************************************************)
EXTENDS FirmwareUpdate, Release, NaturalsInduction, WellFoundedInduction, SequenceTheorems, TLAPS

(***************************************************************************)
(* Every rewrite of the U-Boot environment yields a well-formed one.       *)
(***************************************************************************)
LEMMA EnvironmentTypes ==
  ASSUME NEW e \in UBootEnvironment, NEW s \in Slot
  PROVE  /\ BootSelect(e) \in UBootEnvironment
         /\ InstalledEnvironment(e, s) \in UBootEnvironment
         /\ SwitchedEnvironment(e, s) \in UBootEnvironment
         /\ AcceptedEnvironment(e) \in UBootEnvironment
         /\ ClearedEnvironment(e) \in UBootEnvironment
<1>1. 0 \in 0 .. BootLimit
  BY BootLimitAssumption
<1>2. Other(s) \in Slot
  BY DEF Other, Slot
<1>3. BootSelect(e) \in UBootEnvironment
  <2>1. CASE ~e.upgrade
    BY <2>1 DEF BootSelect
  <2>2. CASE e.upgrade /\ e.bootcount + 1 > BootLimit
    BY <1>1, <2>2 DEF BootSelect, UBootEnvironment
  <2>3. CASE e.upgrade /\ ~(e.bootcount + 1 > BootLimit)
    <3>1. e.bootcount + 1 \in 0 .. BootLimit
      BY <2>3, BootLimitAssumption DEF UBootEnvironment
    <3>2. BootSelect(e) = [e EXCEPT !.bootcount = @ + 1]
      BY <2>3 DEF BootSelect
    <3>3. QED
      BY <3>1, <3>2 DEF UBootEnvironment
  <2>4. QED
    BY <2>1, <2>2, <2>3
<1>4. InstalledEnvironment(e, s) \in UBootEnvironment
  BY <1>1, <1>2 DEF InstalledEnvironment, UBootEnvironment
<1>5. SwitchedEnvironment(e, s) \in UBootEnvironment
  BY <1>1, <1>2 DEF SwitchedEnvironment, UBootEnvironment
<1>6. AcceptedEnvironment(e) \in UBootEnvironment
  BY <1>1 DEF AcceptedEnvironment, UBootEnvironment
<1>7. ClearedEnvironment(e) \in UBootEnvironment
  BY DEF ClearedEnvironment, UBootEnvironment
<1>8. QED
  BY <1>3, <1>4, <1>5, <1>6, <1>7

(***************************************************************************)
(* What the two writers of the history produce is again a bounded history. *)
(***************************************************************************)
LEMMA AppendedHistory ==
  ASSUME NEW h, HistoryOK(h), NEW o \in 0 .. MaxOps, NEW s \in Slot,
         NEW r \in Result
  PROVE  HistoryOK(Appended(h, o, s, r))
<1> DEFINE entry == [op |-> o, slot |-> s, result |-> r]
<1>1. entry \in Entry
  BY DEF Entry
<1>2. HistoryLimit \in Nat \ {0}
  BY BoundsAssumption
<1>3. CASE Len(h) >= HistoryLimit
  <2>1. h # <<>> /\ Tail(h) \in Seq(Entry) /\ Len(Tail(h)) = Len(h) - 1
    BY <1>2, <1>3 DEF HistoryOK
  <2>2. Append(Tail(h), entry) \in Seq(Entry)
        /\ Len(Append(Tail(h), entry)) = Len(h)
    BY <1>1, <2>1 DEF HistoryOK
  <2>3. QED
    BY <1>3, <2>2 DEF HistoryOK, Appended
<1>4. CASE ~(Len(h) >= HistoryLimit)
  <2>1. Append(h, entry) \in Seq(Entry) /\ Len(Append(h, entry)) = Len(h) + 1
    BY <1>1 DEF HistoryOK
  <2>2. QED
    BY <1>2, <1>4, <2>1 DEF HistoryOK, Appended
<1>5. QED
  BY <1>3, <1>4

LEMMA RecordedHistory ==
  ASSUME NEW h, HistoryOK(h), NEW s, NEW r \in Result
  PROVE  HistoryOK(Recorded(h, s, r))
<1>1. PICK i : Recorded(h, s, r) = [h EXCEPT ![i].result = r]
  BY DEF Recorded
<1>2. h \in [1 .. Len(h) -> Entry] /\ Len(h) \in Nat
  BY DEF HistoryOK
<1>3. CASE i \in DOMAIN h
  <2>1. h[i] \in Entry
    BY <1>2, <1>3
  <2>2. [h[i] EXCEPT !.result = r] \in Entry
    BY <2>1 DEF Entry
  <2>3. [h EXCEPT ![i].result = r] \in [1 .. Len(h) -> Entry]
    BY <1>2, <1>3, <2>2
  <2>4. QED
    BY <1>1, <1>2, <2>3 DEF HistoryOK
<1>4. CASE i \notin DOMAIN h
  BY <1>1, <1>2, <1>4 DEF HistoryOK
<1>5. QED
  BY <1>3, <1>4

-----------------------------------------------------------------------------
LEMMA EnvironmentFields ==
  ASSUME NEW e \in UBootEnvironment
  PROVE  /\ e.active \in Slot /\ e.previous \in Slot
         /\ e.upgrade \in BOOLEAN
         /\ e.bootcount \in 0 .. BootLimit
         /\ e.rollback \in Slot \union {NoSlot}
BY DEF UBootEnvironment

LEMMA OtherSlot ==
  \A s \in Slot : Other(s) \in Slot /\ Other(s) # s /\ Other(Other(s)) = s
BY DEF Slot, Other

LEMMA InitTypes == Init => TypeOK
<1> SUFFICES ASSUME Init PROVE TypeOK
  OBVIOUS
<1>1. SeedEnvironment \in UBootEnvironment
  BY BootLimitAssumption DEF SeedEnvironment, UBootEnvironment, Slot, NoSlot
<1>2. HistoryOK(<<>>)
  BY BoundsAssumption DEF HistoryOK
<1>3. "A" \in Slot
  BY DEF Slot
<1>4. [s \in Slot |-> IF s = "A" THEN "healthy" ELSE "broken"] \in [Slot -> Image]
  BY DEF Image
<1>5. 0 \in 0 .. MaxOps /\ 0 \in 0 .. MaxLosses
  BY BoundsAssumption
<1>6. QED
  BY <1>1, <1>2, <1>3, <1>4, <1>5 DEF Init, TypeOK

(***************************************************************************)
(* Type correctness is preserved by every action.                          *)
(***************************************************************************)
LEMMA NextTypes == TypeOK /\ [Next]_vars => TypeOK'
<1> SUFFICES ASSUME TypeOK, [Next]_vars PROVE TypeOK'
  OBVIOUS
<1> USE DEF TypeOK, durable, processes, observed, Restarted
<1>1. CASE PowerLoss
  <2>1. losses + 1 \in 0 .. MaxLosses
    BY <1>1, BoundsAssumption DEF PowerLoss
  <2>2. QED
    BY <1>1, <2>1 DEF PowerLoss
<1>2. CASE PowerCycle
  BY <1>2 DEF PowerCycle
<1>3. CASE UBootSelect
  <2>1. env' \in UBootEnvironment
    BY <1>3, EnvironmentTypes, OtherSlot DEF UBootSelect
  <2>2. running' \in Slot
    BY <1>3, <2>1, EnvironmentFields DEF UBootSelect
  <2>3. QED
    BY <1>3, <2>1, <2>2 DEF UBootSelect
<1>4. CASE KernelBoots
  <2>1. data' \in {"rw", "ro", "absent"}
    BY <1>4 DEF KernelBoots, DataModes
  <2>2. QED
    BY <1>4, <2>1 DEF KernelBoots
<1>5. CASE KernelFailsToLoad
  BY <1>5 DEF KernelFailsToLoad
<1>6. CASE KernelWedges
  BY <1>6 DEF KernelWedges
<1>7. CASE UserReboot
  BY <1>7 DEF UserReboot
<1>8. CASE Install
  <2>1. ops + 1 \in 0 .. MaxOps
    BY <1>8, BoundsAssumption DEF Install, MayRequest
  <2>2. QED
    BY <1>8, <2>1 DEF Install
<1>9. CASE CancelStaged
  BY <1>9 DEF CancelStaged
<1>10. CASE SwitchChecks
  <2>1. ops + 1 \in 0 .. MaxOps
    BY <1>10, BoundsAssumption DEF SwitchChecks, MayRequest
  <2>2. QED
    BY <1>10, <2>1 DEF SwitchChecks
<1>11. CASE WorkerBeginsWrite
  <2>1. image' \in [Slot -> Image]
    BY <1>11 DEF WorkerBeginsWrite, Image
  <2>2. QED
    BY <1>11, <2>1 DEF WorkerBeginsWrite
<1>12. CASE WorkerFinishesWrite
  <2>1. image' \in [Slot -> Image]
    BY <1>12 DEF WorkerFinishesWrite
  <2>2. QED
    BY <1>12, <2>1 DEF WorkerFinishesWrite
<1>13. CASE SWUpdateCommits
  <2>1. env' \in UBootEnvironment
    BY <1>13, EnvironmentTypes, OtherSlot DEF SWUpdateCommits, Target
  <2>2. QED
    BY <1>13, <2>1 DEF SWUpdateCommits
<1>14. CASE WorkerRecords
  <2>1. HistoryOK(history')
    BY <1>14, AppendedHistory, OtherSlot DEF WorkerRecords, Target, Result
  <2>2. QED
    BY <1>14, <2>1 DEF WorkerRecords
<1>15. CASE WorkerReboots
  BY <1>15 DEF WorkerReboots
<1>16. CASE WorkerRebootFails
  BY <1>16 DEF WorkerRebootFails, WorkerCleanup
<1>17. CASE WorkerFails
  <2>1. HistoryOK(history')
    BY <1>17, AppendedHistory, OtherSlot DEF WorkerFails, Target, Result
  <2>2. QED
    BY <1>17, <2>1 DEF WorkerFails, WorkerCleanup
<1>18. CASE SwitchCommits
  <2>1. env' \in UBootEnvironment
    BY <1>18, EnvironmentTypes, OtherSlot DEF SwitchCommits
  <2>2. QED
    BY <1>18, <2>1 DEF SwitchCommits
<1>19. CASE SwitchRecords
  <2>1. HistoryOK(history')
    BY <1>19, AppendedHistory, OtherSlot DEF SwitchRecords, Result
  <2>2. QED
    BY <1>19, <2>1 DEF SwitchRecords
<1>20. CASE SwitchReboots
  BY <1>20 DEF SwitchReboots
<1>21. CASE SwitchFails
  BY <1>21 DEF SwitchFails
<1>22. CASE Reconcile
  <2>1. HistoryOK(history')
    BY <1>22, RecordedHistory DEF Reconcile, Result
  <2>2. QED
    BY <1>22, <2>1 DEF Reconcile
<1>23. CASE ReconcileClears
  <2>1. env' \in UBootEnvironment
    BY <1>23, EnvironmentTypes, OtherSlot DEF ReconcileClears
  <2>2. QED
    BY <1>23, <2>1 DEF ReconcileClears
<1>24. CASE DecideEvaluator
  <2>1. tried' \in Slot
    BY <1>24, EnvironmentFields DEF DecideEvaluator
  <2>2. QED
    BY <1>24, <2>1 DEF DecideEvaluator
<1>25. CASE HealthPasses
  BY <1>25 DEF HealthPasses
<1>26. CASE AcceptCommits
  <2>1. env' \in UBootEnvironment
    BY <1>26, EnvironmentTypes, OtherSlot DEF AcceptCommits
  <2>2. QED
    BY <1>26, <2>1 DEF AcceptCommits
<1>27. CASE AcceptFails
  BY <1>27 DEF AcceptFails
<1>28. CASE AcceptRecords
  <2>1. HistoryOK(history')
    BY <1>28, RecordedHistory DEF AcceptRecords, Result
  <2>2. QED
    BY <1>28, <2>1 DEF AcceptRecords
<1>29. CASE HealthDeadline
  <2>1. HistoryOK(history')
    BY <1>29, RecordedHistory DEF HealthDeadline, Result
  <2>2. QED
    BY <1>29, <2>1 DEF HealthDeadline
<1>30. CASE HealthReboots
  BY <1>30 DEF HealthReboots
<1>31. CASE HealthRebootFails
  BY <1>31 DEF HealthRebootFails
<1>32. CASE UNCHANGED vars
  BY <1>32 DEF vars
<1>33. QED
  BY <1>1, <1>2, <1>3, <1>4, <1>5, <1>6, <1>7, <1>8, <1>9, <1>10,
     <1>11, <1>12, <1>13, <1>14, <1>15, <1>16, <1>17, <1>18, <1>19, <1>20,
     <1>21, <1>22, <1>23, <1>24, <1>25, <1>26, <1>27, <1>28, <1>29, <1>30,
     <1>31, <1>32
     DEF Next, Boot, Operator, Worker, Switch, Health

(***************************************************************************)
(* Whatever fails and whenever it is asked to, the updater keeps its       *)
(* environment, history, processes and counters within their types: in     *)
(* particular bootcount never exceeds its limit and the history its bound. *)
(***************************************************************************)
THEOREM TypeCorrect == Spec => []TypeOK
<1>1. Init => TypeOK
  BY InitTypes
<1>2. TypeOK /\ [Next]_vars => TypeOK'
  BY NextTypes
<1>3. QED
  BY <1>1, <1>2, PTL DEF Spec

-----------------------------------------------------------------------------
(***************************************************************************)
(* What each rewrite of the environment leaves in its fields.              *)
(***************************************************************************)
LEMMA EnvironmentEffects ==
  ASSUME NEW e \in UBootEnvironment, NEW s \in Slot
  PROVE  /\ ~e.upgrade => BootSelect(e) = e
         /\ e.upgrade /\ e.bootcount < BootLimit =>
              LET n == BootSelect(e)
              IN  /\ n.upgrade /\ n.bootcount = e.bootcount + 1
                  /\ n.active = e.active /\ n.previous = e.previous
         /\ e.upgrade /\ e.bootcount = BootLimit =>
              LET n == BootSelect(e)
              IN  /\ ~n.upgrade /\ n.bootcount = 0 /\ n.active = e.previous
         /\ LET n == InstalledEnvironment(e, s)
            IN  /\ n.upgrade /\ n.bootcount = 0
                /\ n.active = s /\ n.previous = Other(s)
         /\ LET n == SwitchedEnvironment(e, s)
            IN  /\ n.upgrade /\ n.bootcount = 0
                /\ n.active = Other(s) /\ n.previous = s
         /\ LET n == AcceptedEnvironment(e)
            IN  /\ ~n.upgrade /\ n.bootcount = 0 /\ n.active = e.active
         /\ LET n == ClearedEnvironment(e)
            IN  /\ n.upgrade = e.upgrade /\ n.bootcount = e.bootcount
                /\ n.active = e.active /\ n.previous = e.previous
BY BootLimitAssumption
   DEF UBootEnvironment, BootSelect, InstalledEnvironment, SwitchedEnvironment,
       AcceptedEnvironment, ClearedEnvironment

LEMMA InitInvariant == Init => IInv
BY InitTypes
   DEF Init, SeedEnvironment, Slot, IInv, FallbackAccepted, SelectedAccepted,
       NeverStranded, ProvenHealthy, TrialDistinct, SelectionFollowed,
       LockOwned, LinuxOnly, Flashing, Writing, Switching, Evaluating,
       TrialCounted, CounterIdle, RunningTrial

LEMMA NextInvariant ==
  ASSUME "trial" \notin Requests
  PROVE  IInv /\ [Next]_vars => IInv'
<1> SUFFICES ASSUME IInv, [Next]_vars PROVE IInv'
  OBVIOUS
<1> USE DEF IInv, FallbackAccepted, SelectedAccepted, NeverStranded,
        ProvenHealthy, TrialDistinct, SelectionFollowed, LockOwned, LinuxOnly,
        Flashing, Writing, Switching, Evaluating, TrialCounted, CounterIdle,
        RunningTrial, Target, durable, processes, observed, Restarted
<1>0. TypeOK'
  BY NextTypes
<1>1. CASE PowerLoss
  BY <1>0, <1>1 DEF PowerLoss
<1>2. CASE PowerCycle
  BY <1>0, <1>2 DEF PowerCycle
<1>3. CASE UBootSelect
  <2>1. env \in UBootEnvironment /\ env.bootcount \in 0 .. BootLimit
    BY EnvironmentFields DEF TypeOK
  <2>2. CASE ~env.upgrade
    <3>1. env' = env
      BY <1>3, <2>1, <2>2, EnvironmentEffects, OtherSlot DEF UBootSelect, TypeOK
    <3>2. QED
      BY <1>0, <1>3, <2>2, <3>1 DEF UBootSelect
  <2>3. CASE env.upgrade /\ env.bootcount < BootLimit
    <3>1. /\ env'.upgrade /\ env'.bootcount = env.bootcount + 1
          /\ env'.active = env.active /\ env'.previous = env.previous
      BY <1>3, <2>1, <2>3, EnvironmentEffects DEF UBootSelect, TypeOK
    <3>2. env'.bootcount > 0
      BY <2>1, <3>1
    <3>3. QED
      BY <1>0, <1>3, <2>3, <3>1, <3>2 DEF UBootSelect
  <2>4. CASE env.upgrade /\ env.bootcount = BootLimit
    <3>1. ~env'.upgrade /\ env'.bootcount = 0 /\ env'.active = env.previous
      BY <1>3, <2>1, <2>4, EnvironmentEffects DEF UBootSelect, TypeOK
    <3>2. QED
      BY <1>0, <1>3, <2>4, <3>1 DEF UBootSelect
  <2>5. QED
    BY <2>1, <2>2, <2>3, <2>4, BootLimitAssumption
<1>4. CASE KernelBoots
  BY <1>0, <1>4 DEF KernelBoots
<1>5. CASE KernelFailsToLoad
  BY <1>0, <1>5 DEF KernelFailsToLoad
<1>6. CASE KernelWedges
  BY <1>0, <1>6 DEF KernelWedges
<1>7. CASE UserReboot
  BY <1>0, <1>7 DEF UserReboot
<1>8. CASE Install
  BY <1>0, <1>8 DEF Install, MayRequest
<1>9. CASE CancelStaged
  BY <1>0, <1>9 DEF CancelStaged
<1>10. CASE SwitchChecks
  BY <1>0, <1>10 DEF SwitchChecks, MayRequest
<1>11. CASE WorkerBeginsWrite
  <2>1. Target \notin proven' /\ running # Target
    BY <1>11, OtherSlot DEF WorkerBeginsWrite, TypeOK
  <2>2. ProvenHealthy'
    BY <1>11 DEF WorkerBeginsWrite, TypeOK
  <2>3. FallbackAccepted' /\ SelectedAccepted'
    BY <1>11, EnvironmentFields, OtherSlot DEF WorkerBeginsWrite, TypeOK, Slot
  <2>4. QED
    BY <1>0, <1>11, <2>1, <2>2, <2>3 DEF WorkerBeginsWrite
<1>12. CASE WorkerFinishesWrite
  BY <1>0, <1>12 DEF WorkerFinishesWrite
<1>13. CASE SWUpdateCommits
  <2>1. /\ env'.upgrade /\ env'.bootcount = 0
        /\ env'.active = Other(running) /\ env'.previous = running
    BY <1>13, OtherSlot, EnvironmentEffects DEF SWUpdateCommits, TypeOK
  <2>2. running \in proven /\ health # "accepting" /\ stage = "linux"
    BY <1>13, EnvironmentFields DEF SWUpdateCommits, TypeOK
  <2>3. QED
    BY <1>0, <1>13, <2>1, <2>2, OtherSlot DEF SWUpdateCommits, TypeOK
<1>14. CASE WorkerRecords
  BY <1>0, <1>14 DEF WorkerRecords
<1>15. CASE WorkerReboots
  BY <1>0, <1>15 DEF WorkerReboots
<1>16. CASE WorkerRebootFails
  BY <1>0, <1>16 DEF WorkerRebootFails, WorkerCleanup
<1>17. CASE WorkerFails
  BY <1>0, <1>17 DEF WorkerFails, WorkerCleanup
<1>18. CASE SwitchCommits
  <2>1. /\ env'.upgrade /\ env'.bootcount = 0
        /\ env'.active = Other(running) /\ env'.previous = running
    BY <1>18, OtherSlot, EnvironmentEffects DEF SwitchCommits, TypeOK
  <2>2. running \in proven /\ health # "accepting" /\ stage = "linux"
    BY <1>18, EnvironmentFields DEF SwitchCommits, TypeOK
  <2>3. QED
    BY <1>0, <1>18, <2>1, <2>2, OtherSlot DEF SwitchCommits, TypeOK
<1>19. CASE SwitchRecords
  BY <1>0, <1>19 DEF SwitchRecords
<1>20. CASE SwitchReboots
  BY <1>0, <1>20 DEF SwitchReboots
<1>21. CASE SwitchFails
  BY <1>0, <1>21 DEF SwitchFails
<1>22. CASE Reconcile
  BY <1>0, <1>22 DEF Reconcile
<1>23. CASE ReconcileClears
  <2>1. /\ env'.upgrade = env.upgrade /\ env'.bootcount = env.bootcount
        /\ env'.active = env.active /\ env'.previous = env.previous
    BY <1>23, EnvironmentEffects DEF ReconcileClears, TypeOK
  <2>2. QED
    BY <1>0, <1>23, <2>1 DEF ReconcileClears
<1>24. CASE DecideEvaluator
  BY <1>0, <1>24 DEF DecideEvaluator
<1>25. CASE HealthPasses
  BY <1>0, <1>25 DEF HealthPasses
<1>26. CASE AcceptCommits
  <2>1. ~env'.upgrade /\ env'.bootcount = 0 /\ env'.active = env.active
    BY <1>26, EnvironmentEffects DEF AcceptCommits, TypeOK
  <2>2. QED
    BY <1>0, <1>26, <2>1 DEF AcceptCommits
<1>27. CASE AcceptFails
  BY <1>0, <1>27 DEF AcceptFails
<1>28. CASE AcceptRecords
  BY <1>0, <1>28 DEF AcceptRecords
<1>29. CASE HealthDeadline
  BY <1>0, <1>29 DEF HealthDeadline
<1>30. CASE HealthReboots
  BY <1>0, <1>30 DEF HealthReboots
<1>31. CASE HealthRebootFails
  BY <1>0, <1>31 DEF HealthRebootFails
<1>32. CASE UNCHANGED vars
  BY <1>0, <1>32 DEF vars
<1>33. QED
  BY <1>1, <1>2, <1>3, <1>4, <1>5, <1>6, <1>7, <1>8, <1>9, <1>10,
     <1>11, <1>12, <1>13, <1>14, <1>15, <1>16, <1>17, <1>18, <1>19, <1>20,
     <1>21, <1>22, <1>23, <1>24, <1>25, <1>26, <1>27, <1>28, <1>29, <1>30,
     <1>31, <1>32
     DEF Next, Boot, Operator, Worker, Switch, Health

-----------------------------------------------------------------------------
(***************************************************************************)
(* The invariant for an operator who does not install while a trial runs,  *)
(* and what it says of the slot U-Boot would start next.                   *)
(***************************************************************************)
THEOREM Invariant ==
  ASSUME "trial" \notin Requests
  PROVE  Spec => []IInv
<1>1. Init => IInv
  BY InitInvariant
<1>2. IInv /\ [Next]_vars => IInv'
  BY NextInvariant
<1>3. QED
  BY <1>1, <1>2, PTL DEF Spec

(***************************************************************************)
(* Where U-Boot falls back to while a trial is pending is always an        *)
(* accepted image that nobody has touched since (boot.cmd:18-27).          *)
(***************************************************************************)
THEOREM FallbackIsAccepted ==
  ASSUME "trial" \notin Requests
  PROVE  Spec => []FallbackAccepted
<1>1. IInv => FallbackAccepted
  BY DEF IInv
<1>2. QED
  BY <1>1, Invariant, PTL

(***************************************************************************)
(* Outside a trial U-Boot starts an accepted image.                        *)
(***************************************************************************)
THEOREM SelectedIsAccepted ==
  ASSUME "trial" \notin Requests
  PROVE  Spec => []SelectedAccepted
<1>1. IInv => SelectedAccepted
  BY DEF IInv
<1>2. QED
  BY <1>1, Invariant, PTL

(***************************************************************************)
(* The radio never stops at boot.cmd's "Unable to boot firmware slot".     *)
(***************************************************************************)
THEOREM NeverIsStranded ==
  ASSUME "trial" \notin Requests
  PROVE  Spec => []NeverStranded
<1>1. IInv => NeverStranded
  BY DEF IInv
<1>2. QED
  BY <1>1, Invariant, PTL

-----------------------------------------------------------------------------
(***************************************************************************)
(* Whoever requests what and whenever: no step changes the image Linux is  *)
(* running from (firmware_installer._read_cmdline takes the running slot   *)
(* from the kernel command line, not from U-Boot's environment).           *)
(***************************************************************************)
THEOREM RunningSlotIsUntouched == Spec => RunningSlotUntouched
<1>1. TypeOK /\ [Next]_vars
        => [stage = "linux" => image'[running] = image[running]]_vars
  <2> SUFFICES ASSUME TypeOK, Next
               PROVE  image'[running] = image[running]
    OBVIOUS
  <2>1. CASE WorkerBeginsWrite \/ WorkerFinishesWrite
    BY <2>1, OtherSlot
       DEF WorkerBeginsWrite, WorkerFinishesWrite, Target, TypeOK
  <2>2. CASE ~(WorkerBeginsWrite \/ WorkerFinishesWrite)
    BY <2>2
       DEF Next, Boot, Operator, Worker, Switch, Health, durable,
           PowerLoss, PowerCycle, UBootSelect, KernelBoots, KernelFailsToLoad,
           KernelWedges, UserReboot, Install, CancelStaged, SwitchChecks,
           SWUpdateCommits, WorkerRecords, WorkerReboots, WorkerRebootFails,
           WorkerFails, SwitchCommits, SwitchRecords, SwitchReboots,
           SwitchFails, Reconcile, ReconcileClears, DecideEvaluator,
           HealthPasses, AcceptCommits, AcceptFails, AcceptRecords,
           HealthDeadline, HealthReboots, HealthRebootFails
  <2>3. QED
    BY <2>1, <2>2
<1>2. QED
  BY <1>1, TypeCorrect, PTL DEF Spec, RunningSlotUntouched

-----------------------------------------------------------------------------
(***************************************************************************)
(* Only five actions commit the environment; every other step leaves it    *)
(* as it is.                                                               *)
(***************************************************************************)
LEMMA EnvironmentCommits ==
  ASSUME [Next]_vars
  PROVE  \/ UBootSelect \/ SWUpdateCommits \/ SwitchCommits
         \/ ReconcileClears \/ AcceptCommits
         \/ env' = env
BY DEF Next, Boot, Operator, Worker, Switch, Health, vars, durable,
       PowerLoss, PowerCycle, KernelBoots, KernelFailsToLoad, KernelWedges,
        UserReboot, Install, CancelStaged, SwitchChecks, WorkerBeginsWrite,
        WorkerFinishesWrite, WorkerRecords, WorkerReboots, WorkerRebootFails,
        WorkerFails, SwitchRecords, SwitchReboots, SwitchFails, Reconcile,
        DecideEvaluator, HealthPasses, AcceptFails, AcceptRecords,
        HealthDeadline, HealthReboots, HealthRebootFails

(***************************************************************************)
(* Linux ends a trial only for the slot it is running from.                *)
(***************************************************************************)
THEOREM AcceptsOnlyWhatItTested ==
  ASSUME "trial" \notin Requests
  PROVE  Spec => AcceptsWhatItTested
<1>1. IInv /\ [Next]_vars
        => [stage = "linux" /\ env.upgrade /\ ~env'.upgrade
              => env'.active = running]_vars
  <2> SUFFICES ASSUME IInv, [Next]_vars,
                      stage = "linux", env.upgrade, ~env'.upgrade
               PROVE  env'.active = running
    OBVIOUS
  <2>1. env \in UBootEnvironment /\ running \in Slot
    BY DEF IInv, TypeOK
  <2>2. CASE AcceptCommits
    BY <2>1, <2>2, EnvironmentEffects DEF AcceptCommits, IInv, Evaluating
  <2>3. CASE ~AcceptCommits
    BY <2>1, <2>3, EnvironmentCommits, EnvironmentEffects, OtherSlot
       DEF UBootSelect, SWUpdateCommits, SwitchCommits, ReconcileClears, Target
  <2>4. QED
    BY <2>2, <2>3
<1>2. QED
  BY <1>1, Invariant, PTL DEF Spec, AcceptsWhatItTested

(***************************************************************************)
(* The environment implements TrialUpdate: U-Boot's selection is an        *)
(* attempt or the fallback, a commit by SWUpdate or the manual switch      *)
(* begins a trial, accept_trial accepts one, and nothing else is visible.  *)
(***************************************************************************)
THEOREM PromiseKept ==
  ASSUME "trial" \notin Requests
  PROVE  Spec => KeepsPromise
<1> DEFINE good == IF env.upgrade THEN env.previous ELSE env.active
<1>1. Init => Promise!Init
  BY DEF Init, SeedEnvironment, Promise!Init, Slot
<1>2. IInv /\ [Next]_vars => [Promise!Next]_(Promise!avars)
  <2> SUFFICES ASSUME IInv, [Next]_vars
               PROVE  Promise!Next \/ UNCHANGED Promise!avars
    OBVIOUS
  <2> USE DEF Promise!avars
  <2>1. /\ env \in UBootEnvironment /\ running \in Slot
        /\ env.active \in Slot /\ env.previous \in Slot
        /\ env.bootcount \in 0 .. BootLimit
        /\ NoSlot \notin Slot
    BY EnvironmentFields DEF IInv, TypeOK, Slot, NoSlot
  <2>2. CASE UBootSelect
    <3>1. env' = BootSelect(env)
      BY <2>2 DEF UBootSelect
    <3>2. CASE ~env.upgrade
      BY <2>1, <3>1, <3>2, EnvironmentEffects
    <3>3. CASE env.upgrade /\ env.bootcount < BootLimit
      <4>1. Promise!Attempt
        BY <2>1, <3>1, <3>3, EnvironmentEffects DEF Promise!Attempt
      <4>2. QED
        BY <4>1 DEF Promise!Next
    <3>4. CASE env.upgrade /\ env.bootcount = BootLimit
      <4>1. Promise!Fallback
        BY <2>1, <3>1, <3>4, EnvironmentEffects DEF Promise!Fallback
      <4>2. QED
        BY <4>1 DEF Promise!Next
    <3>5. QED
      BY <2>1, <3>2, <3>3, <3>4, BootLimitAssumption
  <2>3. CASE SWUpdateCommits \/ SwitchCommits
    <3>1. /\ env'.upgrade /\ env'.bootcount = 0
          /\ env'.active = Other(running) /\ env'.previous = running
      BY <2>1, <2>3, OtherSlot, EnvironmentEffects
         DEF SWUpdateCommits, SwitchCommits, Target
    <3>2. good = running
      BY <2>3 DEF SWUpdateCommits, SwitchCommits, IInv, TypeOK, Flashing,
                  Switching, LinuxOnly, SelectionFollowed, RunningTrial
    <3>3. Promise!Begin
      BY <2>1, <3>1, <3>2, OtherSlot DEF Promise!Begin
    <3>4. QED
      BY <3>3 DEF Promise!Next
  <2>4. CASE AcceptCommits
    <3>1. ~env'.upgrade /\ env'.bootcount = 0 /\ env'.active = env.active
      BY <2>1, <2>4, EnvironmentEffects DEF AcceptCommits
    <3>2. env.upgrade /\ env.bootcount > 0
      BY <2>4 DEF AcceptCommits, IInv, Evaluating
    <3>3. Promise!Accept
      BY <2>1, <3>1, <3>2 DEF Promise!Accept
    <3>4. QED
      BY <3>3 DEF Promise!Next
  <2>5. CASE ReconcileClears
    BY <2>1, <2>5, EnvironmentEffects DEF ReconcileClears
  <2>6. QED
    BY <2>2, <2>3, <2>4, <2>5, EnvironmentCommits
<1>3. QED
  BY <1>1, <1>2, Invariant, PTL DEF Spec, KeepsPromise, Promise!Spec

-----------------------------------------------------------------------------
(***************************************************************************)
(* A set of positions has a last one.                                      *)
(***************************************************************************)
LEMMA LastPosition ==
  ASSUME NEW m \in Nat, NEW P \in SUBSET (1 .. m), P # {}
  PROVE  \E i \in P : \A j \in P : j <= i
<1> DEFINE Below == {k \in Nat : m - k \in P}
           Less == {kl \in Nat \X Nat : kl[1] < kl[2]}
<1>1. IsWellFoundedOn(Less, Nat)
  BY NatLessThanWellFounded DEF OpToRel
<1>2. Below \in SUBSET Nat /\ Below # {}
  <2>1. PICK j \in P : TRUE
    OBVIOUS
  <2>2. m - j \in Nat /\ m - (m - j) = j
    OBVIOUS
  <2>3. QED
    BY <2>1, <2>2
<1>3. PICK k \in Below : \A l \in Below : ~(<<l, k>> \in Less)
  <2> HIDE DEF Below, Less
  <2>1. QED
    BY <1>1, <1>2, WFMin
<1>4. ASSUME NEW j \in P PROVE j <= m - k
  <2>1. m - j \in Nat /\ m - (m - j) = j /\ j \in Nat
    OBVIOUS
  <2>2. m - j \in Below
    BY <2>1
  <2>3. ~(m - j < k)
    BY <1>3, <2>1, <2>2
  <2>4. QED
    BY <2>1, <2>3
<1>5. QED
  BY <1>3, <1>4

(***************************************************************************)
(* The writers of the history: _record_result changes the result of the    *)
(* newest open entry of the slot and nothing else, _append_history adds a  *)
(* last entry behind older ones.                                           *)
(***************************************************************************)
LEMMA RecordedEffect ==
  ASSUME NEW h \in Seq(Entry), NEW s, NEW r, OpenEntries(h, s) # {}
  PROVE  /\ Len(Recorded(h, s, r)) = Len(h) /\ DOMAIN Recorded(h, s, r) = DOMAIN h
         /\ \E i \in OpenEntries(h, s) :
              /\ \A j \in OpenEntries(h, s) : j <= i
              /\ \A j \in DOMAIN h :
                   /\ Recorded(h, s, r)[j].op = h[j].op
                   /\ Recorded(h, s, r)[j].slot = h[j].slot
                   /\ Recorded(h, s, r)[j].result = IF j = i THEN r ELSE h[j].result
<1>1. DOMAIN h = 1 .. Len(h) /\ Len(h) \in Nat
  OBVIOUS
<1>2. OpenEntries(h, s) \in SUBSET (1 .. Len(h))
  BY <1>1 DEF OpenEntries
<1> DEFINE i == CHOOSE i \in OpenEntries(h, s) : \A j \in OpenEntries(h, s) : j <= i
<1>3. i \in OpenEntries(h, s) /\ \A j \in OpenEntries(h, s) : j <= i
  BY <1>1, <1>2, LastPosition
<1>4. Recorded(h, s, r) = [h EXCEPT ![i].result = r]
  BY DEF Recorded
<1>5. i \in DOMAIN h
  BY <1>1, <1>2, <1>3
<1> HIDE DEF i
<1>6. /\ DOMAIN Recorded(h, s, r) = DOMAIN h
      /\ \A j \in DOMAIN h : Recorded(h, s, r)[j] = IF j = i THEN [h[i] EXCEPT !.result = r] ELSE h[j]
  BY <1>4, <1>5
<1>7. /\ Recorded(h, s, r)[i].op = h[i].op /\ Recorded(h, s, r)[i].slot = h[i].slot
      /\ Recorded(h, s, r)[i].result = r
  <2>1. h[i] \in Entry
    BY <1>5
  <2>2. QED
    BY <1>5, <1>6, <2>1 DEF Entry
<1>8. Len(Recorded(h, s, r)) = Len(h)
  <2>1. Recorded(h, s, r) = [j \in 1 .. Len(h) |-> Recorded(h, s, r)[j]]
    BY <1>1, <1>4
  <2>2. QED
    BY <1>1, <1>6, <2>1
<1>9. QED
  BY <1>3, <1>6, <1>7, <1>8

LEMMA AppendedEffect ==
  ASSUME NEW h, HistoryOK(h), NEW o, NEW s, NEW r
  PROVE  LET n == Appended(h, o, s, r)
         IN  /\ Len(n) \in Nat \ {0} /\ DOMAIN n = 1 .. Len(n)
             /\ n[Len(n)] = [op |-> o, slot |-> s, result |-> r]
             /\ \A i \in DOMAIN n : i # Len(n) => \E j \in DOMAIN h : n[i] = h[j]
<1> DEFINE entry == [op |-> o, slot |-> s, result |-> r]
<1>1. HistoryLimit \in Nat \ {0} /\ h \in Seq(Entry)
  BY BoundsAssumption DEF HistoryOK
<1>2. CASE Len(h) >= HistoryLimit
  <2>1. Appended(h, o, s, r) = Append(Tail(h), entry)
    BY <1>2 DEF Appended
  <2>2. /\ Len(Tail(h)) = Len(h) - 1 /\ Len(h) - 1 \in Nat /\ Tail(h) \in Seq(Entry)
        /\ \A i \in 1 .. Len(h) - 1 : Tail(h)[i] = h[i + 1] /\ i + 1 \in DOMAIN h
    BY <1>1, <1>2
  <2> HIDE DEF entry
  <2>3. /\ Len(Append(Tail(h), entry)) = Len(h)
        /\ DOMAIN Append(Tail(h), entry) = 1 .. Len(h)
        /\ Append(Tail(h), entry)[Len(h)] = entry
        /\ \A i \in 1 .. Len(h) - 1 : Append(Tail(h), entry)[i] = Tail(h)[i]
    BY <1>1, <2>2
  <2>4. QED
    BY <1>1, <1>2, <2>1, <2>2, <2>3 DEF entry
<1>3. CASE ~(Len(h) >= HistoryLimit)
  <2>1. Appended(h, o, s, r) = Append(h, entry)
    BY <1>3 DEF Appended
  <2> HIDE DEF entry
  <2>2. /\ Len(Append(h, entry)) = Len(h) + 1 /\ Len(h) \in Nat
        /\ DOMAIN Append(h, entry) = 1 .. Len(h) + 1 /\ DOMAIN h = 1 .. Len(h)
        /\ Append(h, entry)[Len(h) + 1] = entry
        /\ \A i \in 1 .. Len(h) : Append(h, entry)[i] = h[i]
    BY <1>1
  <2>3. QED
    BY <2>1, <2>2 DEF entry
<1>4. QED
  BY <1>2, <1>3
-----------------------------------------------------------------------------
(***************************************************************************)
(* The truth of the history.  An entry that is open belongs to an update   *)
(* that was accepted, or it is the newest one and belongs to the latest    *)
(* trial: Pending until the trial ends, FellBack from U-Boot's fallback    *)
(* until the next boot has recorded it.  Whoever records a result takes    *)
(* the newest open entry of a slot, so it depends on nobody having begun   *)
(* another update in between: Calm and Committed say when that is so.      *)
(***************************************************************************)
OpenAt(i) == history[i].result \in Open

Pending(i) ==
  /\ env.upgrade
  /\ history[i].slot = env.active
  /\ history[i].op = trialOp
  /\ stage = "linux" =>
       IF lock = "free" THEN running = env.active
                        ELSE worker = "recorded" \/ switch = "recorded"

FellBack(i) ==
  /\ ~env.upgrade
  /\ history[i].slot = env.rollback
  /\ env.rollback # env.active
  /\ history[i].op \in reverted
  /\ stage = "linux" => health = "reconcile" /\ lock = "free"

Explained ==
  \A i \in DOMAIN history : OpenAt(i) =>
    \/ history[i].op \in passed
    \/ i = Len(history) /\ (Pending(i) \/ FellBack(i))

Mounted == stage = "linux" => data = "rw"

\* Requests wait for the records of a boot.
Calm == lock # "free" => ~Settling

\* Between the commit of an update and the reboot the environment is its.
Committed ==
  worker \in {"committed", "recorded"} \/ switch \in {"committed", "recorded"} =>
    env.upgrade /\ env.active = Other(running) /\ trialOp = ops

Recording == health = "record" => ~env.upgrade

HInv ==
  /\ IInv
  /\ AcceptedTruthfully
  /\ Explained
  /\ Mounted
  /\ Calm
  /\ Committed
  /\ Recording

-----------------------------------------------------------------------------
(***************************************************************************)
(* With a single power loss nothing piles up: the only open entry is the   *)
(* newest one, an accepted update is recorded before another one begins,   *)
(* and a trial or a rollback marker without an entry has used up the loss. *)
(***************************************************************************)
Unrecorded(i) ==
  /\ ~env.upgrade
  /\ history[i].slot = env.active
  /\ history[i].op \in passed
  /\ \/ health = "record"
     \/ env.rollback = NoSlot /\ (stage = "linux" => health = "reconcile")

OneOpen ==
  \A i \in DOMAIN history : OpenAt(i) =>
    i = Len(history) /\ (Pending(i) \/ FellBack(i) \/ Unrecorded(i))

TrialRecorded ==
  env.upgrade => \/ losses = MaxLosses
                 \/ worker = "committed" \/ switch = "committed"
                 \/ \E i \in DOMAIN history : OpenAt(i) /\ Pending(i)

MarkerRecorded ==
  env.rollback # NoSlot => \/ losses = MaxLosses
                           \/ health = "clear"
                           \/ \E i \in DOMAIN history : OpenAt(i) /\ FellBack(i)

\* What is prepared is about to be booted, and the evaluator runs for it.
Prepared ==
  stage = "linux" /\ env.upgrade /\ env.active # running =>
    worker \in {"committed", "recorded"} \/ switch \in {"committed", "recorded"}

Trying == health \in {"evaluating", "reboot"} => env.upgrade /\ env.active = running

OInv ==
  /\ HInv
  /\ RollbackTruthfully
  /\ OneOpen
  /\ TrialRecorded
  /\ MarkerRecorded
  /\ Prepared
  /\ Trying
-----------------------------------------------------------------------------
LEMMA InitHistory == Init => HInv
BY InitInvariant
   DEF Init, HInv, AcceptedTruthfully, Explained, Mounted, Calm, Committed,
       Recording, Settling

Steady == Mounted /\ Calm /\ Committed /\ Recording

Restarts ==
  \/ PowerLoss \/ PowerCycle \/ UserReboot \/ WorkerReboots \/ SwitchReboots
  \/ HealthReboots


LEMMA NextSteady ==
  ASSUME Requests = {}, Faults \subseteq {"setenv", "io"}, HInv, [Next]_vars
  PROVE  Steady'
<1> USE DEF HInv, IInv, Steady, Mounted, Calm, Committed, Recording, Settling,
        durable, processes, observed
<1>1. CASE Restarts
  BY <1>1 DEF Restarts, Restarted, PowerLoss, PowerCycle, UserReboot, WorkerReboots,
              SwitchReboots, HealthReboots
<1>2. CASE UBootSelect
  BY <1>2 DEF UBootSelect, LinuxOnly
<1>3. CASE KernelBoots
  BY <1>3 DEF KernelBoots, DataModes, LinuxOnly, LockOwned, TypeOK
<1>4. CASE KernelFailsToLoad \/ KernelWedges \/ UNCHANGED vars
  BY <1>4 DEF KernelFailsToLoad, KernelWedges, vars
<1>5. CASE CancelStaged \/ WorkerBeginsWrite \/ WorkerFinishesWrite
  BY <1>5 DEF CancelStaged, WorkerBeginsWrite, WorkerFinishesWrite
<1>6. CASE Install \/ SwitchChecks
  BY <1>6 DEF Install, SwitchChecks, MayRequest, SettledEnough, LockOwned
<1>7. CASE SWUpdateCommits
  <2>1. env'.upgrade /\ env'.active = Other(running) /\ trialOp' = ops
    BY <1>7, OtherSlot, EnvironmentEffects DEF SWUpdateCommits, TypeOK, Target
  <2>2. lock = "worker" /\ health # "record"
    BY <1>7 DEF SWUpdateCommits, LockOwned
  <2>3. QED
    BY <1>7, <2>1, <2>2 DEF SWUpdateCommits
<1>8. CASE SwitchCommits
  <2>1. env'.upgrade /\ env'.active = Other(running) /\ trialOp' = ops
    BY <1>8, EnvironmentEffects DEF SwitchCommits, TypeOK
  <2>2. lock = "switch" /\ health # "record"
    BY <1>8 DEF SwitchCommits, LockOwned
  <2>3. QED
    BY <1>8, <2>1, <2>2 DEF SwitchCommits
<1>9. CASE WorkerRecords \/ WorkerFails \/ WorkerRebootFails
  BY <1>9 DEF WorkerRecords, WorkerFails, WorkerRebootFails, WorkerCleanup, LockOwned
<1>10. CASE SwitchRecords \/ SwitchFails
  BY <1>10 DEF SwitchRecords, SwitchFails, LockOwned
<1>11. CASE Reconcile \/ DecideEvaluator \/ HealthPasses \/ AcceptFails \/ AcceptRecords
            \/ HealthDeadline \/ HealthRebootFails
  BY <1>11 DEF Reconcile, DecideEvaluator, HealthPasses, AcceptFails, AcceptRecords,
               HealthDeadline, HealthRebootFails
<1>12. CASE ReconcileClears
  <2>1. env'.upgrade = env.upgrade /\ env'.active = env.active
    BY <1>12, EnvironmentEffects DEF ReconcileClears, TypeOK
  <2>2. QED
    BY <1>12, <2>1 DEF ReconcileClears
<1>13. CASE AcceptCommits
  <2>1. ~env'.upgrade /\ env'.active = env.active
    BY <1>13, EnvironmentEffects DEF AcceptCommits, TypeOK
  <2>2. lock = "free" /\ worker = "idle" /\ switch = "idle"
    BY <1>13, OtherSlot DEF AcceptCommits, Evaluating, Flashing, Switching, RunningTrial,
            LockOwned, LinuxOnly, TypeOK
  <2>3. QED
    BY <1>13, <2>1, <2>2 DEF AcceptCommits
<1>14. QED
  BY <1>1, <1>2, <1>3, <1>4, <1>5, <1>6, <1>7, <1>8, <1>9, <1>10, <1>11, <1>12, <1>13
     DEF Next, Boot, Operator, Worker, Switch, Health, Restarts
Truth == Explained /\ AcceptedTruthfully

\* What a step does to the entries when it leaves the history alone.
LEMMA SameEntries ==
  ASSUME HInv, history' = history, passed \subseteq passed',
         \A i \in DOMAIN history : OpenAt(i) /\ (Pending(i) \/ FellBack(i)) =>
           Pending(i)' \/ FellBack(i)' \/ history[i].op \in passed'
  PROVE  Truth'
BY DEF HInv, Explained, AcceptedTruthfully, Truth, OpenAt

\* ... and when it appends an entry while no trial is pending.
LEMMA NewEntry ==
  ASSUME HInv, NEW o, NEW s, NEW r, history' = Appended(history, o, s, r),
         passed' = passed, r # "accepted",
         \A i \in DOMAIN history : ~Pending(i) /\ ~FellBack(i),
         r \in Open => \A i \in DOMAIN history' :
           history'[i] = [op |-> o, slot |-> s, result |-> r] => Pending(i)'
  PROVE  Truth'
<1>1. /\ DOMAIN history' = 1 .. Len(history')
      /\ history'[Len(history')] = [op |-> o, slot |-> s, result |-> r]
      /\ Len(history') \in DOMAIN history'
      /\ \A i \in DOMAIN history' : i # Len(history') => \E j \in DOMAIN history : history'[i] = history[j]
  BY AppendedEffect DEF HInv, IInv, TypeOK
<1>2. ASSUME NEW i \in DOMAIN history', i # Len(history')
      PROVE  /\ OpenAt(i)' => history'[i].op \in passed'
             /\ history'[i].result = "accepted" => history'[i].op \in passed'
  BY <1>1, <1>2 DEF HInv, Explained, AcceptedTruthfully, OpenAt
<1>3. ASSUME NEW i \in DOMAIN history', i = Len(history')
      PROVE  /\ OpenAt(i)' => Pending(i)'
             /\ history'[i].result # "accepted"
  BY <1>1, <1>3 DEF OpenAt
<1>4. QED
  BY <1>1, <1>2, <1>3 DEF Truth, Explained, AcceptedTruthfully

\* ... and when it records a result for the newest open entry of a slot.
LEMMA ResultRecorded ==
  ASSUME HInv, NEW s, NEW r, OpenEntries(history, s) # {},
         history' = Recorded(history, s, r), passed' = passed,
         \A i \in OpenEntries(history, s) : r = "accepted" => history[i].op \in passed,
         \A i \in DOMAIN history : OpenAt(i) /\ FellBack(i) => history[i].slot = s /\ r \notin Open,
         \A i \in DOMAIN history :
           /\ history'[i].slot = history[i].slot /\ history'[i].op = history[i].op
           /\ Pending(i)
           => Pending(i)'
  PROVE  Truth'
<1>1. history \in Seq(Entry)
  BY DEF HInv, IInv, TypeOK, HistoryOK
<1>2. DOMAIN history' = DOMAIN history /\ Len(history') = Len(history)
  BY <1>1, RecordedEffect
<1>3. PICK i \in OpenEntries(history, s) :
        /\ \A j \in OpenEntries(history, s) : j <= i
        /\ \A j \in DOMAIN history :
             /\ history'[j].op = history[j].op /\ history'[j].slot = history[j].slot
             /\ history'[j].result = IF j = i THEN r ELSE history[j].result
  BY <1>1, RecordedEffect
<1>4. AcceptedTruthfully'
  BY <1>2, <1>3 DEF HInv, AcceptedTruthfully
<1>5. ASSUME NEW j \in DOMAIN history', OpenAt(j)'
      PROVE  history'[j].op \in passed' \/ (j = Len(history') /\ (Pending(j)' \/ FellBack(j)'))
  <2>1. OpenAt(j)
    BY <1>2, <1>3, <1>5 DEF OpenAt, OpenEntries
  <2>2. CASE history[j].op \in passed
    BY <1>2, <1>3, <2>2
  <2>3. CASE j = Len(history) /\ Pending(j)
    BY <1>2, <1>3, <2>3
  <2>4. CASE j = Len(history) /\ FellBack(j)
    <3>1. history[j].slot = s /\ r \notin Open
      BY <1>2, <2>1, <2>4
    <3>2. j \in OpenEntries(history, s) /\ DOMAIN history = 1 .. Len(history) /\ Len(history) \in Nat
      BY <1>1, <1>2, <2>1, <3>1 DEF OpenEntries, OpenAt
    <3>3. i = j
      BY <1>3, <2>4, <3>2 DEF OpenEntries
    <3>4. QED
      BY <1>2, <1>3, <1>5, <3>1, <3>3 DEF OpenAt
  <2>5. QED
    BY <1>2, <2>1, <2>2, <2>3, <2>4 DEF HInv, Explained
<1>6. QED
  BY <1>4, <1>5 DEF Truth, Explained

\* While an update is under way nothing is pending before it has an entry.
LEMMA NothingPending ==
  ASSUME HInv, lock # "free", worker # "recorded", switch # "recorded"
  PROVE  \A i \in DOMAIN history : ~Pending(i) /\ ~FellBack(i)
BY DEF HInv, IInv, LinuxOnly, LockOwned, TypeOK, Pending, FellBack

\* reconcile_rollback sees every fallback.
LEMMA FellBackSeen ==
  ASSUME HInv, stage = "linux", NEW i \in DOMAIN history, FellBack(i)
  PROVE  RollbackToRecord /\ history[i].slot = env.rollback
<1>1. history[i] \in Entry
  BY DEF HInv, IInv, TypeOK, HistoryOK
<1>2. history[i].slot \in Slot
  BY <1>1 DEF Entry
<1>3. /\ ~env.upgrade /\ history[i].slot = env.rollback /\ env.rollback # env.active
      /\ running = env.active
  BY DEF FellBack, HInv, IInv, SelectionFollowed
<1>4. QED
  BY <1>2, <1>3 DEF RollbackToRecord

LEMMA NextTruth ==
  ASSUME Requests = {}, Faults \subseteq {"setenv", "io"}, HInv, [Next]_vars
  PROVE  Truth'
<1> USE DEF durable, processes, observed
<1>0. IInv /\ Steady
  BY DEF HInv, Steady
<1>1. CASE Restarts
  <2>1. /\ history' = history /\ passed' = passed /\ env' = env /\ trialOp' = trialOp
        /\ reverted' = reverted /\ stage' = "uboot"
    BY <1>1 DEF Restarts, Restarted, PowerLoss, PowerCycle, UserReboot, WorkerReboots,
              SwitchReboots, HealthReboots
  <2>2. \A i \in DOMAIN history : (Pending(i) => Pending(i)') /\ (FellBack(i) => FellBack(i)')
    BY <2>1 DEF Pending, FellBack
  <2>3. QED
    BY <2>1, <2>2, SameEntries
<1>2. CASE UBootSelect
  <2>1. /\ history' = history /\ passed' = passed /\ trialOp' = trialOp /\ stage' = "load"
        /\ reverted \subseteq reverted' /\ env' = BootSelect(env) /\ env \in UBootEnvironment
        /\ env.upgrade /\ ~env'.upgrade => trialOp \in reverted'
    BY <1>0, <1>2 DEF UBootSelect, IInv, TypeOK
  <2>2. CASE ~env.upgrade
    <3>1. env' = env
      BY <2>1, <2>2, EnvironmentEffects, OtherSlot DEF Slot
    <3>2. \A i \in DOMAIN history : ~Pending(i) /\ (FellBack(i) => FellBack(i)')
      BY <2>1, <2>2, <3>1 DEF Pending, FellBack
    <3>3. QED
      BY <2>1, <3>2, SameEntries
  <2>3. CASE env.upgrade /\ env.bootcount < BootLimit
    <3>1. env'.upgrade /\ env'.active = env.active
      BY <2>1, <2>3, EnvironmentEffects, OtherSlot DEF Slot
    <3>2. \A i \in DOMAIN history : ~FellBack(i) /\ (Pending(i) => Pending(i)')
      BY <2>1, <2>3, <3>1 DEF Pending, FellBack
    <3>3. QED
      BY <2>1, <3>2, SameEntries
  <2>4. CASE env.upgrade /\ env.bootcount = BootLimit
    <3>1. ~env'.upgrade /\ env'.active = env.previous /\ env'.rollback = env.active
      BY <2>1, <2>4, BootLimitAssumption DEF BootSelect, UBootEnvironment
    <3>2. env.active # env.previous
      BY <1>0, <2>4 DEF IInv, TrialDistinct
    <3>3. \A i \in DOMAIN history : ~FellBack(i) /\ (Pending(i) => FellBack(i)')
      BY <2>1, <2>4, <3>1, <3>2 DEF Pending, FellBack
    <3>4. QED
      BY <2>1, <3>3, SameEntries
  <2>5. env.bootcount \in 0 .. BootLimit
    BY <2>1, EnvironmentFields
  <2>6. QED
    BY <2>2, <2>3, <2>4, <2>5, BootLimitAssumption
<1>3. CASE KernelBoots
  <2>1. /\ history' = history /\ passed' = passed /\ env' = env /\ trialOp' = trialOp
        /\ reverted' = reverted /\ lock' = lock /\ running' = running /\ health' = "reconcile"
    BY <1>3 DEF KernelBoots
  <2>2. lock = "free" /\ running = env.active
    BY <1>0, <1>3 DEF KernelBoots, IInv, LinuxOnly, LockOwned, TypeOK, SelectionFollowed
  <2>3. \A i \in DOMAIN history : (Pending(i) => Pending(i)') /\ (FellBack(i) => FellBack(i)')
    BY <2>1, <2>2 DEF Pending, FellBack
  <2>4. QED
    BY <2>1, <2>3, SameEntries
<1>4. CASE KernelFailsToLoad \/ KernelWedges \/ UNCHANGED vars \/ CancelStaged
  <2>1. /\ history' = history /\ passed' = passed /\ env' = env /\ trialOp' = trialOp
        /\ reverted' = reverted /\ lock' = lock /\ running' = running /\ health' = health
        /\ worker' = worker /\ switch' = switch /\ (stage' = "linux" => stage = "linux")
    BY <1>4 DEF KernelFailsToLoad, KernelWedges, vars, CancelStaged
  <2>2. \A i \in DOMAIN history : (Pending(i) => Pending(i)') /\ (FellBack(i) => FellBack(i)')
    BY <2>1 DEF Pending, FellBack
  <2>3. QED
    BY <2>1, <2>2, SameEntries
<1>5. CASE Install \/ SwitchChecks
  <2>1. history' = history /\ passed' = passed
    BY <1>5 DEF Install, SwitchChecks
  <2>2. stage = "linux" /\ lock = "free" /\ ~RunningTrial /\ health # "reconcile"
    BY <1>5 DEF Install, SwitchChecks, MayRequest, SettledEnough, Settling
  <2>3. \A i \in DOMAIN history : ~Pending(i) /\ ~FellBack(i)
    BY <2>2 DEF Pending, FellBack, RunningTrial
  <2>4. QED
    BY <2>1, <2>3, SameEntries
<1>6. CASE WorkerBeginsWrite \/ WorkerFinishesWrite \/ SWUpdateCommits \/ SwitchCommits
  <2>1. history' = history /\ passed' = passed
    BY <1>6 DEF WorkerBeginsWrite, WorkerFinishesWrite, SWUpdateCommits, SwitchCommits
  <2>2. lock # "free" /\ worker # "recorded" /\ switch # "recorded"
    BY <1>0, <1>6 DEF WorkerBeginsWrite, WorkerFinishesWrite, SWUpdateCommits, SwitchCommits,
                      IInv, LockOwned
  <2>3. QED
    BY <2>1, <2>2, NothingPending, SameEntries
<1>7. CASE WorkerRecords \/ SwitchRecords
  <2>1. /\ passed' = passed /\ env' = env /\ trialOp' = trialOp /\ lock' = lock
        /\ \/ worker' = "recorded" /\ history' = Appended(history, ops, Other(running), "installed")
           \/ switch' = "recorded" /\ history' = Appended(history, ops, Other(running), "manual_switch_prepared")
    BY <1>7 DEF WorkerRecords, SwitchRecords, Target
  <2>2. /\ lock # "free" /\ worker # "recorded" /\ switch # "recorded"
        /\ env.upgrade /\ env.active = Other(running) /\ trialOp = ops
    BY <1>0, <1>7 DEF WorkerRecords, SwitchRecords, IInv, LockOwned, Steady, Committed
  <2>3. \A i \in DOMAIN history' :
          history'[i].op = ops /\ history'[i].slot = Other(running) => Pending(i)'
    BY <2>1, <2>2 DEF Pending
  <2>4. QED
    BY <2>1, <2>2, <2>3, NothingPending, NewEntry
<1>8. CASE WorkerFails
  <2>1. passed' = passed /\ history' = Appended(history, ops, Target, "failed")
    BY <1>8 DEF WorkerFails
  <2>2. lock # "free" /\ worker # "recorded" /\ switch # "recorded"
    BY <1>0, <1>8 DEF WorkerFails, IInv, LockOwned
  <2>3. "failed" \notin Open
    BY DEF Open
  <2>4. QED
    BY <2>1, <2>2, <2>3, NothingPending, NewEntry
<1>9. CASE SwitchFails
  <2>1. history' = history /\ passed' = passed
    BY <1>9 DEF SwitchFails
  <2>2. lock # "free" /\ worker # "recorded" /\ switch # "recorded"
    BY <1>0, <1>9 DEF SwitchFails, IInv, LockOwned
  <2>3. QED
    BY <2>1, <2>2, NothingPending, SameEntries
<1>10. CASE Reconcile
  <2>1. /\ passed' = passed /\ env' = env /\ trialOp' = trialOp /\ stage' = stage /\ lock' = lock
        /\ running' = running /\ worker' = worker /\ switch' = switch /\ health = "reconcile"
    BY <1>10 DEF Reconcile
  <2>2. stage = "linux" /\ data = "rw" /\ Readable = history
    BY <1>0, <2>1 DEF IInv, LinuxOnly, Steady, Mounted, Readable
  <2>3. \A i \in DOMAIN history : FellBack(i) => RollbackToRecord /\ history[i].slot = env.rollback
    BY <2>2, FellBackSeen
  <2>4. CASE RollbackToRecord /\ HasOpenEntry(env.rollback)
    <3>1. /\ history' = Recorded(history, env.rollback, "automatic_rollback")
          /\ OpenEntries(history, env.rollback) # {} /\ ~env.upgrade
      BY <1>10, <2>2, <2>4 DEF Reconcile, HasOpenEntry, RollbackToRecord
    <3>2. "automatic_rollback" \notin Open
      BY DEF Open
    <3>3. QED
      BY <2>1, <2>3, <3>1, <3>2, ResultRecorded DEF Pending
  <2>5. CASE ~(RollbackToRecord /\ HasOpenEntry(env.rollback))
    <3>1. \A i \in DOMAIN history : OpenAt(i) => ~FellBack(i)
      BY <2>2, <2>3, <2>5 DEF HasOpenEntry, OpenEntries, OpenAt
    <3>2. CASE AcceptanceToRecord /\ HasOpenEntry(running)
      <4>1. /\ history' = Recorded(history, running, "accepted")
            /\ OpenEntries(history, running) # {} /\ ~env.upgrade
        BY <1>10, <2>2, <2>5, <3>2 DEF Reconcile, HasOpenEntry, AcceptanceToRecord
      <4>2. \A i \in OpenEntries(history, running) : history[i].op \in passed
        BY <3>1, <4>1 DEF HInv, Explained, OpenAt, OpenEntries, Pending
      <4>3. QED
        BY <2>1, <3>1, <4>1, <4>2, ResultRecorded DEF Pending
    <3>3. CASE ~(AcceptanceToRecord /\ HasOpenEntry(running))
      <4>1. history' = history
        BY <1>10, <2>5, <3>3 DEF Reconcile
      <4>2. \A i \in DOMAIN history : Pending(i) => Pending(i)'
        BY <2>1, <4>1 DEF Pending
      <4>3. QED
        BY <2>1, <3>1, <4>1, <4>2, SameEntries
    <3>4. QED
      BY <3>2, <3>3
  <2>6. QED
    BY <2>4, <2>5
<1>11. CASE ReconcileClears
  <2>1. /\ history' = history /\ passed' = passed /\ trialOp' = trialOp /\ stage' = stage /\ lock' = lock
        /\ running' = running /\ worker' = worker /\ switch' = switch /\ health = "clear" /\ stage = "linux"
    BY <1>0, <1>11 DEF ReconcileClears, IInv, LinuxOnly
  <2>2. env'.upgrade = env.upgrade /\ env'.active = env.active
    BY <1>0, <1>11, EnvironmentEffects DEF ReconcileClears, IInv, TypeOK
  <2>3. \A i \in DOMAIN history : ~FellBack(i) /\ (Pending(i) => Pending(i)')
    BY <2>1, <2>2 DEF Pending, FellBack
  <2>4. QED
    BY <2>1, <2>3, SameEntries
<1>12. CASE DecideEvaluator \/ HealthPasses \/ AcceptFails
  <2>1. /\ history' = history /\ passed' = passed /\ trialOp' = trialOp /\ stage' = stage /\ lock' = lock
        /\ running' = running /\ worker' = worker /\ switch' = switch /\ health # "reconcile" /\ stage = "linux"
        /\ env' = env
    BY <1>0, <1>12 DEF DecideEvaluator, HealthPasses, AcceptFails, IInv, LinuxOnly
  <2>2. \A i \in DOMAIN history : ~FellBack(i) /\ (Pending(i) => Pending(i)')
    BY <2>1 DEF Pending, FellBack
  <2>3. QED
    BY <2>1, <2>2, SameEntries
<1>13. CASE AcceptCommits
  <2>1. /\ history' = history /\ passed' = passed \union {trialOp} /\ health = "accepting" /\ stage = "linux"
    BY <1>0, <1>13 DEF AcceptCommits, IInv, LinuxOnly, Evaluating
  <2>2. \A i \in DOMAIN history : ~FellBack(i) /\ (Pending(i) => history[i].op \in passed')
    BY <2>1 DEF Pending, FellBack
  <2>3. QED
    BY <2>1, <2>2, SameEntries
<1>14. CASE AcceptRecords
  <2>1. /\ passed' = passed /\ ~env.upgrade /\ health = "record" /\ stage = "linux"
    BY <1>0, <1>14 DEF AcceptRecords, IInv, LinuxOnly, Steady, Recording
  <2>2. \A i \in DOMAIN history : ~FellBack(i) /\ ~Pending(i)
    BY <2>1 DEF Pending, FellBack
  <2>3. Readable = history
    BY <1>0, <2>1 DEF Steady, Mounted, Readable
  <2>4. CASE HasOpenEntry(running)
    <3>1. /\ history' = Recorded(history, running, "accepted")
          /\ OpenEntries(history, running) # {}
      BY <1>0, <1>14, <2>1, <2>3, <2>4 DEF AcceptRecords, HasOpenEntry, Steady, Mounted
    <3>2. \A i \in OpenEntries(history, running) : history[i].op \in passed
      BY <2>2 DEF HInv, Explained, OpenAt, OpenEntries
    <3>3. QED
      BY <2>1, <2>2, <3>1, <3>2, ResultRecorded
  <2>5. CASE ~HasOpenEntry(running)
    <3>1. history' = history
      BY <1>14, <2>5 DEF AcceptRecords
    <3>2. QED
      BY <2>1, <2>2, <3>1, SameEntries
  <2>6. QED
    BY <2>4, <2>5
<1>15. CASE HealthDeadline
  <2>1. /\ passed' = passed /\ env' = env /\ trialOp' = trialOp /\ stage' = stage /\ lock' = lock
        /\ running' = running /\ worker' = worker /\ switch' = switch /\ health = "evaluating"
        /\ stage = "linux"
    BY <1>0, <1>15 DEF HealthDeadline, IInv, LinuxOnly
  <2>2. \A i \in DOMAIN history : ~FellBack(i)
    BY <2>1 DEF FellBack
  <2>3. Readable = history
    BY <1>0, <2>1 DEF Steady, Mounted, Readable
  <2>4. CASE history' = history
    <3>1. \A i \in DOMAIN history : Pending(i) => Pending(i)'
      BY <2>1, <2>4 DEF Pending
    <3>2. QED
      BY <2>1, <2>2, <2>4, <3>1, SameEntries
  <2>5. CASE history' # history
    <3>1. /\ history' = Recorded(history, tried, "trial_failed")
          /\ OpenEntries(history, tried) # {}
      BY <1>15, <2>3, <2>5 DEF HealthDeadline, HasOpenEntry
    <3>2. QED
      BY <2>1, <2>2, <3>1, ResultRecorded DEF Pending
  <2>6. QED
    BY <2>4, <2>5
<1>16. ~WorkerRebootFails /\ ~HealthRebootFails
  BY DEF WorkerRebootFails, HealthRebootFails
<1>17. QED
  BY <1>1, <1>2, <1>3, <1>4, <1>5, <1>6, <1>7, <1>8, <1>9, <1>10, <1>11, <1>12, <1>13, <1>14,
     <1>15, <1>16
     DEF Next, Boot, Operator, Worker, Switch, Health, Restarts

(***************************************************************************)
(* The history calls an update accepted only if its own trial was accepted *)
(* while it ran (firmware_health.py:274): wherever and however often power *)
(* fails, if /data is writable at every boot and a requested reboot        *)
(* happens, and for an operator who waits until a trial is settled.        *)
(***************************************************************************)
THEOREM AcceptancesAreTrue ==
  ASSUME Requests = {}, Faults \subseteq {"setenv", "io"}
  PROVE  Spec => []AcceptedTruthfully
<1>1. Init => HInv
  BY InitHistory
<1>2. HInv /\ [Next]_vars => HInv'
  BY NextSteady, NextTruth, NextInvariant DEF HInv, Steady, Truth
<1>3. HInv => AcceptedTruthfully
  BY DEF HInv
<1>4. QED
  BY <1>1, <1>2, <1>3, PTL DEF Spec
-----------------------------------------------------------------------------
OneLoss == Requests = {} /\ Faults = {} /\ MaxLosses <= 1

Live(i) == Pending(i) \/ FellBack(i) \/ Unrecorded(i)

\* Where a trial stands while requests are waited for and carried out.
LEMMA Quiet ==
  ASSUME OneLoss, OInv
  PROVE  /\ lock # "free" => ~Settling /\ stage = "linux" /\ health \notin {"evaluating", "accepting", "reboot"}
         /\ lock # "free" /\ worker \notin {"committed", "recorded"}
              /\ switch \notin {"committed", "recorded"} => ~env.upgrade
         /\ stage = "linux" /\ lock = "free" /\ ~RunningTrial => ~env.upgrade
<1> USE DEF OInv, HInv, IInv, LockOwned, LinuxOnly
<1>1. lock # "free" => ~Settling /\ stage = "linux"
  BY DEF Calm, TypeOK
<1>2. lock # "free" => ~RunningTrial
  BY <1>1, OtherSlot DEF TypeOK, RunningTrial, Flashing, Switching, Committed
<1>3. stage = "linux" /\ ~RunningTrial =>
        \/ ~env.upgrade
        \/ worker \in {"committed", "recorded"} \/ switch \in {"committed", "recorded"}
  BY DEF Prepared, RunningTrial
<1>4. health \in {"evaluating", "accepting", "reboot"} => RunningTrial
  BY DEF Trying, Evaluating, RunningTrial
<1>5. QED
  BY <1>1, <1>2, <1>3, <1>4

LEMMA NextPrepared ==
  ASSUME OneLoss, OInv, [Next]_vars
  PROVE  Prepared' /\ Trying'
<1> USE DEF Prepared, Trying, durable, processes, observed
<1>0. IInv /\ Steady
  BY DEF OInv, HInv, Steady
<1>1. CASE Restarts
  BY <1>1 DEF Restarts, Restarted, PowerLoss, PowerCycle, UserReboot, WorkerReboots,
              SwitchReboots, HealthReboots
<1>2. CASE UBootSelect
  BY <1>0, <1>2 DEF UBootSelect, IInv, LinuxOnly
<1>3. CASE KernelBoots
  BY <1>0, <1>3 DEF KernelBoots, IInv, LinuxOnly, SelectionFollowed
<1>4. CASE KernelFailsToLoad \/ KernelWedges \/ UNCHANGED vars
  BY <1>0, <1>4 DEF KernelFailsToLoad, KernelWedges, vars, OInv
<1>5. CASE CancelStaged \/ WorkerBeginsWrite \/ WorkerFinishesWrite \/ WorkerRecords \/ SwitchRecords
           \/ Install \/ SwitchChecks
  <2>1. env' = env /\ health' = health /\ running' = running /\ stage' = stage
    BY <1>5 DEF CancelStaged, WorkerBeginsWrite, WorkerFinishesWrite, WorkerRecords,
       SwitchRecords, Install, SwitchChecks
  <2>2. /\ worker \in {"committed", "recorded"} => worker' \in {"committed", "recorded"}
        /\ switch \in {"committed", "recorded"} => switch' \in {"committed", "recorded"}
    BY <1>0, <1>5 DEF CancelStaged, WorkerBeginsWrite, WorkerFinishesWrite, WorkerRecords,
       SwitchRecords, Install, SwitchChecks, MayRequest, IInv, LockOwned
  <2>3. QED
    BY <2>1, <2>2 DEF OInv
<1>6. CASE SWUpdateCommits \/ SwitchCommits
  <2>1. health \notin {"evaluating", "reboot"} /\ health' = health
    BY <1>0, <1>6, Quiet DEF SWUpdateCommits, SwitchCommits, IInv, LockOwned
  <2>2. worker' = "committed" \/ switch' = "committed"
    BY <1>6 DEF SWUpdateCommits, SwitchCommits
  <2>3. QED
    BY <2>1, <2>2
<1>7. CASE WorkerFails
  <2>1. ~env.upgrade /\ env' = env /\ health' = health /\ health \notin {"evaluating", "reboot"}
    BY <1>0, <1>7, Quiet DEF WorkerFails, OneLoss, IInv, LockOwned
  <2>2. QED
    BY <2>1
<1>8. CASE SwitchFails
  <2>1. switch = "checked"
    BY <1>0, <1>8 DEF SwitchFails, OneLoss, Steady, Mounted, IInv, LinuxOnly
  <2>2. ~env.upgrade /\ env' = env /\ health' = health /\ health \notin {"evaluating", "reboot"}
    BY <1>0, <1>8, <2>1, Quiet DEF SwitchFails, IInv, LockOwned
  <2>3. QED
    BY <2>2
<1>9. CASE Reconcile \/ HealthPasses \/ AcceptRecords \/ HealthDeadline \/ AcceptFails
  BY <1>9 DEF Reconcile, HealthPasses, AcceptRecords, HealthDeadline, AcceptFails, OInv
<1>10. CASE DecideEvaluator
  <2>1. stage = "linux" /\ lock = "free"
    BY <1>0, <1>10 DEF DecideEvaluator, IInv, LinuxOnly, Steady, Calm, Settling
  <2>2. env.upgrade => env.active = running
    BY <2>1, Quiet DEF RunningTrial
  <2>3. health' \in {"evaluating", "reboot"} => env.upgrade
    BY <1>10 DEF DecideEvaluator
  <2>4. QED
    BY <1>10, <2>2, <2>3 DEF DecideEvaluator, OInv
<1>11. CASE ReconcileClears
  <2>1. env'.upgrade = env.upgrade /\ env'.active = env.active
    BY <1>0, <1>11, EnvironmentEffects DEF ReconcileClears, IInv, TypeOK
  <2>2. QED
    BY <1>11, <2>1 DEF ReconcileClears, OInv
<1>12. CASE AcceptCommits
  <2>1. ~env'.upgrade
    BY <1>0, <1>12, EnvironmentEffects DEF AcceptCommits, IInv, TypeOK
  <2>2. QED
    BY <1>12, <2>1 DEF AcceptCommits
<1>13. ~WorkerRebootFails /\ ~HealthRebootFails
  BY DEF WorkerRebootFails, HealthRebootFails, OneLoss
<1>14. QED
  BY <1>1, <1>2, <1>3, <1>4, <1>5, <1>6, <1>7, <1>8, <1>9, <1>10, <1>11, <1>12, <1>13
     DEF Next, Boot, Operator, Worker, Switch, Health, Restarts

Ledger == RollbackTruthfully /\ OneOpen /\ TrialRecorded /\ MarkerRecorded

\* A step that leaves the history and what is said of it alone.
LEMMA LedgerKept ==
  ASSUME OInv, history' = history, reverted \subseteq reverted',
         losses = MaxLosses => losses' = MaxLosses,
         \A i \in DOMAIN history : OpenAt(i) /\ Live(i) => Live(i)',
         env'.upgrade => \/ losses' = MaxLosses
                         \/ worker' = "committed" \/ switch' = "committed"
                         \/ \E i \in DOMAIN history : OpenAt(i) /\ Pending(i)',
         env'.rollback # NoSlot =>
           \/ losses' = MaxLosses
           \/ health' = "clear"
           \/ \E i \in DOMAIN history : OpenAt(i) /\ FellBack(i)'
  PROVE  Ledger'
<1>1. \A i \in DOMAIN history : OpenAt(i)' = OpenAt(i)
  BY DEF OpenAt
<1>2. RollbackTruthfully'
  BY DEF OInv, RollbackTruthfully
<1>3. OneOpen'
  BY <1>1 DEF OInv, OneOpen, Live
<1>4. TrialRecorded'
  BY <1>1 DEF TrialRecorded
<1>5. MarkerRecorded'
  BY <1>1 DEF MarkerRecorded
<1>6. QED
  BY <1>2, <1>3, <1>4, <1>5 DEF Ledger

\* Recording a result closes the only open entry.
LEMMA Closes ==
  ASSUME OInv, NEW s, NEW r, OpenEntries(history, s) # {}, r \notin Open,
         history' = Recorded(history, s, r), reverted' = reverted,
         r = "automatic_rollback" => \A i \in OpenEntries(history, s) : history[i].op \in reverted
  PROVE  RollbackTruthfully' /\ OneOpen'
<1>1. history \in Seq(Entry)
  BY DEF OInv, HInv, IInv, TypeOK, HistoryOK
<1>2. DOMAIN history' = DOMAIN history /\ Len(history') = Len(history)
  BY <1>1, RecordedEffect
<1>3. PICK i \in OpenEntries(history, s) :
        /\ \A j \in OpenEntries(history, s) : j <= i
        /\ \A j \in DOMAIN history :
             /\ history'[j].op = history[j].op /\ history'[j].slot = history[j].slot
             /\ history'[j].result = IF j = i THEN r ELSE history[j].result
  BY <1>1, RecordedEffect
<1>4. i \in DOMAIN history /\ OpenAt(i)
  BY <1>3 DEF OpenEntries, OpenAt
<1>5. \A j \in DOMAIN history : OpenAt(j) => j = i
  BY <1>4 DEF OInv, OneOpen
<1>6. \A j \in DOMAIN history' : ~(history'[j].result \in Open)
  BY <1>2, <1>3, <1>5 DEF OpenAt
<1>7. OneOpen'
  BY <1>6 DEF OneOpen, OpenAt
<1>8. RollbackTruthfully'
  BY <1>2, <1>3 DEF OInv, RollbackTruthfully
<1>9. QED
  BY <1>7, <1>8

\* No entry is open when another one is written.
LEMMA Opens ==
  ASSUME OneLoss, OInv, NEW o, NEW s, NEW r, history' = Appended(history, o, s, r),
         reverted' = reverted, r # "automatic_rollback",
         lock # "free", worker # "recorded", switch # "recorded",
         r \in Open => \A i \in DOMAIN history' :
           history'[i] = [op |-> o, slot |-> s, result |-> r] => Pending(i)'
  PROVE  /\ RollbackTruthfully' /\ OneOpen'
         /\ r \in Open => \E i \in DOMAIN history' : OpenAt(i)' /\ Pending(i)'
<1>1. /\ DOMAIN history' = 1 .. Len(history')
      /\ history'[Len(history')] = [op |-> o, slot |-> s, result |-> r]
      /\ Len(history') \in DOMAIN history'
      /\ \A i \in DOMAIN history' : i # Len(history') => \E j \in DOMAIN history : history'[i] = history[j]
  BY AppendedEffect DEF OInv, HInv, IInv, TypeOK
<1>2. \A i \in DOMAIN history : ~Pending(i) /\ ~FellBack(i)
  BY NothingPending DEF OInv
<1>3. \A i \in DOMAIN history : ~Unrecorded(i)
  BY Quiet DEF Unrecorded, Settling
<1>4. \A i \in DOMAIN history : ~OpenAt(i)
  BY <1>2, <1>3 DEF OInv, OneOpen
<1>5. ASSUME NEW i \in DOMAIN history', i # Len(history')
      PROVE  /\ ~(history'[i].result \in Open)
             /\ history'[i].result = "automatic_rollback" => history'[i].op \in reverted'
  BY <1>1, <1>4, <1>5 DEF OInv, RollbackTruthfully, OpenAt
<1>6. ASSUME NEW i \in DOMAIN history', i = Len(history')
      PROVE  /\ r \in Open <=> OpenAt(i)'
             /\ OpenAt(i)' => Pending(i)'
             /\ history'[i].result # "automatic_rollback"
  BY <1>1, <1>6 DEF OpenAt
<1>7. RollbackTruthfully'
  BY <1>5, <1>6 DEF RollbackTruthfully
<1>8. OneOpen'
  BY <1>5, <1>6 DEF OneOpen, OpenAt
<1>9. r \in Open => \E i \in DOMAIN history' : OpenAt(i)' /\ Pending(i)'
  BY <1>1, <1>6
<1>10. QED
  BY <1>7, <1>8, <1>9

LEMMA NextLedger ==
  ASSUME OneLoss, OInv, [Next]_vars
  PROVE  Ledger'
<1> USE DEF durable, processes, observed
<1>0. IInv /\ Steady /\ losses \in 0 .. MaxLosses /\ MaxLosses \in Nat /\ MaxLosses <= 1 /\ HInv
  BY BoundsAssumption DEF OInv, HInv, Steady, IInv, TypeOK, OneLoss
<1>1. CASE PowerLoss
  <2>1. /\ history' = history /\ env' = env /\ trialOp' = trialOp /\ passed' = passed
        /\ reverted' = reverted /\ stage' = "uboot" /\ losses' = MaxLosses /\ losses # MaxLosses
    BY <1>0, <1>1 DEF PowerLoss, Restarted
  <2>2. ASSUME NEW i \in DOMAIN history, Unrecorded(i) PROVE Unrecorded(i)'
    <3>1. CASE health = "record"
      <4>1. stage = "linux" /\ ~env.upgrade
        BY <1>0, <2>2, <3>1 DEF IInv, LinuxOnly, Unrecorded
      <4>2. \A j \in DOMAIN history : ~FellBack(j)
        BY <3>1, <4>1 DEF FellBack
      <4>3. env.rollback = NoSlot
        BY <2>1, <3>1, <4>2 DEF OInv, MarkerRecorded
      <4>4. QED
        BY <2>1, <2>2, <4>3 DEF Unrecorded
    <3>2. QED
      BY <2>1, <2>2, <3>1 DEF Unrecorded
  <2>3. \A i \in DOMAIN history : (Pending(i) => Pending(i)') /\ (FellBack(i) => FellBack(i)')
    BY <2>1 DEF Pending, FellBack
  <2>4. QED
    BY <2>1, <2>2, <2>3, LedgerKept DEF Live
<1>2. CASE PowerCycle \/ UserReboot \/ WorkerReboots \/ SwitchReboots \/ HealthReboots
  <2>1. /\ history' = history /\ env' = env /\ trialOp' = trialOp /\ passed' = passed
        /\ reverted' = reverted /\ stage' = "uboot" /\ losses' = losses
    BY <1>2 DEF Restarted, PowerCycle, UserReboot, WorkerReboots, SwitchReboots, HealthReboots
  <2>2. health # "record" /\ health # "clear"
    BY <1>0, <1>2 DEF PowerCycle, UserReboot, WorkerReboots, SwitchReboots, HealthReboots,
         IInv, LinuxOnly, LockOwned, SettledEnough, Settling, OneLoss, Steady, Calm
  <2>3. worker # "committed" /\ switch # "committed"
    BY <1>0, <1>2, Quiet DEF PowerCycle, UserReboot, WorkerReboots, SwitchReboots, HealthReboots,
         IInv, LinuxOnly, LockOwned
  <2>4. \A i \in DOMAIN history :
          (Pending(i) => Pending(i)') /\ (FellBack(i) => FellBack(i)') /\ (Unrecorded(i) => Unrecorded(i)')
    BY <2>1, <2>2 DEF Pending, FellBack, Unrecorded
  <2>5. TrialRecorded /\ MarkerRecorded
    BY DEF OInv
  <2>6. QED
    BY <2>1, <2>2, <2>3, <2>4, <2>5, LedgerKept DEF Live, TrialRecorded, MarkerRecorded
<1>3. CASE UBootSelect
  <2>1. /\ history' = history /\ passed' = passed /\ trialOp' = trialOp /\ stage' = "load"
        /\ reverted \subseteq reverted' /\ env' = BootSelect(env) /\ env \in UBootEnvironment
        /\ losses' = losses /\ health' = "off" /\ stage = "uboot"
        /\ worker = "idle" /\ switch = "idle" /\ health = "off"
        /\ env.upgrade /\ ~env'.upgrade => trialOp \in reverted'
    BY <1>0, <1>3 DEF UBootSelect, IInv, TypeOK, LinuxOnly
  <2>2. TrialRecorded /\ MarkerRecorded
    BY DEF OInv
  <2>3. CASE ~env.upgrade
    <3>1. env' = env
      BY <2>1, <2>3, EnvironmentEffects, OtherSlot DEF Slot
    <3>2. \A i \in DOMAIN history :
            ~Pending(i) /\ (FellBack(i) => FellBack(i)') /\ (Unrecorded(i) => Unrecorded(i)')
      BY <2>1, <2>3, <3>1 DEF Pending, FellBack, Unrecorded
    <3>3. QED
      BY <2>1, <2>2, <2>3, <3>1, <3>2, LedgerKept DEF Live, MarkerRecorded
  <2>4. CASE env.upgrade /\ env.bootcount < BootLimit
    <3>1. env'.upgrade /\ env'.active = env.active
      BY <2>1, <2>4, EnvironmentEffects, OtherSlot DEF Slot
    <3>2. env'.rollback = env.rollback
      BY <2>1, <2>4, BootLimitAssumption DEF BootSelect, UBootEnvironment
    <3>3. \A i \in DOMAIN history : ~FellBack(i) /\ ~Unrecorded(i) /\ (Pending(i) => Pending(i)')
      BY <2>1, <2>4, <3>1 DEF Pending, FellBack, Unrecorded
    <3>4. QED
      BY <2>1, <2>2, <2>4, <3>2, <3>3, LedgerKept DEF Live, MarkerRecorded, TrialRecorded
  <2>5. CASE env.upgrade /\ env.bootcount = BootLimit
    <3>1. ~env'.upgrade /\ env'.active = env.previous /\ env'.rollback = env.active
      BY <2>1, <2>5, BootLimitAssumption DEF BootSelect, UBootEnvironment
    <3>2. env.active # env.previous
      BY <1>0, <2>5 DEF IInv, TrialDistinct
    <3>3. \A i \in DOMAIN history : ~FellBack(i) /\ ~Unrecorded(i) /\ (Pending(i) => FellBack(i)')
      BY <2>1, <2>5, <3>1, <3>2 DEF Pending, FellBack, Unrecorded
    <3>4. QED
      BY <2>1, <2>2, <2>5, <3>1, <3>3, LedgerKept DEF Live, TrialRecorded
  <2>6. env.bootcount \in 0 .. BootLimit
    BY <2>1, EnvironmentFields
  <2>7. QED
    BY <2>3, <2>4, <2>5, <2>6, BootLimitAssumption
<1>4. CASE KernelBoots
  <2>1. /\ history' = history /\ passed' = passed /\ env' = env /\ trialOp' = trialOp
        /\ reverted' = reverted /\ lock' = lock /\ running' = running /\ health' = "reconcile"
        /\ losses' = losses /\ worker' = worker /\ switch' = switch /\ health # "clear" /\ health # "record"
    BY <1>0, <1>4 DEF KernelBoots, IInv, LinuxOnly
  <2>2. lock = "free" /\ running = env.active
    BY <1>0, <1>4 DEF KernelBoots, IInv, LinuxOnly, LockOwned, TypeOK, SelectionFollowed
  <2>3. \A i \in DOMAIN history :
          (Pending(i) => Pending(i)') /\ (FellBack(i) => FellBack(i)') /\ (Unrecorded(i) => Unrecorded(i)')
    BY <2>1, <2>2 DEF Pending, FellBack, Unrecorded
  <2>4. TrialRecorded /\ MarkerRecorded
    BY DEF OInv
  <2>5. QED
    BY <2>1, <2>3, <2>4, LedgerKept DEF Live, TrialRecorded, MarkerRecorded
<1>5. CASE KernelFailsToLoad \/ KernelWedges \/ UNCHANGED vars \/ CancelStaged
           \/ HealthPasses \/ DecideEvaluator
  <2>1. /\ history' = history /\ passed' = passed /\ env' = env /\ trialOp' = trialOp
        /\ reverted' = reverted /\ lock' = lock /\ running' = running /\ losses' = losses
        /\ worker' = worker /\ switch' = switch /\ (stage' = "linux" => stage = "linux")
        /\ \/ health' = health
           \/ stage = "linux" /\ health \in {"decide", "evaluating"}
    BY <1>0, <1>5 DEF KernelFailsToLoad, KernelWedges, vars, CancelStaged, HealthPasses, DecideEvaluator,
         IInv, LinuxOnly
  <2>2. \A i \in DOMAIN history :
          (Pending(i) => Pending(i)') /\ (FellBack(i) => FellBack(i)') /\ (Unrecorded(i) => Unrecorded(i)')
    BY <2>1 DEF Pending, FellBack, Unrecorded
  <2>3. TrialRecorded /\ MarkerRecorded
    BY DEF OInv
  <2>4. QED
    BY <2>1, <2>2, <2>3, LedgerKept DEF Live, TrialRecorded, MarkerRecorded
<1>6. CASE Install \/ SwitchChecks
  <2>1. /\ history' = history /\ reverted' = reverted /\ env' = env /\ losses' = losses /\ stage = "linux"
        /\ lock = "free" /\ ~RunningTrial /\ ~Settling
    BY <1>6 DEF Install, SwitchChecks, MayRequest, SettledEnough, OneLoss
  <2>2. ~env.upgrade
    BY <2>1, Quiet
  <2>3. \A i \in DOMAIN history : ~Pending(i) /\ ~FellBack(i) /\ ~Unrecorded(i)
    BY <2>1, <2>2 DEF Pending, FellBack, Unrecorded, Settling
  <2>4. health # "clear" /\ MarkerRecorded
    BY <2>1 DEF OInv, Settling
  <2>5. QED
    BY <2>1, <2>2, <2>3, <2>4, LedgerKept DEF Live, MarkerRecorded
<1>7. CASE WorkerBeginsWrite \/ WorkerFinishesWrite \/ SWUpdateCommits \/ SwitchCommits \/ SwitchFails
  <2>1. history' = history /\ reverted' = reverted /\ losses' = losses
    BY <1>7 DEF WorkerBeginsWrite, WorkerFinishesWrite, SWUpdateCommits, SwitchCommits, SwitchFails
  <2>2. /\ lock # "free" /\ worker \notin {"committed", "recorded"}
        /\ switch \notin {"committed", "recorded"}
    BY <1>0, <1>7 DEF WorkerBeginsWrite, WorkerFinishesWrite, SWUpdateCommits, SwitchCommits,
       SwitchFails,
                      IInv, LockOwned, LinuxOnly, Steady, Mounted, OneLoss
  <2>3. ~env.upgrade /\ ~Settling /\ stage = "linux"
    BY <2>2, Quiet
  <2>4. \A i \in DOMAIN history : ~Pending(i) /\ ~FellBack(i) /\ ~Unrecorded(i)
    BY <1>0, <2>2, <2>3, NothingPending DEF Unrecorded, Settling
  <2>5. env'.upgrade => worker' = "committed" \/ switch' = "committed"
    BY <1>7, <2>3 DEF WorkerBeginsWrite, WorkerFinishesWrite, SWUpdateCommits, SwitchCommits, SwitchFails
  <2>6. env'.rollback # NoSlot => env.rollback # NoSlot
    BY <1>0, <1>7 DEF WorkerBeginsWrite, WorkerFinishesWrite, SWUpdateCommits, SwitchCommits,
       SwitchFails,
                      InstalledEnvironment, SwitchedEnvironment, IInv, TypeOK, UBootEnvironment
  <2>7. env.rollback # NoSlot => losses = MaxLosses
    BY <2>3, <2>4 DEF OInv, MarkerRecorded, Settling
  <2>8. QED
    BY <2>1, <2>4, <2>5, <2>6, <2>7, LedgerKept DEF Live
<1>8. CASE WorkerRecords \/ SwitchRecords
  <2>1. /\ passed' = passed /\ env' = env /\ trialOp' = trialOp /\ lock' = lock
        /\ reverted' = reverted /\ losses' = losses /\ health' = health
        /\ \/ worker' = "recorded" /\ history' = Appended(history, ops, Other(running), "installed")
           \/ switch' = "recorded" /\ history' = Appended(history, ops, Other(running), "manual_switch_prepared")
    BY <1>8 DEF WorkerRecords, SwitchRecords, Target
  <2>2. /\ lock # "free" /\ worker # "recorded" /\ switch # "recorded"
        /\ env.upgrade /\ env.active = Other(running) /\ trialOp = ops
    BY <1>0, <1>8 DEF WorkerRecords, SwitchRecords, IInv, LockOwned, Steady, Committed
  <2>3. \A i \in DOMAIN history' :
          history'[i].op = ops /\ history'[i].slot = Other(running) => Pending(i)'
    BY <2>1, <2>2 DEF Pending
  <2>4. "installed" \in Open /\ "manual_switch_prepared" \in Open
    BY DEF Open
  <2>5. /\ RollbackTruthfully' /\ OneOpen'
        /\ \E i \in DOMAIN history' : OpenAt(i)' /\ Pending(i)'
    BY <2>1, <2>2, <2>3, <2>4, Opens
  <2>6. \A i \in DOMAIN history : ~FellBack(i)
    BY <2>2 DEF FellBack
  <2>7. env.rollback # NoSlot => losses = MaxLosses \/ health = "clear"
    BY <2>6 DEF OInv, MarkerRecorded
  <2>8. QED
    BY <2>1, <2>5, <2>7 DEF Ledger, TrialRecorded, MarkerRecorded
<1>9. CASE WorkerFails
  <2>1. /\ history' = Appended(history, ops, Target, "failed") /\ env' = env /\ reverted' = reverted
        /\ losses' = losses /\ worker \in {"queued", "writing", "flashed"}
    BY <1>9 DEF WorkerFails, OneLoss
  <2>2. lock # "free" /\ switch = "idle"
    BY <1>0, <2>1 DEF IInv, LockOwned
  <2>3. ~env.upgrade /\ ~Settling
    BY <2>1, <2>2, Quiet
  <2>4. "failed" \notin Open
    BY DEF Open
  <2>5. RollbackTruthfully' /\ OneOpen'
    BY <2>1, <2>2, <2>4, Opens
  <2>6. \A i \in DOMAIN history : ~FellBack(i)
    BY <1>0, <2>1, <2>2, NothingPending
  <2>7. env.rollback # NoSlot => losses = MaxLosses
    BY <2>3, <2>6 DEF OInv, MarkerRecorded, Settling
  <2>8. QED
    BY <2>1, <2>3, <2>5, <2>7 DEF Ledger, TrialRecorded, MarkerRecorded
<1>10. CASE Reconcile
  <2>1. /\ passed' = passed /\ env' = env /\ trialOp' = trialOp /\ stage' = stage /\ lock' = lock
        /\ running' = running /\ worker' = worker /\ switch' = switch /\ health = "reconcile"
        /\ reverted' = reverted /\ losses' = losses
    BY <1>10 DEF Reconcile
  <2>2. stage = "linux" /\ data = "rw" /\ Readable = history
    BY <1>0, <2>1 DEF IInv, LinuxOnly, Steady, Mounted, Readable
  <2>3. \A i \in DOMAIN history : FellBack(i) => RollbackToRecord /\ history[i].slot = env.rollback
    BY <1>0, <2>2, FellBackSeen
  <2>4. \A i \in DOMAIN history : Unrecorded(i) => AcceptanceToRecord /\ history[i].slot = running
    BY <1>0, <2>1, <2>2 DEF Unrecorded, AcceptanceToRecord, IInv, SelectionFollowed
  <2>5. CASE RollbackToRecord /\ HasOpenEntry(env.rollback)
    <3>1. /\ history' = Recorded(history, env.rollback, "automatic_rollback") /\ health' = "clear"
          /\ OpenEntries(history, env.rollback) # {} /\ ~env.upgrade /\ env.rollback # NoSlot
      BY <1>10, <2>2, <2>5 DEF Reconcile, HasOpenEntry, RollbackToRecord, Slot, NoSlot
    <3>2. "automatic_rollback" \notin Open
      BY DEF Open
    <3>3. \A i \in OpenEntries(history, env.rollback) : history[i].op \in reverted
      BY <2>4, <3>1 DEF OInv, OneOpen, OpenAt, OpenEntries, Pending, FellBack, AcceptanceToRecord
    <3>4. RollbackTruthfully' /\ OneOpen'
      BY <2>1, <3>1, <3>2, <3>3, Closes
    <3>5. QED
      BY <2>1, <3>1, <3>4 DEF Ledger, TrialRecorded, MarkerRecorded
  <2>6. CASE ~(RollbackToRecord /\ HasOpenEntry(env.rollback)) /\ AcceptanceToRecord /\ HasOpenEntry(running)
    <3>1. /\ history' = Recorded(history, running, "accepted")
          /\ OpenEntries(history, running) # {} /\ ~env.upgrade /\ env.rollback = NoSlot
      BY <1>10, <2>2, <2>6 DEF Reconcile, HasOpenEntry, AcceptanceToRecord
    <3>2. "accepted" \notin Open
      BY DEF Open
    <3>3. RollbackTruthfully' /\ OneOpen'
      BY <2>1, <3>1, <3>2, Closes
    <3>4. QED
      BY <2>1, <3>1, <3>3 DEF Ledger, TrialRecorded, MarkerRecorded
  <2>7. CASE /\ ~(RollbackToRecord /\ HasOpenEntry(env.rollback))
             /\ ~(AcceptanceToRecord /\ HasOpenEntry(running))
    <3>1. history' = history
      BY <1>10, <2>7 DEF Reconcile
    <3>2. \A i \in DOMAIN history : OpenAt(i) => ~FellBack(i) /\ ~Unrecorded(i)
      BY <2>2, <2>3, <2>4, <2>7 DEF HasOpenEntry, OpenEntries, OpenAt
    <3>3. \A i \in DOMAIN history : Pending(i) => Pending(i)'
      BY <2>1, <3>1 DEF Pending
    <3>4. TrialRecorded /\ MarkerRecorded
      BY DEF OInv
    <3>5. QED
      BY <2>1, <3>1, <3>2, <3>3, <3>4, LedgerKept DEF Live, TrialRecorded, MarkerRecorded
  <2>8. QED
    BY <2>5, <2>6, <2>7
<1>11. CASE ReconcileClears
  <2>1. /\ history' = history /\ trialOp' = trialOp /\ stage' = stage /\ lock' = lock
        /\ running' = running /\ worker' = worker /\ switch' = switch /\ health = "clear" /\ stage = "linux"
        /\ reverted' = reverted /\ losses' = losses /\ env' = ClearedEnvironment(env)
    BY <1>0, <1>11 DEF ReconcileClears, IInv, LinuxOnly, OneLoss
  <2>2. env'.upgrade = env.upgrade /\ env'.active = env.active /\ env'.rollback = NoSlot
    BY <1>0, <2>1 DEF ClearedEnvironment, IInv, TypeOK, UBootEnvironment
  <2>3. \A i \in DOMAIN history : ~FellBack(i) /\ ~Unrecorded(i) /\ (Pending(i) => Pending(i)')
    BY <2>1, <2>2 DEF Pending, FellBack, Unrecorded
  <2>4. TrialRecorded
    BY DEF OInv
  <2>5. QED
    BY <2>1, <2>2, <2>3, <2>4, LedgerKept DEF Live, TrialRecorded
<1>12. CASE AcceptCommits
  <2>1. /\ history' = history /\ passed' = passed \union {trialOp} /\ health = "accepting" /\ stage = "linux"
        /\ health' = "record" /\ reverted' = reverted /\ losses' = losses /\ env.upgrade
        /\ env' = AcceptedEnvironment(env)
    BY <1>0, <1>12 DEF AcceptCommits, IInv, LinuxOnly, Evaluating
  <2>2. ~env'.upgrade /\ env'.active = env.active /\ env'.rollback = env.rollback
    BY <1>0, <2>1 DEF AcceptedEnvironment, IInv, TypeOK, UBootEnvironment
  <2>3. \A i \in DOMAIN history : ~FellBack(i) /\ ~Unrecorded(i) /\ (Pending(i) => Unrecorded(i)')
    BY <2>1, <2>2 DEF Pending, FellBack, Unrecorded
  <2>4. MarkerRecorded
    BY DEF OInv
  <2>5. QED
    BY <2>1, <2>2, <2>3, <2>4, LedgerKept DEF Live, MarkerRecorded
<1>13. CASE AcceptRecords
  <2>1. /\ ~env.upgrade /\ env' = env /\ health = "record" /\ stage = "linux" /\ reverted' = reverted
        /\ losses' = losses /\ running = env.active
    BY <1>0, <1>13 DEF AcceptRecords, IInv, LinuxOnly, Steady, Recording, SelectionFollowed
  <2>2. \A i \in DOMAIN history : ~FellBack(i) /\ ~Pending(i) /\ (Unrecorded(i) => history[i].slot = running)
    BY <2>1 DEF Pending, FellBack, Unrecorded
  <2>3. Readable = history /\ data = "rw"
    BY <1>0, <2>1 DEF Steady, Mounted, Readable
  <2>4. env.rollback # NoSlot => losses = MaxLosses
    BY <2>1, <2>2 DEF OInv, MarkerRecorded
  <2>5. CASE HasOpenEntry(running)
    <3>1. /\ history' = Recorded(history, running, "accepted")
          /\ OpenEntries(history, running) # {}
      BY <1>13, <2>3, <2>5 DEF AcceptRecords, HasOpenEntry
    <3>2. "accepted" \notin Open
      BY DEF Open
    <3>3. RollbackTruthfully' /\ OneOpen'
      BY <2>1, <3>1, <3>2, Closes
    <3>4. QED
      BY <2>1, <2>4, <3>3 DEF Ledger, TrialRecorded, MarkerRecorded
  <2>6. CASE ~HasOpenEntry(running)
    <3>1. history' = history
      BY <1>13, <2>6 DEF AcceptRecords
    <3>2. \A i \in DOMAIN history : OpenAt(i) => ~Live(i)
      BY <2>2, <2>3, <2>6 DEF HasOpenEntry, OpenEntries, OpenAt, Live
    <3>3. QED
      BY <2>1, <2>4, <3>1, <3>2, LedgerKept
  <2>7. QED
    BY <2>5, <2>6
<1>14. CASE HealthDeadline
  <2>1. /\ passed' = passed /\ env' = env /\ trialOp' = trialOp /\ stage' = stage /\ lock' = lock
        /\ running' = running /\ worker' = worker /\ switch' = switch /\ health = "evaluating"
        /\ stage = "linux" /\ reverted' = reverted /\ losses' = losses
    BY <1>0, <1>14 DEF HealthDeadline, IInv, LinuxOnly
  <2>2. \A i \in DOMAIN history : ~FellBack(i) /\ ~Unrecorded(i)
    BY <2>1 DEF FellBack, Unrecorded
  <2>3. Readable = history
    BY <1>0, <2>1 DEF Steady, Mounted, Readable
  <2>4. /\ TrialRecorded
        /\ env.rollback # NoSlot => losses = MaxLosses
    BY <2>1, <2>2 DEF OInv, MarkerRecorded
  <2>5. CASE history' = history
    <3>1. \A i \in DOMAIN history : Pending(i) => Pending(i)'
      BY <2>1, <2>5 DEF Pending
    <3>2. QED
      BY <2>1, <2>2, <2>4, <2>5, <3>1, LedgerKept DEF Live, TrialRecorded
  <2>6. CASE history' # history
    <3>1. /\ history' = Recorded(history, tried, "trial_failed")
          /\ OpenEntries(history, tried) # {} /\ history \in Seq(Entry)
      BY <1>0, <1>14, <2>3, <2>6 DEF HealthDeadline, HasOpenEntry, IInv, TypeOK, HistoryOK
    <3>2. DOMAIN history' = DOMAIN history /\ Len(history') = Len(history)
      BY <3>1, RecordedEffect
    <3>3. PICK i \in OpenEntries(history, tried) :
            \A j \in DOMAIN history :
              /\ history'[j].op = history[j].op /\ history'[j].slot = history[j].slot
              /\ history'[j].result = IF j = i THEN "trial_failed" ELSE history[j].result
      BY <3>1, RecordedEffect
    <3>4. \A j \in DOMAIN history : OpenAt(j)' <=> OpenAt(j)
      BY <3>3 DEF OpenAt, OpenEntries, Open
    <3>5. \A j \in DOMAIN history : Pending(j) => Pending(j)'
      BY <2>1, <3>3 DEF Pending
    <3>6. RollbackTruthfully'
      BY <2>1, <3>2, <3>3 DEF OInv, RollbackTruthfully
    <3>7. OneOpen'
      BY <2>2, <3>2, <3>4, <3>5 DEF OInv, OneOpen
    <3>8. TrialRecorded'
      BY <2>1, <2>4, <3>2, <3>4, <3>5 DEF TrialRecorded
    <3>9. QED
      BY <2>1, <2>4, <3>6, <3>7, <3>8 DEF Ledger, MarkerRecorded
  <2>7. QED
    BY <2>5, <2>6
<1>15. ~WorkerRebootFails /\ ~HealthRebootFails /\ ~AcceptFails
  BY DEF WorkerRebootFails, HealthRebootFails, AcceptFails, OneLoss
<1>16. QED
  BY <1>1, <1>2, <1>3, <1>4, <1>5, <1>6, <1>7, <1>8, <1>9, <1>10, <1>11, <1>12, <1>13, <1>14, <1>15
     DEF Next, Boot, Operator, Worker, Switch, Health

LEMMA InitLedger == Init => OInv
BY InitHistory
   DEF Init, SeedEnvironment, OInv, RollbackTruthfully, OneOpen, TrialRecorded, MarkerRecorded,
       Prepared, Trying

(***************************************************************************)
(* The history says of every update what became of it: accepted only what  *)
(* was accepted while it ran (firmware_health.py:274), fallen back only    *)
(* what U-Boot fell back from (firmware_health.py:259).  One power loss,   *)
(* at any point; the run stale_marker shows that two are too many.         *)
(***************************************************************************)
THEOREM HistoryIsTruthful ==
  ASSUME Requests = {}, Faults = {}, MaxLosses <= 1
  PROVE  Spec => []HistoryTruthful
<1>1. OneLoss
  BY DEF OneLoss
<1>2. Init => OInv
  BY InitLedger
<1>3. OInv /\ [Next]_vars => OInv'
  <2> SUFFICES ASSUME OInv, [Next]_vars PROVE OInv'
    OBVIOUS
  <2>1. HInv'
    BY NextSteady, NextTruth, NextInvariant DEF OInv, HInv, Steady, Truth
  <2>2. QED
    BY <1>1, <2>1, NextLedger, NextPrepared DEF OInv, Ledger
<1>4. OInv => HistoryTruthful
  BY DEF OInv, HInv, HistoryTruthful
<1>5. QED
  BY <1>2, <1>3, <1>4, PTL DEF Spec

-----------------------------------------------------------------------------
(***************************************************************************)
(* Release.                                                                *)
(***************************************************************************)

(***************************************************************************)
(* The options a run can be given.                                         *)
(***************************************************************************)
AnyOptions ==
  [force : BOOLEAN, publish : BOOLEAN, skip : BOOLEAN, zip : BOOLEAN, createTag : BOOLEAN]

Steps ==
  {"idle", "compile", "collect", "stage", "reuse", "sums", "publish", "push", "create", "edit",
   "upload", "verify"}

Builds == [build : Nat, whole : BOOLEAN]
Artifact == [kind : {"swu", "image", "raw"}, file : Builds]

(***************************************************************************)
(* Types, and that a run under way has validated the tag and has no        *)
(* outcome yet.                                                            *)
(***************************************************************************)
Sorted ==
  /\ head \in Nat /\ head >= 1 /\ tag \in Nat /\ origin \in Nat /\ output \in Nat
  /\ byHand \in BOOLEAN
  /\ artifacts \in Seq(Artifact)
  /\ DOMAIN prepared = {"image", "swu", "sums"}
  /\ DOMAIN release = {"state", "assets"}
  /\ release.state \in {"none", "draft", "public"}
  /\ opts \in AnyOptions
  /\ step \in Steps
  /\ step # "idle" => result = "none" /\ tag # 0

(***************************************************************************)
(* PublicTagged made inductive: a tag on the remote is the validated one   *)
(* unless it was made in the browser.                                      *)
(***************************************************************************)
Tagged ==
  /\ origin # 0 => byHand \/ origin = tag
  /\ release.state = "public" => origin # 0

(***************************************************************************)
(* What a run has looked at stays true until it acts on it: it edits and   *)
(* uploads only with --force, it creates a release only where there is     *)
(* none, and it makes nothing public before the tag is on the remote.      *)
(***************************************************************************)
Agreed ==
  /\ step = "push" => opts.publish /\ (release.state # "none" => opts.force)
  /\ step = "create" => release.state = "none" /\ (opts.publish => origin # 0)
  /\ step = "edit" => opts.force /\ (opts.publish => origin # 0)
  /\ step = "upload" => opts.force

(***************************************************************************)
(* Truthful made inductive: from SHA256SUMS on the staged files are those  *)
(* it names, and a run that builds with a ZIP finds its own build newest,  *)
(* stages it and publishes it.                                             *)
(***************************************************************************)
Publishing == {"publish", "push", "create", "edit", "upload", "verify"}
Fresh(n) == prepared[n] = Whole(output)

Staged ==
  /\ step = "stage" => todo \in {<<"image", "swu">>, <<"swu">>}
  /\ step \in Publishing =>
       prepared["sums"].image = prepared["image"] /\ prepared["sums"].swu = prepared["swu"]
  /\ ~opts.skip /\ opts.zip =>
       /\ step = "stage" => /\ Newest("image") = Whole(output) /\ Newest("swu") = Whole(output)
                            /\ todo = <<"swu">> => Fresh("image")
       /\ step \in {"sums"} \cup Publishing => Fresh("image") /\ Fresh("swu")
       /\ step # "reuse"

(***************************************************************************)
(* The inductive invariant.                                                *)
(***************************************************************************)
RInv == Sorted /\ Tagged /\ Agreed /\ Staged /\ Truthful

(***************************************************************************)
(* Sequences: of a pair, of a sequence with a pair appended, and the       *)
(* largest of a set of indices.                                            *)
(***************************************************************************)
LEMMA Pairs ==
  ASSUME NEW S, NEW a \in S, NEW b \in S
  PROVE  /\ <<>> \in Seq(S) /\ <<a>> \in Seq(S) /\ <<a, b>> \in Seq(S)
         /\ Len(<<a, b>>) = 2 /\ <<a, b>>[1] = a /\ <<a, b>>[2] = b
OBVIOUS

LEMMA PairAppended ==
  ASSUME NEW S, NEW s \in Seq(S), NEW c \in Seq(S), Len(c) = 2
  PROVE  /\ s \o c \in Seq(S) /\ Len(s \o c) = Len(s) + 2
         /\ (s \o c)[Len(s) + 1] = c[1] /\ (s \o c)[Len(s) + 2] = c[2]
<1>1. /\ s \o c \in Seq(S) /\ Len(s \o c) = Len(s) + Len(c)
      /\ \A i \in 1..Len(s) + Len(c) : (s \o c)[i] = IF i <= Len(s) THEN s[i] ELSE c[i - Len(s)]
  BY ConcatProperties
<1>2. Len(s) \in Nat
  OBVIOUS
<1> QED BY <1>1, <1>2

LEMMA Largest ==
  ASSUME NEW M, NEW m \in M, \A i \in M : i \in Nat /\ i <= m
  PROVE  (CHOOSE i \in M : \A j \in M : j <= i) = m
<1>1. \A i \in M : (\A j \in M : j <= i) <=> i = m
  OBVIOUS
<1> QED BY <1>1

(***************************************************************************)
(* What a build collects are two artifacts of its own, the second an image *)
(* if it makes a ZIP.                                                      *)
(***************************************************************************)
LEMMA Gathered ==
  ASSUME output \in Nat, opts \in AnyOptions
  PROVE  /\ Collected \in Seq(Artifact) /\ Len(Collected) = 2
         /\ Collected[1] \in Artifact /\ Collected[2] \in Artifact
         /\ Collected[1].kind = "swu" /\ Collected[1].file = Whole(output)
         /\ Collected[2].kind # "swu" /\ Collected[2].file = Whole(output)
         /\ opts.zip => Collected[2].kind = "image"
<1> DEFINE a == File("swu", Whole(output))
           b == File(IF opts.zip THEN "image" ELSE "raw", Whole(output))
<1>1. a \in Artifact /\ a.kind = "swu" /\ a.file = Whole(output)
  BY DEF File, Artifact, Builds, Whole
<1>2. /\ b \in Artifact /\ b.kind # "swu" /\ b.file = Whole(output)
      /\ opts.zip => b.kind = "image"
  BY DEF File, Artifact, Builds, Whole, AnyOptions
<1>3. Collected = <<a, b>>
  BY DEF Collected
<1> HIDE DEF a, b
<1> QED BY <1>1, <1>2, <1>3, Pairs

(***************************************************************************)
(* What was collected last is the newest match of its kind (newest_match). *)
(***************************************************************************)
LEMMA CollectedLast ==
  ASSUME artifacts \in Seq(Artifact), output \in Nat, opts \in AnyOptions,
         artifacts' = artifacts \o Collected
  PROVE  /\ artifacts' \in Seq(Artifact)
         /\ Newest("swu")' = Whole(output)
         /\ opts.zip => Newest("image")' = Whole(output)
<1> DEFINE n == Len(artifacts)
<1>1. /\ n \in Nat
      /\ Collected \in Seq(Artifact) /\ Len(Collected) = 2
  BY Gathered
<1>6. /\ Collected[1].kind = "swu" /\ Collected[1].file = Whole(output)
      /\ Collected[2].kind # "swu" /\ Collected[2].file = Whole(output)
      /\ opts.zip => Collected[2].kind = "image"
  BY Gathered
<1>2. /\ artifacts' \in Seq(Artifact) /\ Len(artifacts') = n + 2
      /\ artifacts'[n + 1] = Collected[1] /\ artifacts'[n + 2] = Collected[2]
  BY <1>1, PairAppended
<1>3. DOMAIN artifacts' = 1..(n + 2)
  BY <1>2, <1>1
<1> HIDE DEF n
<1>4. Newest("swu")' = Whole(output)
  <2> DEFINE M == Matching("swu")'
  <2>1. M = {i \in 1..(n + 2) : artifacts'[i].kind = "swu"}
    BY <1>3 DEF Matching
  <2>2. n + 1 \in M
    <3>1. artifacts'[n + 1].kind = "swu"
      BY <1>6, <1>2
    <3>2. n + 1 \in 1..(n + 2)
      BY <1>1
    <3> QED BY <3>1, <3>2, <2>1
  <2>3. n + 2 \notin M
    BY <1>6, <1>2, <2>1
  <2>4. \A i \in M : i \in Nat /\ i <= n + 1
    BY <1>1, <2>1, <2>3
  <2>6. (CHOOSE i \in M : \A j \in M : j <= i) = n + 1
    BY <2>2, <2>4, Largest
  <2>7. Newest("swu")' = artifacts'[CHOOSE i \in M : \A j \in M : j <= i].file
    BY DEF Newest
  <2> QED BY <1>6, <1>2, <2>6, <2>7
<1>5. opts.zip => Newest("image")' = Whole(output)
  <2> SUFFICES ASSUME opts.zip PROVE Newest("image")' = Whole(output)
    OBVIOUS
  <2> DEFINE M == Matching("image")'
  <2>1. M = {i \in 1..(n + 2) : artifacts'[i].kind = "image"}
    BY <1>3 DEF Matching
  <2>2. n + 2 \in M
    <3>1. artifacts'[n + 2].kind = "image"
      BY <1>6, <1>2
    <3>2. n + 2 \in 1..(n + 2)
      BY <1>1
    <3> QED BY <3>1, <3>2, <2>1
  <2>4. \A i \in M : i \in Nat /\ i <= n + 2
    BY <1>1, <2>1
  <2>6. (CHOOSE i \in M : \A j \in M : j <= i) = n + 2
    BY <2>2, <2>4, Largest
  <2>7. Newest("image")' = artifacts'[CHOOSE i \in M : \A j \in M : j <= i].file
    BY DEF Newest
  <2> QED BY <1>6, <1>2, <2>6, <2>7
<1> QED BY <1>2, <1>4, <1>5

(***************************************************************************)
(* What a broken collection leaves are artifacts too.                      *)
(***************************************************************************)
LEMMA ScrapsTyped ==
  ASSUME artifacts \in Seq(Artifact), output \in Nat, opts \in AnyOptions
  PROVE  \A left \in Scraps : artifacts \o left \in Seq(Artifact)
<1> DEFINE a == Collected[1]
           b == Collected[2]
           half == [b EXCEPT !.file = Part(output)]
           part == File("swu", Part(output))
<1>1. a \in Artifact /\ b \in Artifact
  BY Gathered
<1>2. part \in Artifact
  BY DEF File, Artifact, Builds, Part
<1>4. half \in Artifact
  <2>1. Part(output) \in Builds
    BY DEF Builds, Part
  <2> HIDE DEF b
  <2> QED BY <1>1, <2>1 DEF Artifact
<1>5. Scraps = {<<>>, <<part>>, <<a>>, <<a, half>>}
  BY DEF Scraps
<1> HIDE DEF a, b, half, part
<1>6. /\ <<>> \in Seq(Artifact) /\ <<a>> \in Seq(Artifact) /\ <<a, half>> \in Seq(Artifact)
  BY <1>1, <1>4, Pairs
<1>7. <<part>> \in Seq(Artifact)
  BY <1>2, Pairs
<1>3. \A left \in Scraps : left \in Seq(Artifact)
  BY <1>5, <1>6, <1>7
<1> QED BY <1>3

(***************************************************************************)
(* Each part of the invariant, step by step.                               *)
(***************************************************************************)
LEMMA SortedKept ==
  ASSUME Sorted, [RelNext]_relVars
  PROVE  Sorted'
<1>0. \A o \in Options : o \in AnyOptions
  BY OptionsAssumption DEF AnyOptions
<1>1. CASE Commit
  BY <1>1 DEF Commit, Sorted, Steps, local, remote, run, Smooth, Breaking, RunEnds, Goes
<1>2. ASSUME NEW o \in Options, Start(o) PROVE Sorted'
  BY <1>2, <1>0 DEF Start, AnyOptions, Validated, Sorted, Steps, local, remote, run, Smooth,
     Breaking, RunEnds, Goes
<1>3. CASE Compile
  BY <1>3 DEF Compile, Sorted, Steps, local, remote, run, Smooth, Breaking, RunEnds, Goes
<1>4. CASE Collect
  <2>1. UNCHANGED <<head, tag, origin, output, byHand, prepared, release, opts>>
    BY <1>4 DEF Collect, remote, RunEnds, Goes
  <2>2. artifacts' \in Seq(Artifact)
    BY <1>4, CollectedLast, ScrapsTyped DEF Collect, Sorted
  <2>3. step' \in Steps /\ (step' # "idle" => result' = "none" /\ tag # 0)
    BY <1>4 DEF Collect, Sorted, Steps, RunEnds, Goes
  <2> QED BY <2>1, <2>2, <2>3 DEF Sorted
<1>5. CASE StageAsset
  BY <1>5 DEF StageAsset, Sorted, Steps, local, remote, run, Smooth, Breaking, RunEnds, Goes
<1>6. CASE Reuse
  BY <1>6 DEF Reuse, Sorted, Steps, local, remote, run, Smooth, Breaking, RunEnds, Goes
<1>7. CASE WriteChecksums
  BY <1>7 DEF WriteChecksums, Sorted, Steps, local, remote, run, Smooth, Breaking, RunEnds, Goes
<1>8. CASE Publish
  BY <1>8 DEF Publish, Sorted, Steps, local, remote, run, Smooth, Breaking, RunEnds, Goes
<1>9. CASE Push
  BY <1>9 DEF Push, Sorted, Steps, local, remote, run, Smooth, Breaking, RunEnds, Goes
<1>10. CASE Create
  <2>1. UNCHANGED <<head, tag, origin, output, byHand, prepared, artifacts, opts>>
    BY <1>10 DEF Create, local, RunEnds, Goes
  <2>2. DOMAIN release' = {"state", "assets"} /\ release'.state \in {"none", "draft", "public"}
    BY <1>10 DEF Create, Sorted, Mode
  <2>3. step' \in Steps /\ (step' # "idle" => result' = "none" /\ tag # 0)
    BY <1>10 DEF Create, Sorted, Steps, RunEnds, Goes
  <2> QED BY <2>1, <2>2, <2>3 DEF Sorted
<1>11. CASE Edit
  <2>1. UNCHANGED <<head, tag, origin, output, byHand, prepared, artifacts, opts>>
    BY <1>11 DEF Edit, local, RunEnds, Goes
  <2>2. DOMAIN release' = {"state", "assets"} /\ release'.state \in {"none", "draft", "public"}
    BY <1>11 DEF Edit, Sorted, Mode
  <2>3. step' \in Steps /\ (step' # "idle" => result' = "none" /\ tag # 0)
    BY <1>11 DEF Edit, Sorted, Steps, RunEnds, Goes
  <2> QED BY <2>1, <2>2, <2>3 DEF Sorted
<1>12. CASE UploadAsset
  <2>1. UNCHANGED <<head, tag, origin, output, byHand, prepared, artifacts, opts>>
    BY <1>12 DEF UploadAsset, local, RunEnds, Goes
  <2>2. DOMAIN release' = {"state", "assets"} /\ release'.state \in {"none", "draft", "public"}
    BY <1>12 DEF UploadAsset, Sorted, Mode
  <2>3. step' \in Steps /\ (step' # "idle" => result' = "none" /\ tag # 0)
    BY <1>12 DEF UploadAsset, Sorted, Steps, RunEnds, Goes
  <2> QED BY <2>1, <2>2, <2>3 DEF Sorted
<1>13. CASE Uploaded
  BY <1>13 DEF Uploaded, Sorted, Steps, local, remote, run, Smooth, Breaking, RunEnds, Goes
<1>14. CASE Verify
  BY <1>14 DEF Verify, Sorted, Steps, local, remote, run, Smooth, Breaking, RunEnds, Goes
<1>15. CASE PublishDraft
  <2>1. UNCHANGED <<head, tag, output, prepared, artifacts, opts, step, result>>
    BY <1>15 DEF PublishDraft, local, run
  <2>2. DOMAIN release' = {"state", "assets"} /\ release'.state = "public"
    BY <1>15 DEF PublishDraft, Sorted
  <2>3. origin' \in Nat /\ byHand' \in BOOLEAN
    <3>1. CASE origin # 0
      <4>1. UNCHANGED <<origin, byHand>>
        BY <1>15, <3>1 DEF PublishDraft
      <4> QED BY <4>1 DEF Sorted
    <3>2. CASE origin = 0
      <4>1. byHand' = TRUE /\ origin' \in 1..head
        BY <1>15, <3>2 DEF PublishDraft
      <4>2. origin' \in Nat
        BY <4>1 DEF Sorted
      <4> QED BY <4>1, <4>2
    <3> QED BY <3>1, <3>2
  <2> QED BY <2>1, <2>2, <2>3 DEF Sorted
<1>16. CASE DiscardDraft
  <2>1. UNCHANGED <<head, tag, origin, byHand, output, prepared, artifacts, opts, step, result>>
    BY <1>16 DEF DiscardDraft, local, run
  <2>2. DOMAIN release' = {"state", "assets"} /\ release'.state = "none"
    <3> DEFINE assets == [n \in Names |-> NoFile]
    <3>1. release' = [state |-> "none", assets |-> assets]
      BY <1>16 DEF DiscardDraft, Absent
    <3> HIDE DEF assets
    <3> QED BY <3>1
  <2> QED BY <2>1, <2>2 DEF Sorted
<1>17. CASE UNCHANGED relVars
  BY <1>17 DEF relVars, local, remote, run, Sorted, Steps, local, remote, run, Smooth, Breaking,
     RunEnds, Goes
<1> QED BY <1>1, <1>2, <1>3, <1>4, <1>5, <1>6, <1>7, <1>8, <1>9, <1>10, <1>11, <1>12, <1>13, <1>14, <1>15, <1>16, <1>17 DEF RelNext

LEMMA TaggedKept ==
  ASSUME Sorted, Tagged, Agreed, [RelNext]_relVars
  PROVE  Tagged'
<1>1. CASE Commit
  BY <1>1 DEF Commit, Sorted, Tagged, Agreed, local, remote, run, Smooth, RunEnds, Goes
<1>2. ASSUME NEW o \in Options, Start(o) PROVE Tagged'
  BY <1>2 DEF Start, Validated, Sorted, Tagged, Agreed, local, remote, run, Smooth, RunEnds, Goes
<1>3. CASE Compile
  BY <1>3 DEF Compile, Sorted, Tagged, Agreed, local, remote, run, Smooth, RunEnds, Goes
<1>4. CASE Collect
  BY <1>4 DEF Collect, Sorted, Tagged, Agreed, local, remote, run, Smooth, RunEnds, Goes
<1>5. CASE StageAsset
  BY <1>5 DEF StageAsset, Sorted, Tagged, Agreed, local, remote, run, Smooth, RunEnds, Goes
<1>6. CASE Reuse
  BY <1>6 DEF Reuse, Sorted, Tagged, Agreed, local, remote, run, Smooth, RunEnds, Goes
<1>7. CASE WriteChecksums
  BY <1>7 DEF WriteChecksums, Sorted, Tagged, Agreed, local, remote, run, Smooth, RunEnds, Goes
<1>8. CASE Publish
  BY <1>8 DEF Publish, Refused, NeedsTag, Sorted, Tagged, Agreed, local, remote, run, Smooth,
     RunEnds, Goes
<1>9. CASE Push
  BY <1>9 DEF Push, Mode, Breaking, Sorted, Tagged, Agreed, local, remote, run, Smooth, RunEnds, Goes
<1>10. CASE Create
  BY <1>10 DEF Create, Mode, Breaking, Sorted, Tagged, Agreed, local, remote, run, Smooth, RunEnds, Goes
<1>11. CASE Edit
  BY <1>11 DEF Edit, Mode, Breaking, Sorted, Tagged, Agreed, local, remote, run, Smooth, RunEnds, Goes
<1>12. CASE UploadAsset
  BY <1>12 DEF UploadAsset, Sorted, Tagged, Agreed, local, remote, run, Smooth, RunEnds, Goes
<1>13. CASE Uploaded
  BY <1>13 DEF Uploaded, Sorted, Tagged, Agreed, local, remote, run, Smooth, RunEnds, Goes
<1>14. CASE Verify
  BY <1>14 DEF Verify, Sorted, Tagged, Agreed, local, remote, run, Smooth, RunEnds, Goes
<1>15. CASE PublishDraft
  BY <1>15 DEF PublishDraft, Sorted, Tagged, Agreed, local, remote, run, Smooth, RunEnds, Goes
<1>16. CASE DiscardDraft
  <2>1. release'.state = "none" /\ UNCHANGED <<origin, byHand, tag>>
    <3> DEFINE assets == [n \in Names |-> NoFile]
    <3>1. release' = [state |-> "none", assets |-> assets]
      BY <1>16 DEF DiscardDraft, Absent
    <3> HIDE DEF assets
    <3> QED BY <1>16, <3>1 DEF DiscardDraft
  <2> QED BY <2>1 DEF Tagged
<1>17. CASE UNCHANGED relVars
  BY <1>17 DEF relVars, local, remote, run, Sorted, Tagged, Agreed, local, remote, run, Smooth,
     RunEnds, Goes
<1> QED BY <1>1, <1>2, <1>3, <1>4, <1>5, <1>6, <1>7, <1>8, <1>9, <1>10, <1>11, <1>12, <1>13, <1>14, <1>15, <1>16, <1>17 DEF RelNext

LEMMA AgreedKept ==
  ASSUME Sorted, Agreed, [RelNext]_relVars
  PROVE  Agreed'
<1>1. CASE Commit
  BY <1>1 DEF Commit, Sorted, Tagged, Agreed, local, remote, run, Smooth, RunEnds, Goes
<1>2. ASSUME NEW o \in Options, Start(o) PROVE Agreed'
  BY <1>2 DEF Start, Validated, Sorted, Tagged, Agreed, local, remote, run, Smooth, RunEnds, Goes
<1>3. CASE Compile
  BY <1>3 DEF Compile, Sorted, Tagged, Agreed, local, remote, run, Smooth, RunEnds, Goes
<1>4. CASE Collect
  BY <1>4 DEF Collect, Sorted, Tagged, Agreed, local, remote, run, Smooth, RunEnds, Goes
<1>5. CASE StageAsset
  BY <1>5 DEF StageAsset, Sorted, Tagged, Agreed, local, remote, run, Smooth, RunEnds, Goes
<1>6. CASE Reuse
  BY <1>6 DEF Reuse, Sorted, Tagged, Agreed, local, remote, run, Smooth, RunEnds, Goes
<1>7. CASE WriteChecksums
  BY <1>7 DEF WriteChecksums, Sorted, Tagged, Agreed, local, remote, run, Smooth, RunEnds, Goes
<1>8. CASE Publish
  BY <1>8 DEF Publish, Refused, NeedsTag, Sorted, Tagged, Agreed, local, remote, run, Smooth,
     RunEnds, Goes
<1>9. CASE Push
  BY <1>9 DEF Push, Mode, Breaking, Sorted, Tagged, Agreed, local, remote, run, Smooth, RunEnds, Goes
<1>10. CASE Create
  BY <1>10 DEF Create, Mode, Breaking, Sorted, Tagged, Agreed, local, remote, run, Smooth, RunEnds, Goes
<1>11. CASE Edit
  BY <1>11 DEF Edit, Mode, Breaking, Sorted, Tagged, Agreed, local, remote, run, Smooth, RunEnds, Goes
<1>12. CASE UploadAsset
  BY <1>12 DEF UploadAsset, Sorted, Tagged, Agreed, local, remote, run, Smooth, RunEnds, Goes
<1>13. CASE Uploaded
  BY <1>13 DEF Uploaded, Sorted, Tagged, Agreed, local, remote, run, Smooth, RunEnds, Goes
<1>14. CASE Verify
  BY <1>14 DEF Verify, Sorted, Tagged, Agreed, local, remote, run, Smooth, RunEnds, Goes
<1>15. CASE PublishDraft
  BY <1>15 DEF PublishDraft, Sorted, Tagged, Agreed, local, remote, run, Smooth, RunEnds, Goes
<1>16. CASE DiscardDraft
  BY <1>16 DEF DiscardDraft, Sorted, Tagged, Agreed, local, remote, run, Smooth, RunEnds, Goes
<1>17. CASE UNCHANGED relVars
  BY <1>17 DEF relVars, local, remote, run, Sorted, Tagged, Agreed, local, remote, run, Smooth,
     RunEnds, Goes
<1> QED BY <1>1, <1>2, <1>3, <1>4, <1>5, <1>6, <1>7, <1>8, <1>9, <1>10, <1>11, <1>12, <1>13, <1>14, <1>15, <1>16, <1>17 DEF RelNext

(***************************************************************************)
(* No step without --force replaces a staged file or touches a public      *)
(* release.                                                                *)
(***************************************************************************)
LEMMA NothingReplaced ==
  ASSUME Sorted, Agreed, [RelNext]_relVars
  PROVE  NoSilentReplace
<1>1. CASE Commit
  BY <1>1 DEF Commit, local, remote, run, Smooth, Breaking, RunEnds, Goes, relVars,
     NoSilentReplace, Sorted, Agreed
<1>2. ASSUME NEW o \in Options, Start(o) PROVE NoSilentReplace
  BY <1>2 DEF Start, local, remote, run, Smooth, Breaking, RunEnds, Goes, relVars,
     NoSilentReplace, Sorted, Agreed
<1>3. CASE Compile
  BY <1>3 DEF Compile, local, remote, run, Smooth, Breaking, RunEnds, Goes, relVars,
     NoSilentReplace, Sorted, Agreed
<1>4. CASE Collect
  BY <1>4 DEF Collect, local, remote, run, Smooth, Breaking, RunEnds, Goes, relVars,
     NoSilentReplace, Sorted, Agreed
<1>5. CASE StageAsset
  BY <1>5 DEF StageAsset, local, remote, run, Smooth, Breaking, RunEnds, Goes, relVars,
     NoSilentReplace, Sorted, Agreed
<1>6. CASE Reuse
  BY <1>6 DEF Reuse, local, remote, run, Smooth, Breaking, RunEnds, Goes, relVars,
     NoSilentReplace, Sorted, Agreed
<1>7. CASE WriteChecksums
  BY <1>7 DEF WriteChecksums, local, remote, run, Smooth, Breaking, RunEnds, Goes, relVars,
     NoSilentReplace, Sorted, Agreed
<1>8. CASE Publish
  BY <1>8 DEF Publish, local, remote, run, Smooth, Breaking, RunEnds, Goes, relVars,
     NoSilentReplace, Sorted, Agreed
<1>9. CASE Push
  BY <1>9 DEF Push, local, remote, run, Smooth, Breaking, RunEnds, Goes, relVars, NoSilentReplace,
     Sorted, Agreed
<1>10. CASE Create
  BY <1>10 DEF Create, local, remote, run, Smooth, Breaking, RunEnds, Goes, relVars,
     NoSilentReplace, Sorted, Agreed
<1>11. CASE Edit
  BY <1>11 DEF Edit, local, remote, run, Smooth, Breaking, RunEnds, Goes, relVars,
     NoSilentReplace, Sorted, Agreed
<1>12. CASE UploadAsset
  BY <1>12 DEF UploadAsset, local, remote, run, Smooth, Breaking, RunEnds, Goes, relVars,
     NoSilentReplace, Sorted, Agreed
<1>13. CASE Uploaded
  BY <1>13 DEF Uploaded, local, remote, run, Smooth, Breaking, RunEnds, Goes, relVars,
     NoSilentReplace, Sorted, Agreed
<1>14. CASE Verify
  BY <1>14 DEF Verify, local, remote, run, Smooth, Breaking, RunEnds, Goes, relVars,
     NoSilentReplace, Sorted, Agreed
<1>15. CASE PublishDraft
  BY <1>15 DEF PublishDraft, local, remote, run, Smooth, Breaking, RunEnds, Goes, relVars,
     NoSilentReplace, Sorted, Agreed
<1>16. CASE DiscardDraft
  BY <1>16 DEF DiscardDraft, local, remote, run, Smooth, Breaking, RunEnds, Goes, relVars,
     NoSilentReplace, Sorted, Agreed
<1>17. CASE UNCHANGED relVars
  BY <1>17 DEF relVars, local, remote, run, local, remote, run, Smooth, Breaking, RunEnds, Goes,
     relVars, NoSilentReplace, Sorted, Agreed
<1> QED BY <1>1, <1>2, <1>3, <1>4, <1>5, <1>6, <1>7, <1>8, <1>9, <1>10, <1>11, <1>12, <1>13, <1>14, <1>15, <1>16, <1>17 DEF RelNext

(***************************************************************************)
(* The steps that publish stage nothing.                                   *)
(***************************************************************************)
LEMMA Restaged ==
  ASSUME UNCHANGED <<prepared, output, opts>>, Staged, step \in Publishing,
         step' \in Publishing \cup {"idle"}
  PROVE  Staged'
BY DEF Staged, Fresh, Publishing

(***************************************************************************)
(* An asset is staged from the newest match of its kind.                   *)
(***************************************************************************)
LEMMA OneStaged ==
  ASSUME Sorted, Staged, StageAsset
  PROVE  Staged'
<1> DEFINE n == Head(todo)
           source == Newest(n)
<1>1. /\ step = "stage" /\ todo \in {<<"image", "swu">>, <<"swu">>}
      /\ UNCHANGED <<output, artifacts, opts>>
  BY DEF StageAsset, Staged, RunEnds, Goes
<1>2. UNCHANGED <<Newest("image"), Newest("swu")>>
  BY <1>1 DEF Newest, Matching
<1>3. CASE step' = "idle"
  BY <1>1, <1>3 DEF Staged, Publishing
<1>4. CASE step' # "idle"
  <2>1. /\ \/ prepared' = [prepared EXCEPT ![n] = source]
           \/ prepared' = prepared /\ prepared[n] = source
        /\ todo' = Tail(todo)
        /\ step' = (IF Len(todo) = 1 THEN "sums" ELSE "stage")
    BY <1>4 DEF StageAsset, RunEnds, Goes
  <2>2. CASE todo = <<"image", "swu">>
    <3>1. n = "image" /\ todo' = <<"swu">> /\ step' = "stage"
      BY <2>1, <2>2
    <3>2. prepared'["image"] = Newest("image")
      BY <2>1, <3>1 DEF Sorted
    <3>3. ~opts.skip /\ opts.zip => Newest("image") = Whole(output) /\ Newest("swu") = Whole(output)
      BY <1>1 DEF Staged
    <3> QED BY <1>1, <1>2, <3>1, <3>2, <3>3 DEF Staged, Fresh, Publishing
  <2>3. CASE todo = <<"swu">>
    <3>1. n = "swu" /\ step' = "sums"
      BY <2>1, <2>3
    <3>2. prepared'["swu"] = Newest("swu") /\ prepared'["image"] = prepared["image"]
      BY <2>1, <3>1 DEF Sorted
    <3>3. ~opts.skip /\ opts.zip => Fresh("image") /\ Newest("swu") = Whole(output)
      BY <1>1, <2>3 DEF Staged
    <3> QED BY <1>1, <3>1, <3>2, <3>3 DEF Staged, Fresh, Publishing
  <2> QED BY <1>1, <2>2, <2>3
<1> QED BY <1>3, <1>4

LEMMA StagedKept ==
  ASSUME Sorted, Staged, [RelNext]_relVars
  PROVE  Staged'
<1>1. CASE Commit
  <2>1. UNCHANGED <<prepared, output, opts, artifacts, step, todo>>
    BY <1>1 DEF Commit, local, run
  <2> QED BY <2>1 DEF Staged, Fresh, Publishing, Newest, Matching
<1>2. ASSUME NEW o \in Options, Start(o) PROVE Staged'
  <2>1. step = "idle" /\ opts' = o /\ step' \in {"idle", "compile", "reuse"} /\ (step' = "reuse" => o.skip)
    BY <1>2 DEF Start, Validated
  <2> QED BY <2>1 DEF Staged, Publishing
<1>3. CASE Compile
  <2>1. step' \in {"idle", "collect"}
    BY <1>3 DEF Compile, RunEnds, Goes
  <2> QED BY <2>1 DEF Staged, Publishing
<1>4. CASE Collect
  <2>1. CASE step' = "idle"
    BY <1>4, <2>1 DEF Staged, Publishing
  <2>2. CASE step' # "idle"
    <3>1. /\ artifacts' = artifacts \o Collected /\ step' = "stage" /\ todo' = <<"image", "swu">>
          /\ UNCHANGED <<output, opts>>
      BY <1>4, <2>2 DEF Collect, RunEnds, Goes
    <3>2. Newest("swu")' = Whole(output) /\ (opts.zip => Newest("image")' = Whole(output))
      BY <3>1, CollectedLast DEF Sorted
    <3>3. todo' # <<"swu">>
      BY <3>1
    <3> QED BY <3>1, <3>2, <3>3 DEF Staged, Publishing
  <2> QED BY <2>1, <2>2
<1>5. CASE StageAsset
  BY <1>5, OneStaged
<1>6. CASE Reuse
  <2>1. step = "reuse" /\ step' \in {"idle", "sums"} /\ opts' = opts
    BY <1>6 DEF Reuse, RunEnds, Goes
  <2> QED BY <2>1 DEF Staged, Publishing
<1>7. CASE WriteChecksums
  <2> DEFINE sums == [build |-> prepared["image"].build, image |-> prepared["image"], swu |-> prepared["swu"]]
  <2>1. /\ step = "sums" /\ step' = "publish" /\ UNCHANGED <<opts, output>>
        /\ prepared' = [prepared EXCEPT !["sums"] = sums]
    BY <1>7 DEF WriteChecksums, Goes
  <2>2. sums.image = prepared["image"] /\ sums.swu = prepared["swu"]
    OBVIOUS
  <2> HIDE DEF sums
  <2>3. prepared'["sums"] = sums /\ prepared'["image"] = prepared["image"] /\ prepared'["swu"] = prepared["swu"]
    BY <2>1 DEF Sorted
  <2> QED BY <2>1, <2>2, <2>3 DEF Staged, Fresh, Publishing
<1>8. CASE Publish
  <2>1. UNCHANGED <<prepared, output, opts>> /\ step \in Publishing /\ step' \in Publishing \cup {"idle"}
    BY <1>8 DEF Publish, local, remote, run, RunEnds, Goes, Publishing
  <2> QED BY <2>1, Restaged
<1>9. CASE Push
  <2>1. UNCHANGED <<prepared, output, opts>> /\ step \in Publishing /\ step' \in Publishing \cup {"idle"}
    BY <1>9 DEF Push, local, remote, run, RunEnds, Goes, Publishing
  <2> QED BY <2>1, Restaged
<1>10. CASE Create
  <2>1. UNCHANGED <<prepared, output, opts>> /\ step \in Publishing /\ step' \in Publishing \cup {"idle"}
    BY <1>10 DEF Create, local, remote, run, RunEnds, Goes, Publishing
  <2> QED BY <2>1, Restaged
<1>11. CASE Edit
  <2>1. UNCHANGED <<prepared, output, opts>> /\ step \in Publishing /\ step' \in Publishing \cup {"idle"}
    BY <1>11 DEF Edit, local, remote, run, RunEnds, Goes, Publishing
  <2> QED BY <2>1, Restaged
<1>12. CASE UploadAsset
  <2>1. UNCHANGED <<prepared, output, opts>> /\ step \in Publishing /\ step' \in Publishing \cup {"idle"}
    BY <1>12 DEF UploadAsset, local, remote, run, RunEnds, Goes, Publishing
  <2> QED BY <2>1, Restaged
<1>13. CASE Uploaded
  <2>1. UNCHANGED <<prepared, output, opts>> /\ step \in Publishing /\ step' \in Publishing \cup {"idle"}
    BY <1>13 DEF Uploaded, local, remote, run, RunEnds, Goes, Publishing
  <2> QED BY <2>1, Restaged
<1>14. CASE Verify
  <2>1. UNCHANGED <<prepared, output, opts>> /\ step \in Publishing /\ step' \in Publishing \cup {"idle"}
    BY <1>14 DEF Verify, local, remote, run, RunEnds, Goes, Publishing
  <2> QED BY <2>1, Restaged
<1>15. CASE PublishDraft
  <2>1. UNCHANGED <<prepared, output, opts, artifacts, step, todo>>
    BY <1>15 DEF PublishDraft, local, run
  <2> QED BY <2>1 DEF Staged, Fresh, Publishing, Newest, Matching
<1>16. CASE DiscardDraft
  <2>1. UNCHANGED <<prepared, output, opts, artifacts, step, todo>>
    BY <1>16 DEF DiscardDraft, local, run
  <2> QED BY <2>1 DEF Staged, Fresh, Publishing, Newest, Matching
<1>17. CASE UNCHANGED relVars
  BY <1>17 DEF relVars, local, remote, run, Staged, Fresh, Publishing, Newest, Matching
<1> QED BY <1>1, <1>2, <1>3, <1>4, <1>5, <1>6, <1>7, <1>8, <1>9, <1>10, <1>11, <1>12, <1>13, <1>14, <1>15, <1>16, <1>17 DEF RelNext

LEMMA TruthfulKept ==
  ASSUME Sorted, Staged, Truthful, [RelNext]_relVars
  PROVE  Truthful'
<1>1. CASE Commit
  <2>1. UNCHANGED <<result, output, opts, release.assets>> /\ release'.state \in {release.state, "public"}
    BY <1>1 DEF Commit, local, remote, run, Sorted
  <2> QED BY <2>1 DEF Truthful, Mode
<1>2. ASSUME NEW o \in Options, Start(o) PROVE Truthful'
  <2>1. result' # "released"
    BY <1>2 DEF Start, RunEnds, Goes, Sorted
  <2> QED BY <2>1 DEF Truthful
<1>3. CASE Compile
  <2>1. result' # "released"
    BY <1>3 DEF Compile, RunEnds, Goes, Sorted
  <2> QED BY <2>1 DEF Truthful
<1>4. CASE Collect
  <2>1. result' # "released"
    BY <1>4 DEF Collect, RunEnds, Goes, Sorted
  <2> QED BY <2>1 DEF Truthful
<1>5. CASE StageAsset
  <2>1. result' # "released"
    BY <1>5 DEF StageAsset, RunEnds, Goes, Sorted
  <2> QED BY <2>1 DEF Truthful
<1>6. CASE Reuse
  <2>1. result' # "released"
    BY <1>6 DEF Reuse, RunEnds, Goes, Sorted
  <2> QED BY <2>1 DEF Truthful
<1>7. CASE WriteChecksums
  <2>1. result' # "released"
    BY <1>7 DEF WriteChecksums, RunEnds, Goes, Sorted
  <2> QED BY <2>1 DEF Truthful
<1>8. CASE Publish
  <2>1. result' # "released"
    BY <1>8 DEF Publish, RunEnds, Goes, Sorted
  <2> QED BY <2>1 DEF Truthful
<1>9. CASE Push
  <2>1. result' # "released"
    BY <1>9 DEF Push, RunEnds, Goes, Sorted
  <2> QED BY <2>1 DEF Truthful
<1>10. CASE Create
  <2>1. result' # "released"
    BY <1>10 DEF Create, RunEnds, Goes, Sorted
  <2> QED BY <2>1 DEF Truthful
<1>11. CASE Edit
  <2>1. result' # "released"
    BY <1>11 DEF Edit, RunEnds, Goes, Sorted
  <2> QED BY <2>1 DEF Truthful
<1>12. CASE UploadAsset
  <2>1. result' # "released"
    BY <1>12 DEF UploadAsset, RunEnds, Goes, Sorted
  <2> QED BY <2>1 DEF Truthful
<1>13. CASE Uploaded
  <2>1. result' # "released"
    BY <1>13 DEF Uploaded, RunEnds, Goes, Sorted
  <2> QED BY <2>1 DEF Truthful
<1>14. CASE Verify
  <2>1. CASE ~Matches
    BY <1>14, <2>1 DEF Verify, RunEnds, Truthful
  <2>2. CASE Matches
    <3>1. UNCHANGED <<output, opts, release>>
      BY <1>14 DEF Verify, local, remote, RunEnds
    <3>2. /\ release.state = Mode
          /\ \A n \in {"image", "swu", "sums"} : release.assets[n] = prepared[n]
      BY <2>2 DEF Matches, Names
    <3>3. prepared["sums"].image = prepared["image"] /\ prepared["sums"].swu = prepared["swu"]
      BY <1>14 DEF Verify, Staged, Publishing
    <3>4. ~opts.skip /\ opts.zip => Fresh("image") /\ Fresh("swu")
      BY <1>14 DEF Verify, Staged, Publishing
    <3> QED BY <3>1, <3>2, <3>3, <3>4 DEF Truthful, Mode, Fresh
  <2> QED BY <2>1, <2>2
<1>15. CASE PublishDraft
  <2>1. UNCHANGED <<result, output, opts, release.assets>> /\ release'.state \in {release.state, "public"}
    BY <1>15 DEF PublishDraft, local, run, Sorted
  <2> QED BY <2>1 DEF Truthful, Mode
<1>16. CASE DiscardDraft
  <2>1. result' # "released"
    BY <1>16 DEF DiscardDraft, run
  <2> QED BY <2>1 DEF Truthful
<1>17. CASE UNCHANGED relVars
  BY <1>17 DEF relVars, local, remote, run, Truthful, Mode
<1> QED BY <1>1, <1>2, <1>3, <1>4, <1>5, <1>6, <1>7, <1>8, <1>9, <1>10, <1>11, <1>12, <1>13, <1>14, <1>15, <1>16, <1>17 DEF RelNext

LEMMA Started == RelInit => RInv
<1> SUFFICES ASSUME RelInit PROVE RInv
  OBVIOUS
<1>1. Sorted
  <2>1. release.state = "none" /\ DOMAIN release = {"state", "assets"}
    BY DEF RelInit, Absent
  <2>2. opts \in AnyOptions
    BY DEF RelInit, NoOptions, AnyOptions
  <2>3. artifacts \in Seq(Artifact)
    BY DEF RelInit
  <2>4. DOMAIN prepared = {"image", "swu", "sums"}
    BY DEF RelInit, Names
  <2>5. /\ head = 1 /\ tag = 0 /\ output = 0 /\ origin = 0
        /\ step = "idle"
    BY DEF RelInit
  <2>6. byHand \in BOOLEAN
    BY DEF RelInit
  <2>7. head \in Nat /\ head >= 1 /\ tag \in Nat /\ origin \in Nat /\ output \in Nat
    BY <2>5
  <2>8. release.state \in {"none", "draft", "public"}
    BY <2>1
  <2>9. step \in Steps /\ (step # "idle" => result = "none" /\ tag # 0)
    BY <2>5 DEF Steps
  <2> QED BY <2>1, <2>2, <2>3, <2>4, <2>6, <2>7, <2>8, <2>9 DEF Sorted
<1>2. Tagged
  BY DEF RelInit, Tagged, Absent
<1>3. Agreed /\ Staged /\ Truthful
  <2>1. step = "idle" /\ result = "none"
    BY DEF RelInit
  <2> QED BY <2>1 DEF Agreed, Staged, Truthful, Publishing
<1> QED BY <1>1, <1>2, <1>3 DEF RInv

(***************************************************************************)
(* However often a release is run, with whatever options, wherever a run   *)
(* breaks off, whatever is committed meanwhile and whatever the owner does *)
(* in the browser: a run that says "released" has left what it was asked   *)
(* for, whatever is public has the tag that was validated or one made by   *)
(* hand, and without --force nothing that is public or has a published     *)
(* name is replaced.                                                       *)
(***************************************************************************)
THEOREM ReleasesAreKept == RelSpec => ReleaseKept
<1>1. RelInit => RInv
  BY Started
<1>2. RInv /\ [RelNext]_relVars => RInv'
  BY SortedKept, TaggedKept, AgreedKept, StagedKept, TruthfulKept DEF RInv
<1>3. RInv => Truthful /\ PublicTagged
  BY DEF RInv, Tagged, PublicTagged
<1>4. RInv /\ [RelNext]_relVars => [NoSilentReplace]_relVars
  BY NothingReplaced DEF RInv
<1> QED BY <1>1, <1>2, <1>3, <1>4, PTL DEF RelSpec, ReleaseKept

=============================================================================
