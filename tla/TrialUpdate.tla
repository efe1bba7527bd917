----------------------------- MODULE TrialUpdate -----------------------------
(***************************************************************************)
(* What A/B updating promises, without slots, images, processes or crashes *)
(* (README.md:54, doc/firmware-update-architecture.md:12-19): one slot is  *)
(* always known to be good; the other may be on trial; a trial is given at *)
(* most Limit boot attempts, can only become the good slot after it has    *)
(* been booted, and otherwise the good slot is selected again.             *)
(***************************************************************************)
EXTENDS Integers

CONSTANTS
  Slots,
  NoTrial,  \* not a slot
  Limit     \* attempts of a trial, at least 1

VARIABLES good, trial, attempts

avars == <<good, trial, attempts>>

Init ==
  /\ good \in Slots
  /\ trial = NoTrial
  /\ attempts = 0

\* A trial of the slot that is not the good one begins; preparing it again
\* before it was settled starts it over.
Begin ==
  /\ trial' \in Slots \ {good}
  /\ attempts' = 0
  /\ good' = good

\* One of the limited boots of the trial is used up.
Attempt ==
  /\ trial # NoTrial
  /\ attempts < Limit
  /\ attempts' = attempts + 1
  /\ UNCHANGED <<good, trial>>

\* A trial that was booted has proved its health.
Accept ==
  /\ trial # NoTrial
  /\ attempts > 0
  /\ good' = trial
  /\ trial' = NoTrial
  /\ attempts' = 0

\* Every attempt is used up.
Fallback ==
  /\ trial # NoTrial
  /\ attempts = Limit
  /\ trial' = NoTrial
  /\ attempts' = 0
  /\ good' = good

Next == Begin \/ Attempt \/ Accept \/ Fallback

Spec == Init /\ [][Next]_avars

=============================================================================
