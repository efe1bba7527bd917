------------------------------ MODULE UBootEnv ------------------------------
(***************************************************************************)
(* The firmware variables of the redundant U-Boot environment and every    *)
(* rewrite of them: the A/B policy of boot.cmd, the bootenv section of the *)
(* SWU manifest, the manual switch of firmware_slots.py and the two        *)
(* updates of firmware_health.py.  Each rewrite is one saveenv/fw_setenv,  *)
(* which the redundant environment makes atomic.                           *)
(***************************************************************************)
EXTENDS Integers

CONSTANT BootLimit  \* attempts a trial gets; shipped as 3

ASSUME BootLimitAssumption == BootLimit \in Nat \ {0}

Slot == {"A", "B"}

Other(s) == IF s = "A" THEN "B" ELSE "A"

NoSlot == "none"

UBootEnvironment ==
  [ active: Slot, previous: Slot, upgrade: BOOLEAN,
    bootcount: 0 .. BootLimit, rollback: Slot \union {NoSlot} ]

SeedEnvironment ==
  [ active |-> "A", previous |-> "B", upgrade |-> FALSE,
    bootcount |-> 0, rollback |-> NoSlot ]

-----------------------------------------------------------------------------
(***************************************************************************)
(* boot.cmd: on a trial the attempt is counted before anything is loaded;  *)
(* past the limit the script falls back to previous_slot and records the   *)
(* slot it left.                                                           *)
(***************************************************************************)

\* Mutant: the incremented counter is not saved.
BootSelectUnsaved(e) ==
  IF e.upgrade /\ e.bootcount + 1 > BootLimit
  THEN [e EXCEPT !.rollback = e.active, !.active = e.previous,
                 !.upgrade = FALSE, !.bootcount = 0]
  ELSE e

BootSelect(e) ==
  IF ~e.upgrade THEN e
  ELSE IF e.bootcount + 1 > BootLimit
       THEN [e EXCEPT !.rollback = e.active, !.active = e.previous,
                      !.upgrade = FALSE, !.bootcount = 0]
       ELSE [e EXCEPT !.bootcount = @ + 1]

-----------------------------------------------------------------------------

\* Mutant: the manifest selects the new slot but not the one to return to.
InstalledWithoutFallback(e, target) ==
  [e EXCEPT !.active = target, !.upgrade = TRUE, !.bootcount = 0]

\* The bootenv entries SWUpdate commits with an installed image; note that
\* rollback_from is not among them.
InstalledEnvironment(e, target) ==
  [e EXCEPT !.active = target, !.previous = Other(target),
            !.upgrade = TRUE, !.bootcount = 0]

\* prepare_rollback: the complete trial transaction of a manual switch.
SwitchedEnvironment(e, from) ==
  [e EXCEPT !.active = Other(from), !.previous = from,
            !.upgrade = TRUE, !.bootcount = 0, !.rollback = NoSlot]

\* accept_trial: mark the running trial good.
AcceptedEnvironment(e) == [e EXCEPT !.upgrade = FALSE, !.bootcount = 0]

\* reconcile_rollback: clear the one-shot marker.
ClearedEnvironment(e) == [e EXCEPT !.rollback = NoSlot]

=============================================================================
