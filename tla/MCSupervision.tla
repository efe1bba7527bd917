----------------------------- MODULE MCSupervision -----------------------------
(***************************************************************************)
(* Supervision for TLC: one backend is enough for the freeze watcher.      *)
(***************************************************************************)
EXTENDS Supervision

=============================================================================
