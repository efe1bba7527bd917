----------------------------- MODULE WebAccess -----------------------------
(***************************************************************************)
(* Logging in to the web interface, confirming the password for one        *)
(* firmware upload, the upload, and the progress record ("tracker") that   *)
(* follows the update across its reboot.  Every request is a thread of the *)
(* ThreadingHTTPServer; the tracker is one file that the web service, the  *)
(* installation worker and the health evaluator rewrite without a lock.    *)
(*                                                                         *)
(* A token (of a session, a grant or a tracker) is the number of its       *)
(* making: tokens are never repeated.  A grant is issued together with the *)
(* one tracker it refers to and takes that number.                         *)
(***************************************************************************)
EXTENDS Naturals, FiniteSets

CONSTANTS WebThreads,   \* request threads
          Clients,      \* addresses the limiter counts by
          MaxAttempts,  \* RateLimiter's max_attempts
          MaxTokens,    \* bound: sessions and trackers made, each
          MaxFailures,  \* bound: wrong passwords per client and window
          WebFaults,    \* which of "image", "refused", "reboot", "late", "history", "restart" happen
          Overtakes     \* a confirmation may be given while an upload or an update is under way

ASSUME ThreadsAssumption == IsFiniteSet(WebThreads)
ASSUME LimitsAssumption ==
    MaxAttempts \in Nat \ {0} /\ MaxTokens \in Nat /\ MaxFailures \in Nat

VARIABLES asked,     \* [WebThreads -> what the thread is at]
          failures,  \* [Clients -> count of the limiter's entry], 0: no entry or an old one
          sessions,  \* live sessions
          grants,    \* {[session, tracker]}: grants not consumed
          tracker,   \* [id, state]: the tracking file, id 0: none
          update,    \* [of, state]: the update itself, of: the tracker it was uploaded under
          made,      \* [session, tracker]: tokens made so far
          staged     \* observer: [tracker |-> uploads accepted under it]

webVars == <<asked, failures, sessions, grants, tracker, update, made, staged>>

Terminal == {"accepted", "automatic_rollback", "failed", "reboot_failed"}
TrackerStates == {"starting", "queued", "installing", "rebooting"} \cup Terminal
Idle == [at |-> "idle"]
Ids == 0 .. MaxTokens

At(t, places) == asked[t].at \in places
Moves(t, r) == asked' = [asked EXCEPT ![t] = r]
To(t, place) == Moves(t, [asked[t] EXCEPT !.at = place])
Ends(t) == Moves(t, Idle)

WebInit ==
    /\ asked = [t \in WebThreads |-> Idle]
    /\ failures = [c \in Clients |-> 0]
    /\ sessions = {}
    /\ grants = {}
    /\ tracker = [id |-> 0, state |-> "failed"]
    /\ update = [of |-> 0, state |-> "none"]
    /\ made = [session |-> 0, tracker |-> 0]
    /\ staged = [k \in 1 .. MaxTokens |-> 0]

---------------------------------------------------------------------------
(* The password, asked for by the login page and again before an upload.   *)

BlockedLate(c) == failures[c] > MaxAttempts
Blocked(c) == failures[c] >= MaxAttempts

\* The two requests that check a password; the session is looked up when the
\* request is built.
Asks(t) ==
    /\ At(t, {"idle"})
    /\ \E c \in Clients :
        /\ ~Blocked(c)
        /\ \/ Moves(t, [at |-> "login", client |-> c])
           \/ \E s \in sessions : Moves(t, [at |-> "confirm", client |-> c, session |-> s])
    /\ UNCHANGED <<failures, sessions, grants, tracker, update, made, staged>>

\* check_password fails, after the seconds it takes; the failure is counted then.
Wrong(t) ==
    /\ At(t, {"login", "confirm"})
    /\ failures[asked[t].client] < MaxFailures
    /\ failures' = [failures EXCEPT ![asked[t].client] = @ + 1]
    /\ Ends(t)
    /\ UNCHANGED <<sessions, grants, tracker, update, made, staged>>

\* An entry whose window has elapsed counts as none, wherever it is read.
WindowEnds(c) ==
    /\ failures[c] > 0
    /\ failures' = [failures EXCEPT ![c] = 0]
    /\ UNCHANGED <<asked, sessions, grants, tracker, update, made, staged>>

LogsIn(t) ==
    /\ At(t, {"login"})
    /\ made.session < MaxTokens
    /\ failures' = [failures EXCEPT ![asked[t].client] = 0]
    /\ made' = [made EXCEPT !.session = @ + 1]
    /\ sessions' = sessions \cup {made'.session}
    /\ Ends(t)
    /\ UNCHANGED <<grants, tracker, update, staged>>

\* A logout, or the end of the session's hour.
SessionEnds(s) ==
    /\ s \in sessions
    /\ sessions' = sessions \ {s}
    /\ UNCHANGED <<asked, failures, grants, tracker, update, made, staged>>

---------------------------------------------------------------------------
(* firmware_tracking.update, called by all three processes.                *)

UnderWay ==
    \/ \E t \in WebThreads : At(t, {"staging", "queueing", "calling", "told"})
    \/ update.state \in {"queued", "writing", "written", "trial"}

\* The file after update(state): a finished tracker keeps its result.
Noted(state) ==
    IF tracker.id = 0 \/ tracker.state \in Terminal
    THEN tracker
    ELSE [tracker EXCEPT !.state = state]

\* The right password before an upload: a new tracker takes the place of the last ...
Creates(t) ==
    /\ At(t, {"confirm"})
    /\ made.tracker < MaxTokens
    /\ Overtakes \/ ~UnderWay
    /\ failures' = [failures EXCEPT ![asked[t].client] = 0]
    /\ made' = [made EXCEPT !.tracker = @ + 1]
    /\ tracker' = [id |-> made'.tracker, state |-> "starting"]
    /\ Moves(t, [at |-> "issue", session |-> asked[t].session, tracker |-> made'.tracker])
    /\ UNCHANGED <<sessions, grants, update, staged>>

\* ... and only then its grant is issued.
Issues(t) ==
    /\ At(t, {"issue"})
    /\ grants' = grants \cup {[session |-> asked[t].session, tracker |-> asked[t].tracker]}
    /\ Ends(t)
    /\ UNCHANGED <<failures, sessions, tracker, update, made, staged>>

GrantExpires(g) ==
    /\ g \in grants
    /\ grants' = grants \ {g}
    /\ UNCHANGED <<asked, failures, sessions, tracker, update, made, staged>>

---------------------------------------------------------------------------
(* The upload.                                                             *)

NotConsumed(g) == grants

\* consume: a grant is gone once it was shown, whoever showed it.
Consumed(g) == grants \ {g}

\* A live session s shows the grant g.
Shows(t, s, g) ==
    /\ At(t, {"idle"})
    /\ s \in sessions /\ g \in grants
    /\ grants' = Consumed(g)
    /\ Moves(t, IF g.session = s THEN [at |-> "shown", tracker |-> g.tracker] ELSE Idle)
    /\ UNCHANGED <<failures, sessions, tracker, update, made, staged>>

\* The tracker the grant names must be the present one and unused.
Unused(k) == tracker.id = k /\ tracker.state = "starting"

Admits(t) ==
    /\ At(t, {"shown"})
    /\ LET k == asked[t].tracker
       IN  IF Unused(k)
           THEN /\ To(t, "staging")
                /\ staged' = [staged EXCEPT ![k] = @ + 1]
           ELSE Ends(t) /\ UNCHANGED staged
    /\ UNCHANGED <<failures, sessions, grants, tracker, update, made>>

\* stage_upload fails: an answer, and the tracker stays as it is; or the package is complete.
Stages(t) ==
    /\ At(t, {"staging"})
    /\ Ends(t) \/ To(t, "queueing")
    /\ UNCHANGED <<failures, sessions, grants, tracker, update, made, staged>>

Queues(t) ==
    /\ At(t, {"queueing"})
    /\ tracker' = Noted("queued")
    /\ To(t, "calling")
    /\ UNCHANGED <<failures, sessions, grants, update, made, staged>>

\* run_action: the helper claims the package and starts the worker, or refuses; its
\* answer may come too late or not at all.
Calls(t) ==
    /\ At(t, {"calling"})
    /\ \/ /\ update.state \notin {"queued", "writing"}
          /\ update' = [of |-> asked[t].tracker, state |-> "queued"]
          /\ Ends(t) \/ ("late" \in WebFaults /\ To(t, "told"))
       \/ "refused" \in WebFaults /\ UNCHANGED update /\ To(t, "told")
    /\ UNCHANGED <<failures, sessions, grants, tracker, made, staged>>

Told(t) ==
    /\ At(t, {"told"})
    /\ tracker' = Noted("failed")
    /\ Ends(t)
    /\ UNCHANGED <<failures, sessions, grants, update, made, staged>>

---------------------------------------------------------------------------
(* The rest of the update as far as the tracker is told: worker, reboot,   *)
(* evaluator.                                                              *)

Updates(from, to, told) ==
    /\ update.state = from
    /\ update' = [update EXCEPT !.state = to]
    /\ tracker' = Noted(told)
    /\ UNCHANGED <<failures, made, staged>>

\* A validated package is being written; an invalid one, or a failing write, is the end.
Writes == Updates("queued", "writing", "installing") /\ UNCHANGED <<asked, sessions, grants>>
GivesUp ==
    /\ "image" \in WebFaults
    /\ Updates("queued", "refused", "failed") \/ Updates("writing", "refused", "failed")
    /\ UNCHANGED <<asked, sessions, grants>>

\* The boot environment names the new slot; "history" is _append_history failing after
\* that, which the worker takes for a failed installation.
Commits ==
    /\ \/ Updates("writing", "written", "rebooting")
       \/ "history" \in WebFaults /\ Updates("writing", "written", "failed")
    /\ UNCHANGED <<asked, sessions, grants>>

RebootFails ==
    /\ "reboot" \in WebFaults
    /\ Updates("written", "written", "reboot_failed")
    /\ UNCHANGED <<asked, sessions, grants>>

\* A restart of the web service, or of the radio, ends every request and loses what
\* is kept in memory.
WebEnds ==
    /\ asked' = [t \in WebThreads |-> Idle]
    /\ sessions' = {} /\ grants' = {}
    /\ failures' = [c \in Clients |-> 0]
    /\ UNCHANGED <<made, staged>>

WebRestarts ==
    /\ "restart" \in WebFaults
    /\ WebEnds
    /\ UNCHANGED <<tracker, update>>

Reboots ==
    /\ update.state = "written"
    /\ update' = [update EXCEPT !.state = "trial"]
    /\ WebEnds
    /\ UNCHANGED tracker

\* accept_trial and reconcile_history tell the tracker how the trial ended.
TrialEnds ==
    /\ \/ Updates("trial", "accepted", "accepted")
       \/ Updates("trial", "automatic_rollback", "automatic_rollback")
    /\ UNCHANGED <<asked, sessions, grants>>

WebNext ==
    \/ \E t \in WebThreads :
        \/ Asks(t) \/ Wrong(t) \/ LogsIn(t)
        \/ Creates(t) \/ Issues(t)
        \/ \E s \in sessions, g \in grants : Shows(t, s, g)
        \/ Admits(t) \/ Stages(t) \/ Queues(t) \/ Calls(t) \/ Told(t)
    \/ \E c \in Clients : WindowEnds(c)
    \/ \E s \in sessions : SessionEnds(s)
    \/ \E g \in grants : GrantExpires(g)
    \/ Writes \/ GivesUp \/ Commits \/ RebootFails
    \/ WebRestarts \/ Reboots \/ TrialEnds

WebSpec == WebInit /\ [][WebNext]_webVars

---------------------------------------------------------------------------
WebTypeOK ==
    /\ \A t \in WebThreads : asked[t].at \in {"idle", "login", "confirm", "issue", "shown",
                                            "staging", "queueing", "calling", "told"}
    /\ failures \in [Clients -> 0 .. MaxFailures]
    /\ sessions \subseteq Ids
    /\ grants \subseteq [session : Ids, tracker : Ids]
    /\ tracker \in [id : Ids, state : TrackerStates]
    /\ update.of \in Ids
    /\ made \in [session : Ids, tracker : Ids]

\* Requests are served in parallel, and the limiter is asked before the password is
\* checked and told after: each of the other threads may have got past it, so that a
\* client's wrong passwords within one window are bounded by the limit and the threads,
\* and by no less (auth.RateLimiter, _login_post, _firmware_authorize_post).
AttemptsBounded ==
    /\ WebTypeOK
    /\ \A c \in Clients : failures[c] < MaxAttempts + Cardinality(WebThreads)

\* One confirmation, one upload, one record: no tracker is used for two uploads; an
\* update under way is followed by the tracker it was uploaded under; and what a
\* finished tracker says of it is so (firmware_authorization.consume,
\* _handle_firmware_upload, firmware_tracking.update).
TrackedUpload ==
    /\ \A k \in DOMAIN staged : staged[k] <= 1
    /\ update.state \in {"queued", "writing", "written", "trial"} => tracker.id = update.of
    /\ update.of # 0 /\ tracker.id = update.of =>
        /\ tracker.state \in {"accepted", "automatic_rollback"} => update.state = tracker.state
        /\ tracker.state = "failed" => update.state = "refused"
        /\ tracker.state = "rebooting" => update.state \in {"written", "trial"}
=============================================================================
