---------------------- MODULE SourceArbitrationProofs ----------------------
(***************************************************************************)
(* What is proved of SourceArbitration, for every set of enabled sources,  *)
(* every set of presets and any number of events.                          *)
(*                                                                         *)
(* Types hold whatever fails.  That a source which was switched away from  *)
(* stays silent needs that its state can be asked for.  That one source    *)
(* plays, the one that was started last, is proved by the inductive        *)
(* invariant AInv: a source that plays without being the intended one is   *)
(* doomed, so that the radio cannot settle before it has been stopped.     *)
(***************************************************************************)
EXTENDS SourceArbitration, FiniteSetTheorems, TLAPS

(***************************************************************************)
(* Sources are named by their places in Order.                             *)
(***************************************************************************)
Intended(i) == Order[i] = intent

\* The source is heard, or will be as soon as it is polled.
Sounds(b, s) == b.stream[s] /\ s \notin b.marker

Up(i) == Sounds(backend, Order[i])

Reported(i) == Reports(backend, Order[i])

Cached(i) == cached[Order[i]]

Scanning == loop.at \in {"scan", "raise"}

(***************************************************************************)
(* A source that plays although another one was started later is about to  *)
(* be stopped: the edge of the later one has still to be noticed, or it    *)
(* has won the loop, or a preset is being carried out.                     *)
(***************************************************************************)
Doomed(i) ==
  \/ \E k \in services : Intended(k) /\ Up(k) /\ ~Cached(k)
  \/ /\ loop.winner = intent /\ intent # "none"
     /\ Scanning \/ (loop.at = "stop" /\ i >= loop.i)
  \/ adc.at = "selected"
  \/ adc.at = "stop" /\ i >= adc.i

(***************************************************************************)
(* Its own edge has passed, or comes when the other one has won: so it is  *)
(* at startup, where several sources are found playing.                    *)
(***************************************************************************)
ComesLater(i) ==
  \E k \in services :
    /\ Intended(k) /\ k < i /\ lock = "free"
    /\ \/ /\ Up(k) /\ Reported(k) /\ ~Cached(k)
          /\ loop.at = "top" \/ (Scanning /\ loop.i <= k /\ loop.winner = "none")
       \/ loop.winner = intent /\ Scanning /\ loop.i <= i

OthersDoomed ==
  \A i \in services :
    Up(i) /\ ~Intended(i) => Reported(i) /\ Doomed(i) /\ (Cached(i) \/ ComesLater(i))

\* An edge that does not belong to the intended source: the one above, and
\* what a paused sender's stale copy pretends.
EdgesIntended ==
  \A i \in services :
    Reported(i) /\ ~Cached(i) =>
      \/ Intended(i) \/ ComesLater(i)
      \/ intent = "none" /\ Order[i] = active

WinnerIntended ==
  /\ loop.winner # "none" => loop.winner = active /\ intent \in {loop.winner, "none"}
  /\ loop.at = "raise" =>
       \/ Intended(loop.i) \/ ComesLater(loop.i)
       \/ intent = "none" /\ Order[loop.i] = active
  /\ loop.at \in {"stop", "top"} => (loop.winner = "none" <=> loop.at = "top")

\* The intended source is the active one, or its edge has not been noticed.
IntendedFollowed ==
  \A i \in services : Intended(i) /\ Up(i) => Order[i] = active \/ ~Cached(i)

MpdSteady ==
  /\ backend.stream["mpd"] = backend.desired
  /\ intent = "mpd" /\ adc.at # "selected" => backend.stream["mpd"]

AdcLocks ==
  /\ adc.at # "idle" => lock = "adc" /\ active = "mpd" /\ intent = "mpd"
  /\ lock = "adc" => adc.at # "idle"

ControlLocks ==
  /\ control # "idle" =>
       /\ lock = "control"
       /\ \A i \in services : Up(i) => Intended(i)
  /\ lock = "control" => control # "idle"
  /\ control = "play" => intent = active
  /\ control = "pause" => intent = "none"

AInv ==
  /\ TypeOK
  /\ keeper = "idle"
  /\ OthersDoomed
  /\ EdgesIntended
  /\ WinnerIntended
  /\ IntendedFollowed
  /\ MpdSteady
  /\ AdcLocks
  /\ ControlLocks
-----------------------------------------------------------------------------
(* Places and walks.                                                       *)

Names == {"airplay", "usb", "mpd", "spotify", "bluetooth"}

LEMMA Places ==
  /\ services \subseteq 1 .. 5
  /\ \A i \in services : Order[i] \in Enabled /\ Order[i] # "none"
  /\ \A i, j \in services : Order[i] = Order[j] => i = j
  /\ \A s \in Enabled : \E i \in services : Order[i] = s
  /\ Enabled \subseteq Names /\ "mpd" \in Enabled
<1>1. Enabled \subseteq Names /\ "mpd" \in Enabled
  BY EnabledAssumption DEF Order, Names
<1>2. /\ Order[1] = "airplay" /\ Order[2] = "usb" /\ Order[3] = "mpd"
      /\ Order[4] = "spotify" /\ Order[5] = "bluetooth"
  BY DEF Order
<1>3. services \subseteq 1 .. 5 /\ \A i \in services : Order[i] \in Enabled
  BY DEF services
<1>4. \A i \in services : i \in {1, 2, 3, 4, 5}
  BY <1>3
<1>5. \A i, j \in services : Order[i] = Order[j] => i = j
  BY <1>2, <1>4
<1>6. \A s \in Names : \E i \in 1 .. 5 : Order[i] = s
  BY <1>2 DEF Names
<1>7. QED
  BY <1>1, <1>3, <1>5, <1>6 DEF services, Names

LEMMA Walk ==
  /\ First \in services /\ \A j \in services : First <= j
  /\ \A i \in services : More(i) =>
       After(i) \in services /\ After(i) > i /\ \A k \in services : k > i => After(i) <= k
<1>1. ASSUME NEW P \in SUBSET services, P # {}
      PROVE  \E i \in P : \A j \in P : i <= j
  <2>1. P \subseteq 1 .. 5
    BY Places
  <2>2. CASE 1 \in P
    BY <2>1, <2>2
  <2>3. CASE 1 \notin P /\ 2 \in P
    <3>1. \A j \in P : j \in 2 .. 5
      BY <2>1, <2>3
    <3>2. QED
      BY <2>3, <3>1
  <2>4. CASE 1 \notin P /\ 2 \notin P /\ 3 \in P
    <3>1. \A j \in P : j \in 3 .. 5
      BY <2>1, <2>4
    <3>2. QED
      BY <2>4, <3>1
  <2>5. CASE 1 \notin P /\ 2 \notin P /\ 3 \notin P /\ 4 \in P
    <3>1. \A j \in P : j \in 4 .. 5
      BY <2>1, <2>5
    <3>2. QED
      BY <2>5, <3>1
  <2>6. CASE 1 \notin P /\ 2 \notin P /\ 3 \notin P /\ 4 \notin P
    <3>1. \A j \in P : j = 5
      BY <2>1, <2>6
    <3>2. QED
      BY <1>1, <3>1
  <2>7. QED
    BY <2>2, <2>3, <2>4, <2>5, <2>6
<1>2. First \in services /\ \A j \in services : First <= j
  <2>1. services # {}
    BY Places
  <2>2. QED
    BY <1>1, <2>1 DEF First
<1>3. ASSUME NEW i \in services, More(i)
      PROVE  After(i) \in services /\ After(i) > i /\ \A k \in services : k > i => After(i) <= k
  <2> DEFINE P == {j \in services : j > i}
  <2>1. P \in SUBSET services /\ P # {}
    BY <1>3 DEF More
  <2>2. \E j \in P : \A k \in P : j <= k
    BY <1>1, <2>1
  <2>3. \E j \in services : j > i /\ \A k \in services : k > i => j <= k
    BY <2>2
  <2>4. QED
    BY <2>3 DEF After
<1>4. QED
  BY <1>2, <1>3

-----------------------------------------------------------------------------
(* What the calls of the backends do.                                      *)

LEMMA Kinds ==
  /\ Marked \subseteq Enabled /\ Polled \subseteq Enabled
  /\ \A s \in Marked : s \in {"airplay", "usb"}
  /\ \A s \in Polled : s \in {"spotify", "bluetooth"}
  /\ \A s \in Enabled : s \in Marked \/ s \in Polled \/ s = "mpd"
BY Places DEF Marked, Polled, Names

LEMMA BackendFields ==
  ASSUME NEW b \in Backend
  PROVE  /\ b.stream \in [Enabled -> BOOLEAN] /\ b.marker \in SUBSET Marked
         /\ b.paused \in BOOLEAN /\ b.polled \in [Polled -> BOOLEAN] /\ b.desired \in BOOLEAN
         /\ \A s \in Marked : Reports(b, s) = Sounds(b, s)
         /\ \A s \in Polled : Reports(b, s) = b.polled[s] /\ Sounds(b, s) = b.stream[s]
         /\ Reports(b, "mpd") = b.stream["mpd"] /\ Sounds(b, "mpd") = b.stream["mpd"]
         /\ \A s \in Enabled : Reports(b, s) \in BOOLEAN /\ Sounds(b, s) \in BOOLEAN
<1>1. /\ b.stream \in [Enabled -> BOOLEAN] /\ b.marker \in SUBSET Marked
      /\ b.paused \in BOOLEAN /\ b.polled \in [Polled -> BOOLEAN] /\ b.desired \in BOOLEAN
  BY DEF Backend
<1>2. ASSUME NEW s \in Marked
      PROVE  Reports(b, s) = Sounds(b, s)
  <2>1. s \in Marked /\ b.stream[s] \in BOOLEAN
    BY <1>1, Kinds
  <2>2. CASE b.stream[s] = TRUE
    <3>1. CASE s \in b.marker
      BY <2>1, <2>2, <3>1, Kinds DEF Reports, Sounds
    <3>2. CASE s \notin b.marker
      BY <2>1, <2>2, <3>2, Kinds DEF Reports, Sounds
    <3>3. QED
      BY <3>1, <3>2
  <2>3. CASE b.stream[s] = FALSE
    BY <2>1, <2>3, Kinds DEF Reports, Sounds
  <2>4. QED
    BY <2>1, <2>2, <2>3
<1>3. \A s \in Polled : Reports(b, s) = b.polled[s] /\ Sounds(b, s) = b.stream[s]
  BY <1>1, Kinds DEF Reports, Sounds
<1>4. Reports(b, "mpd") = b.stream["mpd"] /\ Sounds(b, "mpd") = b.stream["mpd"]
  BY <1>1, Kinds, Places DEF Reports, Sounds
<1>5. \A s \in Enabled : Reports(b, s) \in BOOLEAN /\ Sounds(b, s) \in BOOLEAN
  BY <1>1, <1>2, <1>3, <1>4, Kinds DEF Sounds
<1>6. QED
  BY <1>1, <1>2, <1>3, <1>4, <1>5

\* c differs from b in nothing that is heard, reported or wanted.
Alike(b, c) ==
  /\ c \in Backend
  /\ c.stream = b.stream /\ c.polled = b.polled /\ c.desired = b.desired
  /\ c.marker \subseteq b.marker
  /\ \A s \in b.marker \ c.marker : ~b.stream[s]

LEMMA AlikeSounds ==
  ASSUME NEW b \in Backend, NEW c, Alike(b, c)
  PROVE  \A s \in Enabled : Reports(c, s) = Reports(b, s) /\ Sounds(c, s) = Sounds(b, s)
<1>1. c \in Backend
  BY DEF Alike
<1>2. \A s \in Enabled : Sounds(c, s) = Sounds(b, s)
  BY <1>1, BackendFields DEF Alike, Sounds
<1>3. \A s \in Enabled : Reports(c, s) = Reports(b, s)
  BY <1>1, <1>2, BackendFields, Kinds DEF Alike
<1>4. QED
  BY <1>2, <1>3

\* c is b after a call to s.
Touched(b, c, s) ==
  /\ c \in Backend
  /\ c.polled = b.polled
  /\ s # "mpd" => c.desired = b.desired
  /\ \A t \in Enabled \ {s} : c.stream[t] = b.stream[t] /\ (t \in c.marker <=> t \in b.marker)

LEMMA TouchedSounds ==
  ASSUME NEW b \in Backend, NEW c, NEW s \in Enabled, Touched(b, c, s)
  PROVE  /\ \A t \in Enabled : t # s => Reports(c, t) = Reports(b, t) /\ Sounds(c, t) = Sounds(b, t)
         /\ s \in Polled => Reports(c, s) = Reports(b, s)
<1>1. c \in Backend
  BY DEF Touched
<1>2. \A t \in Enabled : t # s => Sounds(c, t) = Sounds(b, t)
  BY <1>1, BackendFields DEF Touched, Sounds
<1>3. \A t \in Enabled : t # s => Reports(c, t) = Reports(b, t)
  BY <1>1, <1>2, BackendFields, Kinds DEF Touched
<1>4. QED
  BY <1>1, <1>2, <1>3, BackendFields DEF Touched

LEMMA StreamsTouch ==
  ASSUME NEW b \in Backend, NEW s \in Enabled, NEW v \in BOOLEAN
  PROVE  /\ Touched(b, Streams(b, s, v), s)
         /\ Streams(b, s, v).stream[s] = v /\ Streams(b, s, v).marker = b.marker
         /\ Streams(b, s, v).desired = b.desired
BY DEF Streams, Touched, Backend

\* A query has no effect but to remove a marker whose stream has ended.
LEMMA ProbesAlike ==
  ASSUME NEW b \in Backend, NEW s \in Enabled, NEW p \in Probes(b, s)
  PROVE  /\ p.answer \in BOOLEAN /\ p.after \in Backend /\ Touched(b, p.after, s)
         /\ p.after.stream = b.stream /\ p.after.desired = b.desired
         /\ "probe" \notin Faults => p.answer = Reports(b, s) /\ Alike(b, p.after)
<1>1. Unmarked(b, s) \in Backend /\ [b EXCEPT !.paused = FALSE] \in Backend
  BY DEF Unmarked, Backend
<1>2. /\ Unmarked(b, s).stream = b.stream /\ Unmarked(b, s).polled = b.polled
      /\ Unmarked(b, s).desired = b.desired /\ Unmarked(b, s).marker = b.marker \ {s}
  BY DEF Unmarked, Backend
<1>3. Touched(b, Unmarked(b, s), s)
  BY <1>1, <1>2 DEF Touched
<1>4. Touched(b, [b EXCEPT !.paused = FALSE], s) /\ Alike(b, [b EXCEPT !.paused = FALSE])
  BY <1>1 DEF Touched, Alike, Backend
<1>5. Touched(b, b, s) /\ Alike(b, b)
  BY DEF Touched, Alike
<1>6. Touched(b, AfterProbe(b, s), s) /\ Alike(b, AfterProbe(b, s))
  <2>1. CASE s \in Marked /\ ~b.stream[s]
    <3>1. AfterProbe(b, s) = Unmarked(b, s)
      BY <2>1, BackendFields DEF AfterProbe, Sounds
    <3>2. Alike(b, Unmarked(b, s))
      BY <1>1, <2>1, <1>2 DEF Alike
    <3>3. QED
      BY <1>3, <3>1, <3>2
  <2>2. CASE ~(s \in Marked /\ ~b.stream[s])
    <3>1. AfterProbe(b, s) \in {b, [b EXCEPT !.paused = FALSE]}
      BY <2>2 DEF AfterProbe
    <3>2. QED
      BY <3>1, <1>4, <1>5
  <2>3. QED
    BY <2>1, <2>2
<1>7. CASE p = [answer |-> Reports(b, s), after |-> AfterProbe(b, s)]
  <2>1. p.answer = Reports(b, s) /\ p.after = AfterProbe(b, s)
    BY <1>7
  <2>2. QED
    BY <2>1, <1>6, BackendFields DEF Alike
<1>8. CASE "probe" \in Faults /\ p = [answer |-> FALSE, after |-> Unmarked(b, s)]
  <2>1. p.answer = FALSE /\ p.after = Unmarked(b, s)
    BY <1>8
  <2>2. QED
    BY <2>1, <1>1, <1>2, <1>3, <1>8
<1>9. QED
  BY <1>7, <1>8 DEF Probes

LEMMA UnheardSame ==
  ASSUME NEW b, NEW c \in Unheard(b)
  PROVE  c = b /\ Faults # {}
BY DEF Unheard

\* A stop silences the source; an unheeded command stops nothing.
LEMMA StopsTouch ==
  ASSUME NEW b \in Backend, NEW s \in Enabled, NEW c \in Stops(b, s)
  PROVE  /\ Touched(b, c, s) /\ b.marker \subseteq c.marker
         /\ c.stream["mpd"] => b.stream["mpd"]
         /\ Faults = {} => ~Sounds(c, s) /\ (s = "mpd" => c.desired = FALSE /\ c.stream["mpd"] = FALSE)
<1> DEFINE m == [b EXCEPT !.marker = @ \union {s}]
<1>1. CASE s \in Marked
  <2>1. m \in Backend /\ Touched(b, m, s) /\ m.stream = b.stream /\ m.marker = b.marker \union {s}
    BY <1>1 DEF Backend, Touched
  <2>2. s # "mpd" /\ s \in {"airplay", "usb"}
    BY <1>1, Kinds
  <2>3. \E v \in BOOLEAN : c \in {m, Streams(m, s, v), [Streams(m, s, v) EXCEPT !.paused = TRUE]}
    <3>1. CASE s = "airplay"
      <4>1. c \in {Streams(m, s, v) : v \in {b.stream[s], FALSE}}
        BY <3>1 DEF Stops
      <4>2. b.stream[s] \in BOOLEAN
        BY BackendFields
      <4>3. QED
        BY <4>1, <4>2
    <3>2. CASE s = "usb"
      <4>1. c \in {m} \union (IF b.paused THEN {}
              ELSE {[Streams(m, s, v) EXCEPT !.paused = TRUE] : v \in {b.stream[s], FALSE}})
        BY <3>2 DEF Stops
      <4>2. b.stream[s] \in BOOLEAN
        BY BackendFields
      <4>3. QED
        BY <4>1, <4>2
    <3>3. QED
      BY <2>2, <3>1, <3>2
  <2>4. PICK v \in BOOLEAN : c \in {m, Streams(m, s, v), [Streams(m, s, v) EXCEPT !.paused = TRUE]}
    BY <2>3
  <2> HIDE DEF m
  <2>5. Touched(m, Streams(m, s, v), s) /\ Streams(m, s, v).marker = m.marker
    BY <2>1, StreamsTouch
  <2>6. Touched(b, Streams(m, s, v), s)
    BY <2>1, <2>5 DEF Touched
  <2>7. /\ [Streams(m, s, v) EXCEPT !.paused = TRUE] \in Backend
        /\ [Streams(m, s, v) EXCEPT !.paused = TRUE].marker = Streams(m, s, v).marker
        /\ Touched(b, [Streams(m, s, v) EXCEPT !.paused = TRUE], s)
    BY <2>6 DEF Touched, Backend
  <2>8. Touched(b, c, s) /\ c.marker = b.marker \union {s}
    BY <2>1, <2>4, <2>5, <2>6, <2>7
  <2>9. c.stream["mpd"] = b.stream["mpd"] /\ ~Sounds(c, s)
    BY <2>2, <2>8, Places DEF Touched, Sounds
  <2>10. QED
    BY <2>2, <2>8, <2>9
<1>2. CASE s = "mpd"
  <2> DEFINE d == Desired(b, FALSE)
  <2>1. /\ d \in Backend /\ Touched(b, d, s) /\ d.desired = FALSE
        /\ d.marker = b.marker /\ d.stream = b.stream
    BY <1>2 DEF Desired, Backend, Touched
  <2>2. c = Streams(d, s, FALSE) \/ c \in Unheard(d)
    BY <1>2, Kinds DEF Stops
  <2> HIDE DEF d
  <2>3. CASE c = Streams(d, s, FALSE)
    <3>1. /\ Touched(d, c, s) /\ c.stream[s] = FALSE /\ c.marker = d.marker
          /\ c.desired = d.desired
      BY <2>1, <2>3, StreamsTouch
    <3>2. Touched(b, c, s)
      BY <1>2, <2>1, <3>1 DEF Touched
    <3>3. QED
      BY <1>2, <2>1, <3>1, <3>2 DEF Sounds
  <2>4. CASE c \in Unheard(d)
    BY <2>1, <2>4, UnheardSame
  <2>5. QED
    BY <2>2, <2>3, <2>4
<1>3. CASE s \in Polled
  <2>1. c = Streams(b, s, FALSE) \/ c \in Unheard(b)
    BY <1>3, Kinds DEF Stops
  <2>2. s # "mpd"
    BY <1>3, Kinds
  <2>3. CASE c = Streams(b, s, FALSE)
    <3>1. Touched(b, c, s) /\ c.stream[s] = FALSE /\ c.marker = b.marker
      BY <2>3, StreamsTouch
    <3>2. c.stream["mpd"] = b.stream["mpd"]
      BY <2>2, <3>1, Places DEF Touched
    <3>3. QED
      BY <2>2, <3>1, <3>2 DEF Sounds
  <2>4. CASE c \in Unheard(b)
    BY <2>4, UnheardSame DEF Touched
  <2>5. QED
    BY <2>1, <2>3, <2>4
<1>4. QED
  BY <1>1, <1>2, <1>3, Kinds

LEMMA PlaysTouch ==
  ASSUME NEW b \in Backend, NEW s \in Enabled, NEW c \in Plays(b, s)
  PROVE  /\ Touched(b, c, s)
         /\ s = "mpd" => c.marker = b.marker /\ c.desired = TRUE
         /\ s = "mpd" /\ Faults = {} => c.stream["mpd"] = TRUE
<1>1. CASE s \in Marked
  <2> DEFINE u == Unmarked(b, s)
  <2>1. u \in Backend /\ Touched(b, u, s)
    BY <1>1 DEF Backend, Touched, Unmarked
  <2>2. s # "mpd" /\ s \in {"airplay", "usb"}
    BY <1>1, Kinds
  <2>3. \E v \in BOOLEAN : c \in {Streams(u, s, v), [Streams(u, s, v) EXCEPT !.paused = FALSE]}
    <3>1. CASE s = "airplay"
      <4>1. c \in {Streams(u, s, v) : v \in {b.stream[s], TRUE}}
        BY <3>1 DEF Plays
      <4>2. b.stream[s] \in BOOLEAN
        BY BackendFields
      <4>3. QED
        BY <4>1, <4>2
    <3>2. CASE s = "usb"
      <4>1. c \in {[Streams(u, s, v) EXCEPT !.paused = FALSE] :
              v \in IF b.paused \/ "probe" \in Faults THEN BOOLEAN ELSE {b.stream[s], TRUE}}
        BY <3>2 DEF Plays
      <4>2. b.stream[s] \in BOOLEAN
        BY BackendFields
      <4>3. QED
        BY <4>1, <4>2
    <3>3. QED
      BY <2>2, <3>1, <3>2
  <2>4. PICK v \in BOOLEAN : c \in {Streams(u, s, v), [Streams(u, s, v) EXCEPT !.paused = FALSE]}
    BY <2>3
  <2> HIDE DEF u
  <2>5. Touched(u, Streams(u, s, v), s)
    BY <2>1, StreamsTouch
  <2>6. Touched(b, Streams(u, s, v), s)
    BY <2>1, <2>5 DEF Touched
  <2>7. Touched(b, [Streams(u, s, v) EXCEPT !.paused = FALSE], s)
    BY <2>6 DEF Touched, Backend
  <2>8. QED
    BY <2>2, <2>4, <2>6, <2>7
<1>2. CASE s = "mpd"
  <2> DEFINE d == Desired(b, TRUE)
  <2>1. d \in Backend /\ Touched(b, d, s) /\ d.desired = TRUE /\ d.marker = b.marker
    BY <1>2 DEF Desired, Backend, Touched
  <2>2. c = Streams(d, s, TRUE) \/ c \in Unheard(d)
    BY <1>2 DEF Plays
  <2> HIDE DEF d
  <2>3. CASE c = Streams(d, s, TRUE)
    <3>1. /\ Touched(d, c, s) /\ c.stream[s] = TRUE /\ c.marker = d.marker
          /\ c.desired = d.desired
      BY <2>1, <2>3, StreamsTouch
    <3>2. Touched(b, c, s)
      BY <1>2, <2>1, <3>1 DEF Touched
    <3>3. QED
      BY <1>2, <2>1, <3>1, <3>2
  <2>4. CASE c \in Unheard(d)
    BY <2>1, <2>4, UnheardSame
  <2>5. QED
    BY <2>2, <2>3, <2>4
<1>3. CASE s \in Polled
  <2>1. s # "mpd" /\ s # "airplay" /\ s # "usb"
    BY <1>3, Kinds
  <2>2. c = Streams(b, s, TRUE) \/ c \in Unheard(b)
    BY <2>1 DEF Plays
  <2>3. CASE c = Streams(b, s, TRUE)
    BY <2>1, <2>3, StreamsTouch
  <2>4. CASE c \in Unheard(b)
    BY <2>1, <2>4, UnheardSame DEF Touched
  <2>5. QED
    BY <2>2, <2>3, <2>4
<1>4. QED
  BY <1>1, <1>2, <1>3, Kinds

LEMMA StationTouches ==
  ASSUME NEW b \in Backend, NEW c \in PlaysStation(b)
  PROVE  /\ Touched(b, c, "mpd") /\ c.marker = b.marker
         /\ Faults = {} => c.stream["mpd"] = TRUE /\ c.desired = TRUE
<1>1. /\ Touched(b, Streams(b, "mpd", TRUE), "mpd") /\ Touched(b, Streams(b, "mpd", FALSE), "mpd")
      /\ Streams(b, "mpd", TRUE).marker = b.marker /\ Streams(b, "mpd", FALSE).marker = b.marker
      /\ Streams(b, "mpd", TRUE).stream["mpd"] = TRUE
  BY Places, StreamsTouch
<1>2. \/ c = Desired(Streams(b, "mpd", TRUE), TRUE)
      \/ c \in {b, Streams(b, "mpd", FALSE)} /\ Faults # {}
  BY UnheardSame DEF PlaysStation
<1>3. CASE c = Desired(Streams(b, "mpd", TRUE), TRUE)
  <2> DEFINE d == Streams(b, "mpd", TRUE)
  <2>1. d \in Backend
    BY <1>1 DEF Touched
  <2> HIDE DEF d
  <2>2. /\ Desired(d, TRUE) \in Backend /\ Desired(d, TRUE).stream = d.stream
        /\ Desired(d, TRUE).marker = d.marker /\ Desired(d, TRUE).polled = d.polled
        /\ Desired(d, TRUE).desired = TRUE
    BY <2>1 DEF Desired, Backend
  <2>3. c = Desired(d, TRUE)
    BY <1>3 DEF d
  <2>4. Touched(b, d, "mpd") /\ d.marker = b.marker /\ d.stream["mpd"] = TRUE
    BY <1>1 DEF d
  <2>5. QED
    BY <2>2, <2>3, <2>4 DEF Touched
<1>4. CASE c \in {b, Streams(b, "mpd", FALSE)} /\ Faults # {}
  BY <1>1, <1>4 DEF Touched
<1>5. QED
  BY <1>2, <1>3, <1>4

Harmless(b, c) == \A t \in b.marker : t \in c.marker \/ ~b.stream[t]

LEMMA OthersStop ==
  ASSUME NEW b \in Backend, NEW s \in Enabled, NEW keep, NEW c \in StopsOther(b, s, keep)
  PROVE  /\ Touched(b, c, s)
         /\ c.stream["mpd"] => b.stream["mpd"]
         /\ "probe" \notin Faults => Harmless(b, c)
         /\ Faults = {} =>
              /\ s = keep => c = b
              /\ s # keep /\ Reports(b, s) => ~Sounds(c, s)
              /\ s # keep /\ ~Reports(b, s) => Alike(b, c)
              /\ b.stream["mpd"] = b.desired => c.stream["mpd"] = c.desired
<1>1. CASE s = keep
  <2>1. c = b
    BY <1>1 DEF StopsOther, Kept
  <2>2. QED
    BY <1>1, <2>1 DEF Touched, Harmless
<1>2. CASE s # keep
  <2>1. \E p \in Probes(b, s) : c \in IF p.answer THEN Stops(p.after, s) ELSE {p.after}
    BY <1>2 DEF StopsOther, Kept
  <2>2. PICK p \in Probes(b, s) : c \in IF p.answer THEN Stops(p.after, s) ELSE {p.after}
    BY <2>1
  <2>3. /\ p.answer \in BOOLEAN /\ p.after \in Backend /\ Touched(b, p.after, s)
        /\ p.after.stream = b.stream /\ p.after.desired = b.desired
        /\ "probe" \notin Faults => p.answer = Reports(b, s) /\ Alike(b, p.after)
    BY ProbesAlike
  <2>4. "probe" \notin Faults => Harmless(b, p.after)
    BY <2>3 DEF Alike, Harmless
  <2>5. CASE p.answer
    <3>1. c \in Stops(p.after, s)
      BY <2>2, <2>5
    <3>2. /\ Touched(p.after, c, s) /\ p.after.marker \subseteq c.marker
          /\ c.stream["mpd"] => p.after.stream["mpd"]
          /\ Faults = {} => ~Sounds(c, s) /\ (s = "mpd" => c.desired = FALSE /\ c.stream["mpd"] = FALSE)
      BY <2>3, <3>1, StopsTouch
    <3>3. Touched(b, c, s)
      BY <2>3, <3>2 DEF Touched
    <3>4. "probe" \notin Faults => Harmless(b, c)
      BY <2>4, <3>2 DEF Harmless
    <3>5. s # "mpd" => c.stream["mpd"] = b.stream["mpd"] /\ c.desired = b.desired
      BY <3>3, Places DEF Touched
    <3>6. Faults = {} => Reports(b, s)
      BY <2>3, <2>5
    <3>7. QED
      BY <1>2, <2>3, <3>2, <3>3, <3>4, <3>5, <3>6
  <2>6. CASE ~p.answer
    <3>1. c = p.after
      BY <2>2, <2>6
    <3>2. "probe" \notin Faults => ~Reports(b, s) /\ Alike(b, c)
      BY <2>3, <2>6, <3>1
    <3>3. QED
      BY <1>2, <2>3, <2>4, <3>1, <3>2
  <2>7. QED
    BY <2>5, <2>6
<1>3. QED
  BY <1>1, <1>2

LEMMA RefreshedAlike ==
  ASSUME NEW b \in Backend, NEW s \in Enabled, NEW c \in Refreshed(b, s)
  PROVE  /\ Touched(b, c, s) /\ c.stream = b.stream
         /\ "probe" \notin Faults => Alike(b, c) /\ Harmless(b, c)
<1>1. PICK p \in Probes(b, s) : c = p.after
  BY DEF Refreshed
<1>2. QED
  BY <1>1, ProbesAlike DEF Alike, Harmless

-----------------------------------------------------------------------------
(* Types.                                                                  *)

LEMMA OnwardTyped ==
  ASSUME TypeOK, NEW w \in Enabled \union {"none"}, Onward(w)
  PROVE  loop' \in [at : {"top", "scan", "raise", "stop"}, i : services,
                    winner : Enabled \union {"none"}]
<1>1. loop.i \in services
  BY DEF TypeOK
<1>2. CASE More(loop.i)
  <2>1. loop' = [at |-> "scan", i |-> After(loop.i), winner |-> w] /\ After(loop.i) \in services
    BY <1>1, <1>2, Walk DEF Onward
  <2>2. QED
    BY <2>1
<1>3. CASE ~More(loop.i) /\ w # "none"
  <2>1. loop' = [at |-> "stop", i |-> First, winner |-> w] /\ First \in services
    BY <1>3, Walk DEF Onward
  <2>2. QED
    BY <2>1
<1>4. CASE ~More(loop.i) /\ w = "none"
  <2>1. loop' = [at |-> "top", i |-> First, winner |-> "none"] /\ First \in services
    BY <1>4, Walk DEF Onward
  <2>2. QED
    BY <2>1
<1>5. QED
  BY <1>2, <1>3, <1>4

LEMMA SeenTyped ==
  ASSUME TypeOK, NEW s \in Enabled, NEW v \in BOOLEAN
  PROVE  Seen(s, v) \in [Enabled -> BOOLEAN]
BY DEF Seen, TypeOK

LEMMA InitTyped == Init => TypeOK
<1> SUFFICES ASSUME Init
             PROVE  TypeOK
  OBVIOUS
<1>1. PICK on \in SUBSET Marked, i \in services :
        /\ backend = [stream |-> [s \in Enabled |-> s \in on \/ s = "mpd"],
                      marker |-> {}, paused |-> FALSE,
                      polled |-> [s \in Polled |-> FALSE], desired |-> TRUE]
        /\ intent = Order[i]
  BY DEF Init
<1>2. backend \in Backend
  BY <1>1 DEF Backend
<1>3. intent \in Enabled /\ active \in Enabled
  BY <1>1, Places DEF Init
<1>4. /\ loop \in [at : {"top", "scan", "raise", "stop"}, i : services,
                   winner : Enabled \union {"none"}]
      /\ adc \in [at : {"idle", "selected", "stop"}, i : services]
  BY Walk DEF Init
<1>5. power \in BOOLEAN /\ cached \in [Enabled -> BOOLEAN] /\ button = 0 /\ control = "idle"
      /\ lock = "free" /\ keeper = "idle" /\ events \in 0 .. MaxEvents
  BY BoundAssumption DEF Init
<1>6. QED
  BY <1>2, <1>3, <1>4, <1>5 DEF TypeOK

LEMMA NextTyped == TypeOK /\ [Next]_vars => TypeOK'
<1> SUFFICES ASSUME TypeOK, [Next]_vars
             PROVE  TypeOK'
  OBVIOUS
<1>1. /\ backend \in Backend /\ power \in BOOLEAN /\ active \in Enabled
      /\ cached \in [Enabled -> BOOLEAN] /\ button \in {0} \union Presets
      /\ intent \in Enabled \union {"none"} /\ events \in 0 .. MaxEvents
      /\ loop \in [at : {"top", "scan", "raise", "stop"}, i : services,
                   winner : Enabled \union {"none"}]
      /\ adc \in [at : {"idle", "selected", "stop"}, i : services]
      /\ control \in {"idle", "play", "pause", "skip"} /\ lock \in {"free", "adc", "control"}
      /\ keeper \in {"idle", "play", "stop"}
  BY DEF TypeOK
<1>2. /\ Order[loop.i] \in Enabled /\ Order[adc.i] \in Enabled /\ "mpd" \in Enabled
      /\ loop.winner \in Enabled \union {"none"} /\ First \in services
  BY <1>1, Places, Walk
<1>3. ASSUME NEW b \in Backend, NEW s \in Enabled
      PROVE  /\ \A c \in Refreshed(b, s) : c \in Backend
             /\ \A c \in Plays(b, s) : c \in Backend
             /\ \A c \in Stops(b, s) : c \in Backend
             /\ \A c \in PlaysStation(b) : c \in Backend
             /\ \A keep : \A c \in StopsOther(b, s, keep) : c \in Backend
             /\ \A v \in BOOLEAN : Streams(b, s, v) \in Backend
  BY RefreshedAlike, PlaysTouch, StopsTouch, StationTouches, OthersStop, StreamsTouch DEF Touched
<1>4. Event => events' \in 0 .. MaxEvents
  BY <1>1, BoundAssumption DEF Event
<1>5. CASE UNCHANGED vars
  BY <1>5 DEF vars, threadVars, TypeOK, Backend, services
<1>6. CASE LoopTop
  <2>1. loop' \in [at : {"top", "scan", "raise", "stop"}, i : services,
                   winner : Enabled \union {"none"}]
    BY <1>2, <1>6 DEF LoopTop
  <2>2. backend' \in Backend
    BY <1>1, <1>3, <1>6 DEF LoopTop
  <2>3. QED
    BY <1>1, <1>6, <2>1, <2>2 DEF LoopTop, NoEvent, TypeOK
<1>7. CASE LoopChecks
  <2>1. PICK p \in Probes(backend, Order[loop.i]) :
          /\ backend' = p.after
          /\ IF p.answer /\ ~cached[Order[loop.i]]
             THEN loop' = [loop EXCEPT !.at = "raise"] /\ UNCHANGED cached
             ELSE Onward(loop.winner) /\ cached' = Seen(Order[loop.i], p.answer)
    BY <1>7 DEF LoopChecks
  <2>2. p.answer \in BOOLEAN /\ backend' \in Backend
    BY <1>1, <1>2, <2>1, ProbesAlike
  <2>3. cached' \in [Enabled -> BOOLEAN]
    <3>1. cached' = cached \/ cached' = Seen(Order[loop.i], p.answer)
      BY <2>1
    <3>2. Seen(Order[loop.i], p.answer) \in [Enabled -> BOOLEAN]
      BY <1>2, <2>2, SeenTyped
    <3>3. QED
      BY <1>1, <3>1, <3>2
  <2>4. loop' \in [at : {"top", "scan", "raise", "stop"}, i : services,
                   winner : Enabled \union {"none"}]
    <3>1. CASE Onward(loop.winner)
      BY <1>2, <3>1, OnwardTyped
    <3>2. CASE loop' = [loop EXCEPT !.at = "raise"]
      BY <1>1, <3>2
    <3>3. QED
      BY <2>1, <3>1, <3>2
  <2>5. QED
    BY <1>1, <1>7, <2>2, <2>3, <2>4 DEF LoopChecks, NoEvent, TypeOK
<1>8. CASE LoopRaises
  <2>1. active' \in Enabled /\ Winner(Order[loop.i]) \in Enabled \union {"none"}
    BY <1>1, <1>2, <1>8 DEF LoopRaises, Winner, FirstWins
  <2>2. cached' \in [Enabled -> BOOLEAN] /\ Onward(Winner(Order[loop.i]))
    BY <1>2, <1>8, SeenTyped DEF LoopRaises
  <2>3. loop' \in [at : {"top", "scan", "raise", "stop"}, i : services,
                   winner : Enabled \union {"none"}]
    BY <2>1, <2>2, OnwardTyped
  <2>4. backend' \in Backend
    BY <1>1, <1>3, <1>8, <2>1 DEF LoopRaises
  <2>5. QED
    BY <1>1, <1>8, <2>1, <2>2, <2>3, <2>4 DEF LoopRaises, NoEvent, TypeOK
<1>9. CASE LoopStops
  <2>1. backend' \in Backend
    BY <1>1, <1>2, <1>3, <1>9 DEF LoopStops
  <2>2. loop' \in [at : {"top", "scan", "raise", "stop"}, i : services,
                   winner : Enabled \union {"none"}]
    BY <1>1, <1>2, <1>9, Walk DEF LoopStops
  <2>3. QED
    BY <1>1, <1>9, <2>1, <2>2 DEF LoopStops, NoEvent, TypeOK
<1>10. CASE SwitchTurns
  <2>1. PICK b \in IF power' THEN Plays(backend, active) ELSE Stops(backend, active) :
          backend' \in Refreshed(b, active)
    BY <1>10 DEF SwitchTurns
  <2>2. b \in Backend
    BY <1>1, <1>3, <2>1
  <2>3. backend' \in Backend
    BY <1>1, <1>3, <2>1, <2>2
  <2>4. power' \in BOOLEAN /\ intent' \in Enabled \union {"none"}
    BY <1>1, <1>10 DEF SwitchTurns
  <2>5. UNCHANGED <<active, cached, threadVars>> /\ Event
    BY <1>10 DEF SwitchTurns
  <2>6. QED
    BY <1>1, <1>4, <2>3, <2>4, <2>5 DEF TypeOK, threadVars
<1>11. ASSUME NEW p \in Presets, ButtonSelects(p) \/ ButtonIgnored(p)
       PROVE  TypeOK'
  <2>1. CASE ButtonSelects(p)
    BY <1>1, <1>2, <1>4, <2>1 DEF ButtonSelects, TypeOK
  <2>2. CASE ButtonIgnored(p)
    BY <1>1, <1>2, <1>4, <2>2 DEF ButtonIgnored, TypeOK, threadVars
  <2>3. QED
    BY <1>11, <2>1, <2>2
<1>12. CASE ButtonPlays
  <2>1. backend' \in Backend
    BY <1>1, <1>2, <1>3, <1>12 DEF ButtonPlays
  <2>2. QED
    BY <1>1, <1>2, <1>12, <2>1 DEF ButtonPlays, NoEvent, TypeOK
<1>13. CASE ButtonStops
  <2>1. backend' \in Backend
    BY <1>1, <1>2, <1>3, <1>13 DEF ButtonStops
  <2>2. adc' \in [at : {"idle", "selected", "stop"}, i : services] /\ lock' \in {"free", "adc", "control"}
    BY <1>1, <1>2, <1>13, Walk DEF ButtonStops
  <2>3. QED
    BY <1>1, <1>13, <2>1, <2>2 DEF ButtonStops, NoEvent, TypeOK
<1>14. ASSUME NEW command \in {"play", "pause", "skip"}, CommandSent(command)
       PROVE  TypeOK'
  <2>1. backend' \in Backend
    BY <1>1, <1>2, <1>3, <1>14 DEF CommandSent, CommandEffect
  <2>2. intent' \in Enabled \union {"none"}
    BY <1>1, <1>2, <1>14 DEF CommandSent
  <2>3. QED
    BY <1>1, <1>4, <1>14, <2>1, <2>2 DEF CommandSent, TypeOK
<1>15. CASE CommandRecorded
  <2>1. backend' \in Backend
    BY <1>1, <1>3, <1>15 DEF CommandRecorded
  <2>2. cached' \in [Enabled -> BOOLEAN]
    BY <1>1, <1>15 DEF CommandRecorded
  <2>3. QED
    BY <1>1, <1>15, <2>1, <2>2 DEF CommandRecorded, NoEvent, TypeOK
<1>16. ASSUME NEW wanted, Keeps(wanted)
       PROVE  backend' \in Backend
  <2>1. PICK p \in Probes(backend, "mpd") :
          backend' \in IF p.answer = wanted THEN {p.after}
                       ELSE IF wanted THEN Plays(p.after, "mpd") ELSE Stops(p.after, "mpd")
    BY <1>16 DEF Keeps
  <2>2. p.after \in Backend
    BY <1>1, <1>2, ProbesAlike
  <2>3. QED
    BY <1>2, <1>3, <2>1, <2>2
<1>17. CASE KeeperKeeps
  BY <1>1, <1>16, <1>17 DEF KeeperKeeps, threadVars, NoEvent, TypeOK
<1>18. CASE KeeperReads
  BY <1>1, <1>18 DEF KeeperReads, NoEvent, TypeOK
<1>19. CASE KeeperActs
  BY <1>1, <1>16, <1>19 DEF KeeperActs, NoEvent, TypeOK
<1>20. ASSUME NEW s \in Polled, Poll(s)
       PROVE  TypeOK'
  <2>1. backend' \in Backend
    BY <1>1, <1>20, Kinds DEF Poll, Backend
  <2>2. QED
    BY <1>1, <1>20, <2>1 DEF Poll, threadVars, NoEvent, TypeOK
<1>21. ASSUME NEW s \in Enabled, SenderStarts(s) \/ SenderStops(s)
       PROVE  TypeOK'
  <2>1. backend' \in Backend
    BY <1>1, <1>3, <1>21 DEF SenderStarts, SenderStops
  <2>2. intent' \in Enabled \union {"none"} /\ Event /\ UNCHANGED <<power, active, cached, threadVars>>
    BY <1>1, <1>21 DEF SenderStarts, SenderStops
  <2>3. QED
    BY <1>1, <1>4, <2>1, <2>2 DEF threadVars, TypeOK
<1>22. CASE MpdDrops
  <2>1. /\ backend' = Streams(backend, "mpd", FALSE) /\ events < MaxEvents /\ events' = events + 1
        /\ UNCHANGED <<power, active, cached, threadVars, intent>>
    BY <1>22 DEF MpdDrops
  <2>2. backend' \in Backend
    BY <1>1, <1>2, <1>3, <2>1
  <2>3. events' \in 0 .. MaxEvents
    BY <1>1, <2>1, BoundAssumption
  <2>4. /\ power' = power /\ active' = active /\ cached' = cached /\ intent' = intent
        /\ loop' = loop /\ adc' = adc /\ button' = button /\ control' = control
        /\ lock' = lock /\ keeper' = keeper
    BY <2>1 DEF threadVars
  <2>5. QED
    BY <1>1, <2>2, <2>3, <2>4 DEF TypeOK
<1>23. QED
  BY <1>5, <1>6, <1>7, <1>8, <1>9, <1>10, <1>11, <1>12, <1>13, <1>14, <1>15, <1>17, <1>18,
     <1>19, <1>20, <1>21, <1>22 DEF Next, Loop, Adc, Keeper

\* Every variable keeps its type, whatever fails and whoever overtakes whom.
THEOREM TypeCorrect == Spec => []TypeOK
<1>1. Init => TypeOK
  BY InitTyped
<1>2. TypeOK /\ [Next]_vars => TypeOK'
  BY NextTyped
<1>3. QED
  BY <1>1, <1>2, PTL DEF Spec

-----------------------------------------------------------------------------
(***************************************************************************)
(* A marker is removed when its stream has ended, or by a Play.            *)
(***************************************************************************)
LEMMA NextSilenced ==
  ASSUME TypeOK, Next, "probe" \notin Faults
  PROVE  Harmless(backend, backend') \/ control' = "play" \/ power' # power
<1>1. /\ backend \in Backend /\ active \in Enabled /\ Order[loop.i] \in Enabled
      /\ Order[adc.i] \in Enabled /\ "mpd" \in Enabled
  BY Places DEF TypeOK
<1>2. \A s \in Enabled : \A c \in Refreshed(backend, s) : Harmless(backend, c)
  BY <1>1, RefreshedAlike
<1>3. backend.marker \subseteq backend'.marker => Harmless(backend, backend')
  BY DEF Harmless
<1>4. CASE LoopTop
  BY <1>1, <1>2, <1>3, <1>4 DEF LoopTop
<1>5. CASE LoopChecks
  <2>1. \E p \in Probes(backend, Order[loop.i]) : backend' = p.after
    BY <1>5 DEF LoopChecks
  <2>2. QED
    BY <1>1, <2>1, ProbesAlike DEF Alike, Harmless
<1>6. CASE LoopRaises
  <2>1. active' \in Enabled
    BY <1>1, <1>6 DEF LoopRaises
  <2>2. QED
    BY <1>2, <1>6, <2>1 DEF LoopRaises
<1>7. CASE LoopStops \/ ButtonStops
  BY <1>1, <1>7, OthersStop DEF LoopStops, ButtonStops
<1>8. CASE SwitchTurns
  BY <1>8, TypeOK DEF SwitchTurns, TypeOK
<1>9. CASE \E p \in Presets : ButtonSelects(p) \/ ButtonIgnored(p)
  BY <1>3, <1>9 DEF ButtonSelects, ButtonIgnored
<1>10. CASE ButtonPlays
  BY <1>1, <1>3, <1>10, StationTouches DEF ButtonPlays
<1>11. ASSUME NEW command \in {"play", "pause", "skip"}, CommandSent(command)
       PROVE  Harmless(backend, backend') \/ control' = "play"
  <2>1. control' = command /\ backend' \in CommandEffect(backend, command)
    BY <1>11 DEF CommandSent
  <2>2. CASE command = "play"
    BY <2>1, <2>2
  <2>3. CASE command = "pause"
    <3>1. backend' \in Stops(backend, active)
      BY <2>1, <2>3 DEF CommandEffect
    <3>2. QED
      BY <1>1, <1>3, <3>1, StopsTouch
  <2>4. CASE command = "skip"
    <3>1. backend' \in PlaysStation(backend) \/ backend' = backend
      BY <2>1, <2>4 DEF CommandEffect
    <3>2. QED
      BY <1>1, <1>3, <3>1, StationTouches
  <2>5. QED
    BY <2>2, <2>3, <2>4
<1>12. CASE CommandRecorded
  BY <1>1, <1>2, <1>12 DEF CommandRecorded
<1>13. ASSUME NEW wanted, Keeps(wanted)
       PROVE  Harmless(backend, backend')
  <2>1. PICK p \in Probes(backend, "mpd") :
          backend' \in IF p.answer = wanted THEN {p.after}
                       ELSE IF wanted THEN Plays(p.after, "mpd") ELSE Stops(p.after, "mpd")
    BY <1>13 DEF Keeps
  <2>2. p.after \in Backend /\ Harmless(backend, p.after)
    BY <1>1, ProbesAlike DEF Alike, Harmless
  <2>3. p.after.marker \subseteq backend'.marker
    BY <1>1, <2>1, <2>2, PlaysTouch, StopsTouch
  <2>4. QED
    BY <2>2, <2>3 DEF Harmless
<1>14. CASE Keeper
  BY <1>3, <1>13, <1>14 DEF Keeper, KeeperKeeps, KeeperReads, KeeperActs
<1>15. ASSUME NEW s \in Polled, Poll(s)
       PROVE  Harmless(backend, backend')
  <2>1. backend'.marker = backend.marker
    BY <1>1, <1>15 DEF Poll, Backend
  <2>2. QED
    BY <1>3, <2>1
<1>16. CASE (\E s \in Enabled : SenderStarts(s) \/ SenderStops(s)) \/ MpdDrops
  <2>1. \E s \in Enabled, v \in BOOLEAN : backend' = Streams(backend, s, v)
    BY <1>1, <1>16 DEF SenderStarts, SenderStops, MpdDrops
  <2>2. backend'.marker = backend.marker
    BY <1>1, <2>1, StreamsTouch
  <2>3. QED
    BY <1>3, <2>2
<1>17. QED
  BY <1>4, <1>5, <1>6, <1>7, <1>8, <1>9, <1>10, <1>11, <1>12, <1>14, <1>15, <1>16
     DEF Next, Loop, Adc

\* What switches away from AirPlay and USB silences them until their sender ends
\* the stream, or Play or the power switch asks for them again, if only their
\* state can be asked for: set_play_state and get_play_state of both backends.
THEOREM SilenceIsKept ==
  ASSUME "probe" \notin Faults
  PROVE  Spec => SilencedUntilStreamEnds
<1>1. TypeOK /\ [Next]_vars =>
        [\A s \in Marked :
           s \in backend.marker /\ s \notin backend'.marker =>
             ~backend.stream[s] \/ control' = "play" \/ power' # power]_vars
  <2> SUFFICES ASSUME TypeOK, Next, NEW s \in Marked, s \in backend.marker, s \notin backend'.marker
               PROVE  ~backend.stream[s] \/ control' = "play" \/ power' # power
    BY DEF vars
  <2>1. QED
    BY NextSilenced DEF Harmless
<1>2. QED
  BY <1>1, TypeCorrect, PTL DEF Spec, SilencedUntilStreamEnds

-----------------------------------------------------------------------------
(* What a call changes in the places.                                      *)

LEMMA PlacesAlike ==
  ASSUME TypeOK, Alike(backend, backend')
  PROVE  /\ \A i \in services : (Up(i)' <=> Up(i)) /\ (Reported(i)' <=> Reported(i))
         /\ MpdSteady /\ (intent' = intent) /\ (adc' = adc) => MpdSteady'
<1>1. backend \in Backend /\ backend' \in Backend
  BY DEF TypeOK, Alike
<1>2. \A i \in services : (Up(i)' <=> Up(i)) /\ (Reported(i)' <=> Reported(i))
  BY <1>1, AlikeSounds, Places DEF Up, Reported
<1>3. backend'.stream = backend.stream /\ backend'.desired = backend.desired
  BY DEF Alike
<1>4. QED
  BY <1>2, <1>3 DEF MpdSteady

LEMMA PlacesTouched ==
  ASSUME TypeOK, NEW j \in services, Touched(backend, backend', Order[j])
  PROVE  /\ \A i \in services \ {j} : (Up(i)' <=> Up(i)) /\ (Reported(i)' <=> Reported(i))
         /\ (Up(j)' => Up(j)) => (Reported(j)' => Reported(j))
         /\ Order[j] # "mpd" => /\ backend'.stream["mpd"] = backend.stream["mpd"]
                                /\ backend'.desired = backend.desired
<1>1. backend \in Backend /\ backend' \in Backend
  BY DEF TypeOK, Touched
<1>2. \A i \in services \ {j} : (Up(i)' <=> Up(i)) /\ (Reported(i)' <=> Reported(i))
  BY <1>1, TouchedSounds, Places DEF Up, Reported
<1>3. ASSUME Up(j)' => Up(j), Reported(j)'
      PROVE  Reported(j)
  <2>1. CASE Order[j] \in Polled
    BY <1>1, <1>3, <2>1, Places, TouchedSounds DEF Reported
  <2>2. CASE Order[j] \notin Polled
    BY <1>1, <1>3, <2>2, Places, Kinds, BackendFields DEF Reported, Up
  <2>3. QED
    BY <2>1, <2>2
<1>4. Order[j] # "mpd" => /\ backend'.stream["mpd"] = backend.stream["mpd"]
                          /\ backend'.desired = backend.desired
  BY Places DEF Touched
<1>5. QED
  BY <1>2, <1>3, <1>4

\* While somebody holds the lock, and after the loop has stopped the others, no
\* edge is waiting for the intended one.
LEMMA ComesLaterWhen ==
  ASSUME NEW i, ComesLater(i)
  PROVE  lock = "free" /\ loop.at \in {"top", "scan", "raise"} /\ intent # "none"
BY Places DEF ComesLater, Scanning, Intended

-----------------------------------------------------------------------------
(* The metadata loop.                                                      *)

LEMMA TopKept ==
  ASSUME AInv, Faults = {}, LoopTop
  PROVE  /\ keeper' = "idle" /\ OthersDoomed' /\ EdgesIntended' /\ WinnerIntended'
         /\ IntendedFollowed' /\ MpdSteady' /\ AdcLocks' /\ ControlLocks'
<1>1. /\ loop.at = "top" /\ loop' = [at |-> "scan", i |-> First, winner |-> "none"]
      /\ UNCHANGED <<power, active, cached, adc, button, control, lock, keeper, intent, events>>
  BY DEF LoopTop, NoEvent
<1>2. loop.winner = "none" /\ ~Scanning
  BY <1>1 DEF AInv, WinnerIntended, Scanning
<1>3. loop'.at = "scan" /\ loop'.i = First /\ loop'.winner = "none" /\ Scanning'
  BY <1>1 DEF Scanning
<1>4. Alike(backend, backend')
  <2>1. backend \in Backend /\ active \in Enabled
    BY DEF AInv, TypeOK
  <2>2. backend' = backend => Alike(backend, backend')
    BY <2>1 DEF Alike
  <2>3. QED
    BY <2>1, <2>2, RefreshedAlike DEF LoopTop
<1>5. /\ \A i \in services : (Up(i)' <=> Up(i)) /\ (Reported(i)' <=> Reported(i))
      /\ MpdSteady'
  BY <1>1, <1>4, PlacesAlike DEF AInv
<1>6. \A i \in services : (Cached(i)' <=> Cached(i)) /\ (Intended(i)' <=> Intended(i))
  BY <1>1 DEF Cached, Intended
<1>7. \A i \in services : ComesLater(i) => ComesLater(i)'
  BY <1>1, <1>2, <1>3, <1>5, <1>6, Walk DEF ComesLater, Scanning
<1>8. \A i \in services : Doomed(i) => Doomed(i)'
  BY <1>1, <1>2, <1>5, <1>6 DEF Doomed
<1>9. OthersDoomed'
  BY <1>5, <1>6, <1>7, <1>8 DEF AInv, OthersDoomed
<1>10. EdgesIntended'
  BY <1>1, <1>5, <1>6, <1>7 DEF AInv, EdgesIntended
<1>11. WinnerIntended'
  BY <1>3 DEF WinnerIntended
<1>12. IntendedFollowed'
  BY <1>1, <1>5, <1>6 DEF AInv, IntendedFollowed
<1>13. AdcLocks' /\ ControlLocks'
  BY <1>1, <1>5, <1>6 DEF AInv, AdcLocks, ControlLocks
<1>14. QED
  BY <1>1, <1>5, <1>9, <1>10, <1>11, <1>12, <1>13 DEF AInv

\* Where check_play_states goes on.
LEMMA Onwards ==
  ASSUME TypeOK, NEW w, Onward(w)
  PROVE  /\ loop'.winner = w
         /\ loop'.at \in {"scan", "stop", "top"} /\ (loop'.at = "top" => w = "none")
         /\ loop'.at = "stop" => w # "none"
         /\ w # "none" => Scanning' \/ (loop'.at = "stop" /\ loop'.i = First)
         /\ \A k \in services : k > loop.i => loop'.at = "scan" /\ Scanning' /\ loop'.i <= k
<1>1. loop.i \in services
  BY DEF TypeOK
<1>2. CASE More(loop.i)
  <2>1. loop' = [at |-> "scan", i |-> After(loop.i), winner |-> w]
    BY <1>2 DEF Onward
  <2>2. loop'.at = "scan" /\ loop'.i = After(loop.i) /\ loop'.winner = w
    BY <2>1
  <2>3. QED
    BY <1>1, <1>2, <2>2, Walk DEF Scanning
<1>3. CASE ~More(loop.i)
  <2>1. \A k \in services : ~(k > loop.i)
    BY <1>3 DEF More
  <2>2. CASE w # "none"
    <3>1. loop' = [at |-> "stop", i |-> First, winner |-> w]
      BY <1>3, <2>2 DEF Onward
    <3>2. QED
      BY <2>1, <2>2, <3>1
  <2>3. CASE w = "none"
    <3>1. loop' = [at |-> "top", i |-> First, winner |-> "none"]
      BY <1>3, <2>3 DEF Onward
    <3>2. QED
      BY <2>1, <2>3, <3>1
  <2>4. QED
    BY <2>2, <2>3
<1>4. QED
  BY <1>2, <1>3

LEMMA ChecksKept ==
  ASSUME AInv, Faults = {}, LoopChecks
  PROVE  /\ keeper' = "idle" /\ OthersDoomed' /\ EdgesIntended' /\ WinnerIntended'
         /\ IntendedFollowed' /\ MpdSteady' /\ AdcLocks' /\ ControlLocks'
<1>0. PICK L \in services : L = loop.i
  BY DEF AInv, TypeOK
<1>1. /\ loop.at = "scan" /\ Scanning /\ TypeOK
      /\ UNCHANGED <<power, active, adc, button, control, lock, keeper, intent, events>>
  BY DEF LoopChecks, NoEvent, Scanning, AInv
<1>2. PICK p \in Probes(backend, Order[L]) :
        /\ backend' = p.after
        /\ IF p.answer /\ ~cached[Order[L]]
           THEN loop' = [loop EXCEPT !.at = "raise"] /\ UNCHANGED cached
           ELSE Onward(loop.winner) /\ cached' = Seen(Order[L], p.answer)
  BY <1>0 DEF LoopChecks
<1>3. p.answer = Reports(backend, Order[L]) /\ Alike(backend, backend')
  BY <1>1, <1>2, ProbesAlike, Places DEF TypeOK
<1>4. /\ \A i \in services : (Up(i)' <=> Up(i)) /\ (Reported(i)' <=> Reported(i))
      /\ MpdSteady'
  BY <1>1, <1>3, PlacesAlike DEF AInv
<1>5. \A i \in services : Intended(i)' <=> Intended(i)
  BY <1>1 DEF Intended
<1>6. AdcLocks' /\ ControlLocks'
  BY <1>1, <1>4, <1>5 DEF AInv, AdcLocks, ControlLocks
<1>7. CASE Reported(L) /\ ~Cached(L)
  <2>1. loop' = [loop EXCEPT !.at = "raise"] /\ cached' = cached
    BY <1>2, <1>3, <1>7 DEF Reported, Cached
  <2>2. loop'.at = "raise" /\ loop'.i = loop.i /\ loop'.winner = loop.winner /\ Scanning'
    BY <1>1, <2>1 DEF Scanning, TypeOK
  <2>3. \A i \in services : Cached(i)' <=> Cached(i)
    BY <2>1 DEF Cached
  <2>4. \A i \in services : ComesLater(i) => ComesLater(i)'
    BY <1>1, <1>4, <1>5, <2>2, <2>3 DEF ComesLater
  <2>5. \A i \in services : Doomed(i) => Doomed(i)'
    BY <1>1, <1>4, <1>5, <2>2, <2>3 DEF Doomed
  <2>6. OthersDoomed'
    BY <1>4, <1>5, <2>3, <2>4, <2>5 DEF AInv, OthersDoomed
  <2>7. EdgesIntended'
    BY <1>1, <1>4, <1>5, <2>3, <2>4 DEF AInv, EdgesIntended
  <2>8. WinnerIntended'
    <3>1. Intended(L) \/ ComesLater(L) \/ (intent = "none" /\ Order[L] = active)
      BY <1>1, <1>7 DEF AInv, EdgesIntended
    <3>2. Intended(L)' \/ ComesLater(L)' \/ (intent' = "none" /\ Order[L] = active')
      BY <1>1, <1>5, <2>4, <3>1
    <3>3. L = loop'.i
      BY <1>0, <2>2
    <3>4. Intended(loop.i)' \/ ComesLater(loop.i)' \/ (intent' = "none" /\ Order[loop'.i] = active')
      BY <3>2, <3>3
    <3>5. QED
      BY <1>1, <2>2, <3>4 DEF AInv, WinnerIntended
  <2>9. IntendedFollowed'
    BY <1>1, <1>4, <1>5, <2>3 DEF AInv, IntendedFollowed
  <2>10. QED
    BY <1>1, <1>4, <1>6, <2>6, <2>7, <2>8, <2>9 DEF AInv
<1>8. CASE ~(Reported(L) /\ ~Cached(L))
  <2>1. Onward(loop.winner) /\ cached' = Seen(Order[L], Reports(backend, Order[L]))
    BY <1>2, <1>3, <1>8 DEF Reported, Cached
  <2>2. /\ loop'.winner = loop.winner
        /\ loop'.at \in {"scan", "stop", "top"} /\ (loop'.at = "top" => loop.winner = "none")
        /\ loop'.at = "stop" => loop.winner # "none"
        /\ loop.winner # "none" => Scanning' \/ (loop'.at = "stop" /\ loop'.i = First)
        /\ \A k \in services : k > L => loop'.at = "scan" /\ Scanning' /\ loop'.i <= k
    BY <1>0, <1>1, <2>1, Onwards
  <2>3. \A i \in services : (Cached(i)' => Cached(i)) /\ (Cached(i) /\ Reported(i) => Cached(i)')
    <3>1. Cached(L)' <=> Reported(L)
      BY <1>1, <2>1, Places DEF Cached, Seen, Reported, TypeOK
    <3>2. \A i \in services \ {L} : Cached(i)' <=> Cached(i)
      BY <1>1, <2>1, Places DEF Cached, Seen, TypeOK
    <3>3. QED
      BY <1>8, <3>1, <3>2
  <2>4. \A i \in services : ComesLater(i) /\ Reported(i) => Cached(i)' \/ ComesLater(i)'
    <3> SUFFICES ASSUME NEW i \in services, ComesLater(i), Reported(i), ~Cached(i)'
                 PROVE  ComesLater(i)'
      OBVIOUS
    <3>1. ~Cached(i) /\ i # L
      BY <1>8, <2>3
    <3>2. PICK k \in services :
            /\ Intended(k) /\ k < i /\ lock = "free"
            /\ \/ /\ Up(k) /\ Reported(k) /\ ~Cached(k)
                  /\ loop.at = "top" \/ (Scanning /\ L <= k /\ loop.winner = "none")
               \/ loop.winner = intent /\ Scanning /\ L <= i
      BY <1>0 DEF ComesLater
    <3>3. L \in Nat /\ k \in Nat /\ i \in Nat
      BY Places
    <3>4. Intended(k)' /\ k < i /\ lock' = "free"
      BY <1>1, <1>5, <3>2
    <3>5. CASE Up(k) /\ Reported(k) /\ ~Cached(k) /\ L <= k /\ loop.winner = "none"
      <4>1. k # L
        BY <1>8, <3>5
      <4>2. Scanning' /\ loop'.i <= k /\ loop'.winner = "none"
        BY <2>2, <3>3, <3>5, <4>1
      <4>3. Up(k)' /\ Reported(k)' /\ ~Cached(k)'
        BY <1>4, <2>3, <3>5
      <4>4. QED
        BY <3>4, <4>2, <4>3 DEF ComesLater
    <3>6. CASE loop.winner = intent /\ L <= i
      <4>1. Scanning' /\ loop'.i <= i /\ loop'.winner = intent'
        BY <1>1, <2>2, <3>1, <3>3, <3>6
      <4>2. QED
        BY <3>4, <4>1 DEF ComesLater
    <3>7. QED
      BY <1>1, <3>2, <3>5, <3>6
  <2>5. \A i \in services : Doomed(i) => Doomed(i)'
    BY <1>1, <1>4, <1>5, <2>2, <2>3, Walk, Places DEF Doomed
  <2>6. OthersDoomed'
    BY <1>4, <1>5, <2>3, <2>4, <2>5 DEF AInv, OthersDoomed
  <2>7. EdgesIntended'
    <3> SUFFICES ASSUME NEW i \in services, Reported(i)', ~Cached(i)'
                 PROVE  Intended(i)' \/ ComesLater(i)' \/ (intent' = "none" /\ Order[i] = active')
      BY DEF EdgesIntended
    <3>1. Reported(i) /\ ~Cached(i)
      BY <1>4, <2>3
    <3>2. Intended(i) \/ ComesLater(i) \/ (intent = "none" /\ Order[i] = active)
      BY <3>1 DEF AInv, EdgesIntended
    <3>3. QED
      BY <1>1, <1>5, <2>4, <3>1, <3>2
  <2>8. WinnerIntended'
    <3>1. loop'.at # "raise" /\ (loop'.at \in {"stop", "top"} => (loop'.winner = "none" <=> loop'.at = "top"))
      BY <2>2
    <3>2. loop'.winner # "none" => loop'.winner = active' /\ intent' \in {loop'.winner, "none"}
      BY <1>1, <2>2 DEF AInv, WinnerIntended
    <3>3. QED
      BY <3>1, <3>2 DEF WinnerIntended
  <2>9. IntendedFollowed'
    BY <1>1, <1>4, <1>5, <2>3 DEF AInv, IntendedFollowed
  <2>10. QED
    BY <1>1, <1>4, <1>6, <2>6, <2>7, <2>8, <2>9 DEF AInv
<1>9. QED
  BY <1>7, <1>8

LEMMA RaisesKept ==
  ASSUME AInv, Faults = {}, LoopRaises
  PROVE  /\ keeper' = "idle" /\ OthersDoomed' /\ EdgesIntended' /\ WinnerIntended'
         /\ IntendedFollowed' /\ MpdSteady' /\ AdcLocks' /\ ControlLocks'
<1>0. PICK L \in services : L = loop.i
  BY DEF AInv, TypeOK
<1>1. /\ loop.at = "raise" /\ Scanning /\ TypeOK /\ active \in Enabled
      /\ UNCHANGED <<power, adc, button, control, lock, keeper, intent, events>>
      /\ cached' = Seen(Order[L], TRUE) /\ Onward(Winner(Order[L]))
      /\ IF FirstWins THEN lock = "free" /\ active' = Order[L] ELSE UNCHANGED active
      /\ backend' \in Refreshed(backend, active')
  BY <1>0 DEF LoopRaises, NoEvent, Scanning, AInv, TypeOK
<1>2. Alike(backend, backend')
  <2>1. backend \in Backend /\ active' \in Enabled
    BY <1>1, Places DEF TypeOK
  <2>2. QED
    BY <1>1, <2>1, RefreshedAlike
<1>3. /\ \A i \in services : (Up(i)' <=> Up(i)) /\ (Reported(i)' <=> Reported(i))
      /\ MpdSteady'
  BY <1>1, <1>2, PlacesAlike DEF AInv
<1>4. /\ \A i \in services : Intended(i)' <=> Intended(i)
      /\ \A i \in services \ {L} : Cached(i)' <=> Cached(i)
      /\ Cached(L)'
  BY <1>1, Places DEF Intended, Cached, Seen, TypeOK
<1>5. ControlLocks' /\ AdcLocks'
  <2>1. FirstWins => control = "idle" /\ adc.at = "idle"
    BY <1>1 DEF AInv, ControlLocks, AdcLocks
  <2>2. CASE FirstWins
    BY <1>1, <2>1, <2>2 DEF ControlLocks, AdcLocks
  <2>3. CASE ~FirstWins
    BY <1>1, <1>3, <1>4, <2>3 DEF AInv, ControlLocks, AdcLocks
  <2>4. QED
    BY <2>2, <2>3
<1>6. Intended(L) \/ ComesLater(L) \/ (intent = "none" /\ Order[L] = active)
  BY <1>0, <1>1 DEF AInv, WinnerIntended
<1>7. \A w : Onward(w) =>
        /\ loop'.winner = w
        /\ loop'.at \in {"scan", "stop", "top"} /\ (loop'.at = "top" => w = "none")
        /\ loop'.at = "stop" => w # "none"
        /\ w # "none" => Scanning' \/ (loop'.at = "stop" /\ loop'.i = First)
        /\ \A k \in services : k > L => loop'.at = "scan" /\ Scanning' /\ loop'.i <= k
  BY <1>0, <1>1, Onwards
<1>8. L \in Nat /\ \A i \in services : i \in Nat /\ First <= i
  BY Places, Walk
<1>9. CASE FirstWins
  <2>1. loop.winner = "none" /\ lock = "free" /\ lock' = "free" /\ active' = Order[L]
    BY <1>1, <1>9 DEF FirstWins
  <2>2. /\ loop'.winner = Order[L] /\ Order[L] # "none"
        /\ loop'.at \in {"scan", "stop"}
        /\ Scanning' \/ (loop'.at = "stop" /\ loop'.i = First)
        /\ \A k \in services : k > L => Scanning' /\ loop'.i <= k
    <3>1. Onward(Order[L]) /\ Order[L] # "none"
      BY <1>1, <1>9, Places DEF Winner
    <3>2. QED
      BY <1>7, <3>1
  <2>3. ~ComesLater(L)
    BY <1>0, <1>1, <1>8, <2>1, Places DEF ComesLater, Intended
  <2>4. adc.at = "idle"
    BY <2>1 DEF AInv, AdcLocks
  <2>5. CASE Intended(L)
    <3>1. intent' = Order[L] /\ loop'.winner = intent' /\ active' = intent'
      BY <1>1, <2>1, <2>2, <2>5 DEF Intended
    <3>2. \A i \in services : ComesLater(i) => i = L \/ ComesLater(i)'
      <4> SUFFICES ASSUME NEW i \in services, ComesLater(i), i # L
                   PROVE  ComesLater(i)'
        OBVIOUS
      <4>1. PICK k \in services :
              /\ Intended(k) /\ k < i
              /\ \/ loop.at = "top" \/ (Scanning /\ loop.i <= k /\ loop.winner = "none")
                 \/ loop.winner = intent /\ Scanning /\ loop.i <= i
        BY DEF ComesLater
      <4>2. k = L
        BY <2>5, <4>1, Places DEF Intended
      <4>3. Scanning' /\ loop'.i <= i
        BY <2>2, <4>1, <4>2, <1>8
      <4>4. Intended(L)' /\ L < i
        BY <1>4, <2>5, <4>1, <4>2
      <4>5. QED
        BY <2>1, <3>1, <4>3, <4>4 DEF ComesLater
    <3>3. \A i \in services : Doomed(i)'
      BY <1>8, <2>2, <3>1 DEF Doomed
    <3>4. OthersDoomed'
      BY <1>3, <1>4, <2>5, <3>2, <3>3 DEF AInv, OthersDoomed
    <3>5. EdgesIntended'
      <4> SUFFICES ASSUME NEW i \in services, Reported(i)', ~Cached(i)'
                   PROVE  Intended(i)' \/ ComesLater(i)'
        BY DEF EdgesIntended
      <4>1. i # L /\ Reported(i) /\ ~Cached(i)
        BY <1>3, <1>4
      <4>2. Intended(i) \/ ComesLater(i)
        BY <1>1, <3>1, <2>2, <4>1 DEF AInv, EdgesIntended
      <4>3. QED
        BY <1>4, <3>2, <4>1, <4>2
    <3>6. WinnerIntended'
      BY <2>2, <3>1 DEF WinnerIntended
    <3>7. IntendedFollowed'
      BY <3>1 DEF IntendedFollowed, Intended
    <3>8. QED
      BY <1>1, <1>3, <1>5, <3>4, <3>5, <3>6, <3>7 DEF AInv
  <2>6. CASE intent = "none" /\ Order[L] = active
    <3>1. \A i \in services : ~Intended(i) /\ ~Intended(i)'
      BY <1>1, <2>6, Places DEF Intended
    <3>2. \A i \in services : ~Up(i)
      BY <1>0, <2>1, <2>4, <2>6, <3>1 DEF AInv, OthersDoomed, Doomed
    <3>3. OthersDoomed' /\ IntendedFollowed'
      BY <1>3, <3>2 DEF OthersDoomed, IntendedFollowed
    <3>4. EdgesIntended'
      <4> SUFFICES ASSUME NEW i \in services, Reported(i)', ~Cached(i)'
                   PROVE  intent' = "none" /\ Order[i] = active'
        BY DEF EdgesIntended
      <4>1. i # L /\ Reported(i) /\ ~Cached(i)
        BY <1>3, <1>4
      <4>2. intent = "none" /\ Order[i] = active
        BY <2>6, <3>1, <4>1, ComesLaterWhen DEF AInv, EdgesIntended
      <4>3. QED
        BY <1>1, <2>1, <2>6, <4>2
    <3>5. WinnerIntended'
      BY <1>1, <2>1, <2>2, <2>6 DEF WinnerIntended
    <3>6. QED
      BY <1>1, <1>3, <1>5, <3>3, <3>4, <3>5 DEF AInv
  <2>7. QED
    BY <1>6, <2>3, <2>5, <2>6
<1>10. CASE ~FirstWins
  <2>1. /\ loop.winner # "none" /\ loop.winner = active /\ active' = active
        /\ intent \in {loop.winner, "none"}
    BY <1>1, <1>10 DEF FirstWins, AInv, WinnerIntended
  <2>2. /\ loop'.winner = loop.winner
        /\ loop'.at \in {"scan", "stop"}
        /\ Scanning' \/ (loop'.at = "stop" /\ loop'.i = First)
        /\ \A k \in services : k > L => Scanning' /\ loop'.i <= k
    <3>1. Onward(loop.winner)
      BY <1>1, <1>10 DEF Winner
    <3>2. QED
      BY <1>7, <2>1, <3>1
  <2>3. \A i \in services : ComesLater(i) => i = L \/ ComesLater(i)'
    <3> SUFFICES ASSUME NEW i \in services, ComesLater(i), i # L
                 PROVE  ComesLater(i)'
      OBVIOUS
    <3>1. PICK k \in services : Intended(k) /\ k < i /\ lock = "free" /\ L <= i /\ loop.winner = intent
      BY <1>0, <1>1, <2>1 DEF ComesLater
    <3>2. Scanning' /\ loop'.i <= i
      BY <1>8, <2>2, <3>1
    <3>3. Intended(k)' /\ lock' = "free" /\ loop'.winner = intent'
      BY <1>1, <1>4, <2>2, <3>1
    <3>4. QED
      BY <3>1, <3>2, <3>3 DEF ComesLater
  <2>4. \A i \in services : Doomed(i) => Doomed(i)'
    <3> SUFFICES ASSUME NEW i \in services, Doomed(i)
                 PROVE  Doomed(i)'
      OBVIOUS
    <3>1. CASE intent # "none"
      <4>1. loop'.winner = intent' /\ intent' # "none"
        BY <1>1, <2>1, <2>2, <3>1
      <4>2. QED
        BY <1>8, <2>2, <4>1 DEF Doomed
    <3>2. CASE intent = "none"
      <4>1. adc.at = "selected" \/ (adc.at = "stop" /\ i >= adc.i)
        BY <3>2, Places DEF Doomed, Intended
      <4>2. QED
        BY <1>1, <4>1 DEF Doomed
    <3>3. QED
      BY <3>1, <3>2
  <2>5. OthersDoomed'
    BY <1>3, <1>4, <2>3, <2>4 DEF AInv, OthersDoomed
  <2>6. EdgesIntended'
    <3> SUFFICES ASSUME NEW i \in services, Reported(i)', ~Cached(i)'
                 PROVE  Intended(i)' \/ ComesLater(i)' \/ (intent' = "none" /\ Order[i] = active')
      BY DEF EdgesIntended
    <3>1. i # L /\ Reported(i) /\ ~Cached(i)
      BY <1>3, <1>4
    <3>2. Intended(i) \/ ComesLater(i) \/ (intent = "none" /\ Order[i] = active)
      BY <3>1 DEF AInv, EdgesIntended
    <3>3. QED
      BY <1>1, <1>4, <2>1, <2>3, <3>1, <3>2
  <2>7. WinnerIntended'
    BY <1>1, <2>1, <2>2 DEF WinnerIntended
  <2>8. IntendedFollowed'
    <3> SUFFICES ASSUME NEW i \in services, Intended(i)', Up(i)'
                 PROVE  Order[i] = active' \/ ~Cached(i)'
      BY DEF IntendedFollowed
    <3>1. Intended(i) /\ Up(i)
      BY <1>3, <1>4
    <3>2. Order[i] = loop.winner
      BY <2>1, <3>1, Places DEF Intended
    <3>3. QED
      BY <2>1, <3>2
  <2>9. QED
    BY <1>1, <1>3, <1>5, <2>5, <2>6, <2>7, <2>8 DEF AInv
<1>11. QED
  BY <1>9, <1>10

LEMMA StopsKept ==
  ASSUME AInv, Faults = {}, LoopStops
  PROVE  /\ keeper' = "idle" /\ OthersDoomed' /\ EdgesIntended' /\ WinnerIntended'
         /\ IntendedFollowed' /\ MpdSteady' /\ AdcLocks' /\ ControlLocks'
<1>0. PICK L \in services : L = loop.i
  BY DEF AInv, TypeOK
<1>1. /\ loop.at = "stop" /\ ~Scanning /\ TypeOK /\ backend \in Backend
      /\ UNCHANGED <<power, active, cached, adc, button, control, lock, keeper, intent, events>>
      /\ backend' \in StopsOther(backend, Order[L], loop.winner)
      /\ loop' = IF More(L) THEN [loop EXCEPT !.i = After(@)]
                 ELSE [at |-> "top", i |-> First, winner |-> "none"]
  BY <1>0 DEF LoopStops, NoEvent, Scanning, AInv, TypeOK
<1>2. loop.winner # "none" /\ loop.winner = active /\ intent \in {loop.winner, "none"}
  BY <1>1 DEF AInv, WinnerIntended
<1>3. /\ \A k \in services : k > L => loop'.at = "stop" /\ loop'.winner = loop.winner /\ loop'.i <= k
      /\ \/ loop'.at = "stop" /\ loop'.winner = loop.winner
         \/ loop'.at = "top" /\ loop'.winner = "none"
  <2>1. CASE More(L)
    <3>1. loop'.at = "stop" /\ loop'.winner = loop.winner /\ loop'.i = After(L)
      BY <1>0, <1>1, <2>1 DEF TypeOK
    <3>2. QED
      BY <2>1, <3>1, Walk
  <2>2. CASE ~More(L)
    BY <1>1, <2>2 DEF More
  <2>3. QED
    BY <2>1, <2>2
<1>4. \A i \in services : (Intended(i)' <=> Intended(i)) /\ (Cached(i)' <=> Cached(i))
  BY <1>1 DEF Intended, Cached
<1>5. \A i \in services : ~ComesLater(i)
  BY <1>1, ComesLaterWhen
<1>6. /\ Touched(backend, backend', Order[L])
      /\ Order[L] = loop.winner => backend' = backend
      /\ Order[L] # loop.winner /\ Reported(L) => ~Up(L)'
      /\ Order[L] # loop.winner /\ ~Reported(L) => Alike(backend, backend')
      /\ backend'.stream["mpd"] = backend'.desired
  BY <1>1, OthersStop, Places DEF Up, Reported, AInv, MpdSteady
<1>7. /\ \A i \in services \ {L} : (Up(i)' <=> Up(i)) /\ (Reported(i)' <=> Reported(i))
      /\ Up(L)' => Up(L)
      /\ Reported(L)' => Reported(L)
  <2>1. \A i \in services \ {L} : (Up(i)' <=> Up(i)) /\ (Reported(i)' <=> Reported(i))
    BY <1>1, <1>6, PlacesTouched
  <2>2. Up(L)' => Up(L)
    <3>1. backend' = backend => (Up(L)' <=> Up(L))
      BY DEF Up
    <3>2. Alike(backend, backend') => (Up(L)' <=> Up(L))
      BY <1>1, PlacesAlike
    <3>3. QED
      BY <1>6, <3>1, <3>2
  <2>3. QED
    BY <1>1, <1>6, <2>1, <2>2, PlacesTouched
<1>8. Intended(L) => Order[L] = loop.winner
  BY <1>2, Places DEF Intended
<1>9. \A i \in services : Intended(i) => (Up(i)' <=> Up(i))
  <2>1. Order[L] = loop.winner => (Up(L)' <=> Up(L))
    BY <1>6 DEF Up
  <2>2. QED
    BY <1>7, <1>8, <2>1
<1>10. \A i \in services : Up(i)' /\ ~Intended(i) => Up(i) /\ Reported(i)' /\ Doomed(i)' /\ Cached(i)
  <2> SUFFICES ASSUME NEW i \in services, Up(i)', ~Intended(i)
               PROVE  Up(i) /\ Reported(i)' /\ Doomed(i)' /\ Cached(i)
    OBVIOUS
  <2>1. Up(i) /\ Reported(i) /\ Doomed(i) /\ Cached(i)
    BY <1>5, <1>7 DEF AInv, OthersDoomed
  <2>2. i = L => Order[L] = loop.winner
    <3>1. ASSUME i = L, Order[L] # loop.winner
          PROVE  FALSE
      <4>1. ~Up(L)'
        BY <1>6, <2>1, <3>1
      <4>2. QED
        BY <3>1, <4>1
    <3>2. QED
      BY <3>1
  <2>3. Reported(i)'
    <3>1. CASE i = L
      <4>1. backend' = backend
        BY <1>6, <2>2, <3>1
      <4>2. QED
        BY <2>1, <4>1 DEF Reported
    <3>2. CASE i # L
      BY <1>7, <2>1, <3>2
    <3>3. QED
      BY <3>1, <3>2
  <2>4. Doomed(i)'
    <3>1. CASE \E k \in services : Intended(k) /\ Up(k) /\ ~Cached(k)
      BY <1>4, <1>9, <3>1 DEF Doomed
    <3>2. CASE loop.winner = intent /\ intent # "none" /\ i >= L
      <4>1. i # L
        BY <2>2, <3>2 DEF Intended
      <4>2. i > L
        BY <3>2, <4>1, Places
      <4>3. loop'.at = "stop" /\ loop'.winner = loop.winner /\ loop'.i <= i
        BY <1>3, <4>2
      <4>4. QED
        BY <1>1, <3>2, <4>2, <4>3, Places DEF Doomed
    <3>3. CASE adc.at = "selected" \/ (adc.at = "stop" /\ i >= adc.i)
      BY <1>1, <3>3 DEF Doomed
    <3>4. QED
      BY <1>0, <1>1, <2>1, <3>1, <3>2, <3>3 DEF Doomed
  <2>5. QED
    BY <2>1, <2>3, <2>4
<1>11. OthersDoomed'
  BY <1>4, <1>10 DEF OthersDoomed
<1>12. EdgesIntended'
  <2>1. \A i \in services : Reported(i)' => Reported(i)
    BY <1>7
  <2>2. QED
    BY <1>1, <1>4, <1>5, <2>1 DEF AInv, EdgesIntended
<1>13. WinnerIntended'
  BY <1>1, <1>2, <1>3 DEF WinnerIntended
<1>14. IntendedFollowed'
  BY <1>1, <1>4, <1>9 DEF AInv, IntendedFollowed
<1>15. MpdSteady'
  <2>1. intent = "mpd" => backend'.stream["mpd"] = backend.stream["mpd"]
    <3>1. Order[L] # "mpd" => backend'.stream["mpd"] = backend.stream["mpd"]
      BY <1>1, <1>6, PlacesTouched
    <3>2. QED
      BY <1>2, <1>6, <3>1
  <2>2. QED
    BY <1>1, <1>6, <2>1 DEF AInv, MpdSteady
<1>16. AdcLocks' /\ ControlLocks'
  <2>1. \A i \in services : Up(i)' => Up(i)
    BY <1>7
  <2>2. QED
    BY <1>1, <1>4, <2>1 DEF AInv, AdcLocks, ControlLocks
<1>17. QED
  BY <1>1, <1>11, <1>12, <1>13, <1>14, <1>15, <1>16 DEF AInv

-----------------------------------------------------------------------------
(***************************************************************************)
(* Once the radio has settled nothing is doomed any more, so only the      *)
(* intended source plays, it is the active one and everybody knows.        *)
(***************************************************************************)
LEMMA SettledQuiet ==
  ASSUME AInv, Settled
  PROVE  /\ loop.at = "top" /\ loop.winner = "none" /\ lock = "free"
         /\ adc.at = "idle" /\ control = "idle"
         /\ \A i \in services : (Up(i) <=> Reported(i)) /\ (Cached(i) <=> Reported(i))
         /\ \A i \in services : Up(i) => Intended(i) /\ Order[i] = active
         /\ \A s \in backend.marker : backend.stream[s]
<1>1. /\ loop.at = "top" /\ lock = "free" /\ Agreed /\ TypeOK /\ ~Scanning
      /\ backend \in Backend
  BY DEF Settled, AInv, TypeOK, Scanning
<1>2. loop.winner = "none" /\ adc.at = "idle" /\ control = "idle"
  BY <1>1 DEF AInv, WinnerIntended, AdcLocks, ControlLocks, TypeOK
<1>3. \A i \in services : Cached(i) <=> Reported(i)
  BY <1>1, Places DEF Agreed, Cached, Reported
<1>4. \A i \in services : Up(i) <=> Reported(i)
  <2> SUFFICES ASSUME NEW i \in services
               PROVE  Up(i) <=> Reported(i)
    OBVIOUS
  <2>1. CASE Order[i] \in Polled
    BY <1>1, <2>1, BackendFields DEF Agreed, Up, Reported
  <2>2. CASE Order[i] \notin Polled
    BY <1>1, <2>2, BackendFields, Kinds, Places DEF Up, Reported
  <2>3. QED
    BY <2>1, <2>2
<1>5. \A i \in services : Up(i) => Intended(i)
  BY <1>1, <1>2, <1>3, <1>4 DEF AInv, OthersDoomed, Doomed
<1>6. \A i \in services : Up(i) => Order[i] = active
  BY <1>3, <1>4, <1>5 DEF AInv, IntendedFollowed
<1>7. QED
  BY <1>1, <1>2, <1>3, <1>4, <1>5, <1>6 DEF Agreed

(***************************************************************************)
(* An event of a settled radio that concerns one source only: a switch, a  *)
(* command or a sender that stops.                                         *)
(***************************************************************************)
LEMMA EventKept ==
  ASSUME AInv, Settled, NEW a \in services, Touched(backend, backend', Order[a]),
         UNCHANGED <<active, cached, loop, adc, keeper>>,
         Up(a)' => intent' = Order[a] /\ Order[a] = active,
         Reported(a)' /\ ~Cached(a) =>
           intent' = Order[a] \/ (intent' = "none" /\ Order[a] = active),
         \A i \in services \ {a} : Up(i) => intent' = intent,
         backend'.stream["mpd"] = backend'.desired,
         intent' = "mpd" => backend'.stream["mpd"],
         lock' \in {"free", "control"}, lock' = "control" <=> control' # "idle",
         control' = "play" => intent' = active, control' = "pause" => intent' = "none"
  PROVE  /\ keeper' = "idle" /\ OthersDoomed' /\ EdgesIntended' /\ WinnerIntended'
         /\ IntendedFollowed' /\ MpdSteady' /\ AdcLocks' /\ ControlLocks'
<1>1. /\ loop.at = "top" /\ loop.winner = "none" /\ lock = "free"
      /\ adc.at = "idle" /\ control = "idle"
      /\ \A i \in services : (Up(i) <=> Reported(i)) /\ (Cached(i) <=> Reported(i))
      /\ \A i \in services : Up(i) => Intended(i) /\ Order[i] = active
  BY SettledQuiet
<1>2. \A i \in services \ {a} : (Up(i)' <=> Up(i)) /\ (Reported(i)' <=> Reported(i))
  BY PlacesTouched DEF AInv
<1>3. \A i \in services : Cached(i)' <=> Cached(i)
  BY DEF Cached
<1>4. \A i \in services : Up(i)' => Intended(i)' /\ Order[i] = active'
  BY <1>1, <1>2 DEF Intended
<1>5. OthersDoomed' /\ IntendedFollowed'
  BY <1>4 DEF OthersDoomed, IntendedFollowed
<1>6. EdgesIntended'
  <2> SUFFICES ASSUME NEW i \in services, Reported(i)', ~Cached(i)'
               PROVE  Intended(i)' \/ (intent' = "none" /\ Order[i] = active')
    BY DEF EdgesIntended
  <2>1. i = a
    BY <1>1, <1>2, <1>3
  <2>2. QED
    BY <1>3, <2>1 DEF Intended
<1>7. WinnerIntended'
  BY <1>1 DEF WinnerIntended
<1>8. MpdSteady' /\ AdcLocks'
  BY <1>1 DEF MpdSteady, AdcLocks
<1>9. ControlLocks'
  BY <1>4 DEF ControlLocks
<1>10. QED
  BY <1>5, <1>6, <1>7, <1>8, <1>9 DEF AInv

\* The other sources of a settled radio are silent, unless the one that acts
\* is not the active one.
LEMMA OthersQuiet ==
  ASSUME AInv, Settled, NEW a \in services, Order[a] = active
  PROVE  \A i \in services \ {a} : ~Up(i) /\ ~Reported(i)
BY SettledQuiet, Places

LEMMA SwitchKept ==
  ASSUME AInv, Faults = {}, Paced, SwitchTurns
  PROVE  /\ keeper' = "idle" /\ OthersDoomed' /\ EdgesIntended' /\ WinnerIntended'
         /\ IntendedFollowed' /\ MpdSteady' /\ AdcLocks' /\ ControlLocks'
<1>1. /\ Settled /\ backend \in Backend /\ active \in Enabled
      /\ intent' = IF power' THEN active ELSE "none"
      /\ UNCHANGED <<active, cached, threadVars>>
  BY DEF SwitchTurns, Event, AInv, TypeOK
<1>2. PICK a \in services : Order[a] = active
  BY <1>1, Places
<1>3. PICK b \in IF power' THEN Plays(backend, active) ELSE Stops(backend, active) :
        backend' \in Refreshed(b, active)
  BY DEF SwitchTurns
<1>4. /\ Touched(backend, b, active)
      /\ power' /\ active = "mpd" => b.desired = TRUE /\ b.stream["mpd"] = TRUE
      /\ ~power' => ~Sounds(b, active)
      /\ ~power' /\ active = "mpd" => b.desired = FALSE /\ b.stream["mpd"] = FALSE
  BY <1>1, <1>3, PlaysTouch, StopsTouch
<1>5. b \in Backend
  BY <1>4 DEF Touched
<1>6. Touched(b, backend', active) /\ Alike(b, backend')
  BY <1>1, <1>3, <1>5, RefreshedAlike
<1>7. Touched(backend, backend', active)
  BY <1>4, <1>6 DEF Touched
<1>8. ~power' => ~Up(a)'
  BY <1>1, <1>2, <1>4, <1>5, <1>6, AlikeSounds DEF Up
<1>9. backend'.stream["mpd"] = backend'.desired /\ (intent' = "mpd" => backend'.stream["mpd"])
  <2>1. backend'.stream = b.stream /\ backend'.desired = b.desired
    BY <1>6 DEF Alike
  <2>2. active # "mpd" => b.stream["mpd"] = backend.stream["mpd"] /\ b.desired = backend.desired
    BY <1>4, Places DEF Touched
  <2>3. QED
    BY <1>1, <1>4, <2>1, <2>2 DEF AInv, MpdSteady
<1>10. lock = "free" /\ control = "idle"
  BY <1>1, SettledQuiet
<1>11. /\ Touched(backend, backend', Order[a])
       /\ UNCHANGED <<active, cached, loop, adc, keeper>>
       /\ Up(a)' => intent' = Order[a] /\ Order[a] = active
       /\ Reported(a)' /\ ~Cached(a) =>
            intent' = Order[a] \/ (intent' = "none" /\ Order[a] = active)
       /\ \A i \in services \ {a} : Up(i) => intent' = intent
       /\ lock' = "free" /\ control' = "idle"
  BY <1>1, <1>2, <1>7, <1>8, <1>10, OthersQuiet DEF threadVars
<1>12. QED
  BY <1>1, <1>9, <1>11, EventKept

LEMMA CommandKept ==
  ASSUME AInv, Faults = {}, Paced, NEW command \in {"play", "pause", "skip"}, CommandSent(command)
  PROVE  /\ keeper' = "idle" /\ OthersDoomed' /\ EdgesIntended' /\ WinnerIntended'
         /\ IntendedFollowed' /\ MpdSteady' /\ AdcLocks' /\ ControlLocks'
<1>1. /\ Settled /\ backend \in Backend /\ active \in Enabled
      /\ UNCHANGED <<power, active, cached, loop, adc, button, keeper>>
      /\ lock' = "control" /\ control' = command
      /\ backend' \in CommandEffect(backend, command)
      /\ intent' = CASE command = "play"  -> active
                     [] command = "pause" -> "none"
                     [] command = "skip"  -> IF active = "mpd" THEN "mpd" ELSE intent
  BY DEF CommandSent, Event, AInv, TypeOK
<1>2. PICK a \in services : Order[a] = active
  BY <1>1, Places
<1>3. \A i \in services \ {a} : ~Up(i) /\ ~Reported(i)
  BY <1>1, <1>2, OthersQuiet
<1>4. backend.stream["mpd"] = backend.desired /\ (active = "mpd" /\ intent = "mpd" => backend.stream["mpd"])
  BY <1>1, SettledQuiet DEF AInv, MpdSteady
<1>5. CASE command = "play"
  <2>1. intent' = active /\ backend' \in Plays(backend, active)
    BY <1>1, <1>5 DEF CommandEffect
  <2>2. /\ Touched(backend, backend', active)
        /\ active = "mpd" => backend'.desired = TRUE /\ backend'.stream["mpd"] = TRUE
    BY <1>1, <2>1, PlaysTouch
  <2>3. active # "mpd" => backend'.stream["mpd"] = backend.stream["mpd"] /\ backend'.desired = backend.desired
    BY <2>2, Places DEF Touched
  <2>4. backend'.stream["mpd"] = backend'.desired /\ (intent' = "mpd" => backend'.stream["mpd"])
    BY <1>4, <2>1, <2>2, <2>3
  <2>5. QED
    BY <1>1, <1>2, <1>3, <1>5, <2>1, <2>2, <2>4, EventKept
<1>6. CASE command = "pause"
  <2>1. intent' = "none" /\ backend' \in Stops(backend, active)
    BY <1>1, <1>6 DEF CommandEffect
  <2>2. /\ Touched(backend, backend', active) /\ ~Sounds(backend', active)
        /\ active = "mpd" => backend'.desired = FALSE /\ backend'.stream["mpd"] = FALSE
    BY <1>1, <2>1, StopsTouch
  <2>3. active # "mpd" => backend'.stream["mpd"] = backend.stream["mpd"] /\ backend'.desired = backend.desired
    BY <2>2, Places DEF Touched
  <2>4. backend'.stream["mpd"] = backend'.desired /\ ~Up(a)'
    BY <1>2, <1>4, <2>2, <2>3 DEF Up
  <2>5. QED
    BY <1>1, <1>2, <1>3, <1>6, <2>1, <2>2, <2>4, EventKept
<1>7. CASE command = "skip" /\ active = "mpd"
  <2>1. intent' = "mpd" /\ backend' \in PlaysStation(backend)
    BY <1>1, <1>7 DEF CommandEffect
  <2>2. Touched(backend, backend', active) /\ backend'.desired = TRUE /\ backend'.stream["mpd"] = TRUE
    BY <1>1, <1>7, <2>1, StationTouches
  <2>3. QED
    BY <1>1, <1>2, <1>3, <1>7, <2>1, <2>2, EventKept
<1>8. CASE command = "skip" /\ active # "mpd"
  <2>1. intent' = intent /\ backend' = backend
    BY <1>1, <1>8 DEF CommandEffect
  <2>2. Touched(backend, backend', active)
    BY <1>1, <2>1 DEF Touched
  <2>3. (Up(a)' => Up(a)) /\ (Reported(a)' => Reported(a))
    BY <2>1 DEF Up, Reported
  <2>4. (Up(a) => intent = Order[a]) /\ (Reported(a) => Cached(a))
    BY <1>1, SettledQuiet DEF Intended
  <2>5. intent = "mpd" => backend.stream["mpd"]
    BY <1>1, SettledQuiet DEF AInv, MpdSteady
  <2>6. QED
    BY <1>1, <1>2, <1>3, <1>4, <1>8, <2>1, <2>2, <2>3, <2>4, <2>5, EventKept
<1>9. QED
  BY <1>5, <1>6, <1>7, <1>8

LEMMA SenderStopKept ==
  ASSUME AInv, Faults = {}, Paced, NEW s \in Enabled, SenderStops(s)
  PROVE  /\ keeper' = "idle" /\ OthersDoomed' /\ EdgesIntended' /\ WinnerIntended'
         /\ IntendedFollowed' /\ MpdSteady' /\ AdcLocks' /\ ControlLocks'
<1>1. /\ Settled /\ backend \in Backend /\ s # "mpd" /\ backend' = Streams(backend, s, FALSE)
      /\ intent' = IF intent = s THEN "none" ELSE intent
      /\ UNCHANGED <<power, active, cached, threadVars>>
  BY DEF SenderStops, Event, AInv, TypeOK
<1>2. PICK a \in services : Order[a] = s
  BY Places
<1>3. Touched(backend, backend', s) /\ ~Up(a)'
  BY <1>1, <1>2, StreamsTouch DEF Up, Sounds
<1>4. Reported(a)' => Reported(a)
  BY <1>2, <1>3, PlacesTouched DEF AInv
<1>5. /\ lock = "free" /\ control = "idle" /\ (Reported(a) => Cached(a))
      /\ \A i \in services : Up(i) => Order[i] = intent
      /\ intent = "mpd" => backend.stream["mpd"]
      /\ backend.stream["mpd"] = backend.desired
  BY <1>1, SettledQuiet DEF Intended, AInv, MpdSteady
<1>6. backend'.stream["mpd"] = backend.stream["mpd"] /\ backend'.desired = backend.desired
  BY <1>1, <1>3, Places DEF Touched
<1>7. \A i \in services \ {a} : Up(i) => intent' = intent
  BY <1>1, <1>2, <1>5, Places
<1>8. /\ Touched(backend, backend', Order[a])
      /\ UNCHANGED <<active, cached, loop, adc, keeper>>
      /\ lock' = "free" /\ control' = "idle"
      /\ intent' = "mpd" => backend'.stream["mpd"]
      /\ backend'.stream["mpd"] = backend'.desired
  BY <1>1, <1>2, <1>3, <1>5, <1>6 DEF threadVars
<1>9. QED
  BY <1>1, <1>3, <1>4, <1>5, <1>7, <1>8, EventKept

LEMMA SenderStartKept ==
  ASSUME AInv, Faults = {}, Paced, NEW s \in Enabled, SenderStarts(s)
  PROVE  /\ keeper' = "idle" /\ OthersDoomed' /\ EdgesIntended' /\ WinnerIntended'
         /\ IntendedFollowed' /\ MpdSteady' /\ AdcLocks' /\ ControlLocks'
<1>1. /\ Settled /\ backend \in Backend /\ s # "mpd" /\ backend' = Streams(backend, s, TRUE)
      /\ intent' = s /\ ~backend.stream[s]
      /\ UNCHANGED <<power, active, cached, threadVars>>
  BY DEF SenderStarts, Event, AInv, TypeOK
<1>2. PICK a \in services : Order[a] = s
  BY Places
<1>3. /\ loop.at = "top" /\ loop.winner = "none" /\ lock = "free"
      /\ adc.at = "idle" /\ control = "idle"
      /\ \A i \in services : (Up(i) <=> Reported(i)) /\ (Cached(i) <=> Reported(i))
      /\ \A i \in services : Up(i) => Intended(i) /\ Order[i] = active
      /\ \A t \in backend.marker : backend.stream[t]
  BY <1>1, SettledQuiet
<1>4. /\ loop' = loop /\ adc' = adc /\ control' = control /\ lock' = lock /\ keeper' = keeper
      /\ cached' = cached /\ active' = active
  BY <1>1 DEF threadVars
<1>5. Touched(backend, backend', s) /\ Up(a)' /\ ~Up(a)
  <2>1. /\ Touched(backend, backend', s) /\ backend'.stream[s] = TRUE
        /\ backend'.marker = backend.marker
    BY <1>1, StreamsTouch
  <2>2. s \notin backend.marker
    BY <1>1, <1>3
  <2>3. QED
    BY <1>1, <1>2, <2>1, <2>2 DEF Up, Sounds
<1>6. \A i \in services \ {a} : (Up(i)' <=> Up(i)) /\ (Reported(i)' <=> Reported(i))
  BY <1>2, <1>5, PlacesTouched DEF AInv
<1>7. \A i \in services : (Cached(i)' <=> Cached(i)) /\ (Intended(i)' <=> i = a)
  BY <1>1, <1>2, <1>4, Places DEF Cached, Intended
<1>8. ~Cached(a)'
  BY <1>3, <1>5, <1>7
<1>9. OthersDoomed'
  <2>1. \A i \in services : Doomed(i)'
    BY <1>5, <1>7, <1>8 DEF Doomed
  <2>2. QED
    BY <1>3, <1>6, <1>7, <2>1 DEF OthersDoomed
<1>10. EdgesIntended'
  BY <1>3, <1>6, <1>7 DEF EdgesIntended
<1>11. WinnerIntended' /\ AdcLocks' /\ ControlLocks'
  BY <1>3, <1>4 DEF WinnerIntended, AdcLocks, ControlLocks
<1>12. IntendedFollowed'
  BY <1>7, <1>8 DEF IntendedFollowed
<1>13. MpdSteady'
  <2>1. backend'.stream["mpd"] = backend.stream["mpd"] /\ backend'.desired = backend.desired
    BY <1>1, <1>5, Places DEF Touched
  <2>2. QED
    BY <1>1, <2>1 DEF AInv, MpdSteady
<1>14. QED
  BY <1>4, <1>9, <1>10, <1>11, <1>12, <1>13 DEF AInv

LEMMA SelectKept ==
  ASSUME AInv, Paced, NEW p \in Presets, ButtonSelects(p)
  PROVE  /\ keeper' = "idle" /\ OthersDoomed' /\ EdgesIntended' /\ WinnerIntended'
         /\ IntendedFollowed' /\ MpdSteady' /\ AdcLocks' /\ ControlLocks'
<1>1. /\ Settled /\ lock' = "adc" /\ active' = "mpd" /\ intent' = "mpd"
      /\ adc' = [at |-> "selected", i |-> First]
      /\ UNCHANGED <<backend, power, cached, loop, control, keeper>>
  BY DEF ButtonSelects, Event
<1>2. /\ loop.at = "top" /\ loop.winner = "none" /\ control = "idle"
      /\ \A i \in services : (Up(i) <=> Reported(i)) /\ (Cached(i) <=> Reported(i))
  BY <1>1, SettledQuiet
<1>3. \A i \in services :
        (Up(i)' <=> Up(i)) /\ (Reported(i)' <=> Reported(i)) /\ (Cached(i)' <=> Cached(i))
  BY <1>1 DEF Up, Reported, Cached
<1>4. adc'.at = "selected"
  BY <1>1
<1>5. OthersDoomed'
  BY <1>2, <1>3, <1>4 DEF OthersDoomed, Doomed
<1>6. EdgesIntended'
  BY <1>2, <1>3 DEF EdgesIntended
<1>7. IntendedFollowed'
  BY <1>1 DEF IntendedFollowed, Intended
<1>8. WinnerIntended' /\ AdcLocks' /\ ControlLocks'
  BY <1>1, <1>2, <1>4 DEF WinnerIntended, AdcLocks, ControlLocks
<1>9. MpdSteady'
  BY <1>1, <1>4 DEF AInv, MpdSteady
<1>10. QED
  BY <1>1, <1>5, <1>6, <1>7, <1>8, <1>9 DEF AInv

LEMMA StationKept ==
  ASSUME AInv, Faults = {}, ButtonPlays
  PROVE  /\ keeper' = "idle" /\ OthersDoomed' /\ EdgesIntended' /\ WinnerIntended'
         /\ IntendedFollowed' /\ MpdSteady' /\ AdcLocks' /\ ControlLocks'
<1>1. /\ adc.at = "selected" /\ backend' \in PlaysStation(backend)
      /\ adc' = [at |-> "stop", i |-> First] /\ backend \in Backend
      /\ UNCHANGED <<power, active, cached, loop, button, control, lock, keeper, intent, events>>
  BY DEF ButtonPlays, NoEvent, AInv, TypeOK
<1>2. lock = "adc" /\ active = "mpd" /\ intent = "mpd" /\ control = "idle"
  BY <1>1 DEF AInv, AdcLocks, ControlLocks
<1>3. PICK m \in services : Order[m] = "mpd"
  BY Places
<1>4. Touched(backend, backend', "mpd") /\ backend'.stream["mpd"] = TRUE /\ backend'.desired = TRUE
  BY <1>1, StationTouches
<1>5. \A i \in services \ {m} : (Up(i)' <=> Up(i)) /\ (Reported(i)' <=> Reported(i))
  BY <1>3, <1>4, PlacesTouched DEF AInv
<1>6. \A i \in services : (Cached(i)' <=> Cached(i)) /\ (Intended(i) <=> i = m) /\ (Intended(i)' <=> i = m)
  BY <1>1, <1>2, <1>3, Places DEF Cached, Intended
<1>7. \A i \in services : ~ComesLater(i)
  BY <1>2, ComesLaterWhen
<1>8. adc'.at = "stop" /\ adc'.i = First
  BY <1>1
<1>9. OthersDoomed'
  <2>1. \A i \in services : Doomed(i)'
    BY <1>8, Walk, Places DEF Doomed
  <2>2. QED
    BY <1>5, <1>6, <1>7, <2>1 DEF AInv, OthersDoomed
<1>10. EdgesIntended'
  BY <1>2, <1>5, <1>6, <1>7 DEF AInv, EdgesIntended
<1>11. WinnerIntended'
  <2>1. loop.at = "raise" => Order[loop.i] = intent
    BY <1>2, ComesLaterWhen DEF AInv, WinnerIntended, Intended
  <2>2. QED
    BY <1>1, <2>1 DEF AInv, WinnerIntended, Intended
<1>12. IntendedFollowed'
  BY <1>1, <1>2 DEF IntendedFollowed, Intended
<1>13. MpdSteady' /\ AdcLocks' /\ ControlLocks'
  BY <1>1, <1>2, <1>4, <1>8 DEF MpdSteady, AdcLocks, ControlLocks
<1>14. QED
  BY <1>1, <1>9, <1>10, <1>11, <1>12, <1>13 DEF AInv

LEMMA ButtonStopKept ==
  ASSUME AInv, Faults = {}, ButtonStops
  PROVE  /\ keeper' = "idle" /\ OthersDoomed' /\ EdgesIntended' /\ WinnerIntended'
         /\ IntendedFollowed' /\ MpdSteady' /\ AdcLocks' /\ ControlLocks'
<1>0. PICK A \in services : A = adc.i
  BY DEF AInv, TypeOK
<1>1. /\ adc.at = "stop" /\ TypeOK /\ backend \in Backend
      /\ UNCHANGED <<power, active, cached, loop, button, control, keeper, intent, events>>
      /\ backend' \in StopsOther(backend, Order[A], "mpd")
      /\ IF More(A) THEN adc' = [adc EXCEPT !.i = After(@)] /\ UNCHANGED lock
         ELSE adc' = [at |-> "idle", i |-> First] /\ lock' = "free"
  BY <1>0 DEF ButtonStops, NoEvent, AInv, TypeOK
<1>2. lock = "adc" /\ active = "mpd" /\ intent = "mpd" /\ control = "idle"
  BY <1>1 DEF AInv, AdcLocks, ControlLocks
<1>3. /\ \A k \in services : k > A => adc'.at = "stop" /\ adc'.i <= k
      /\ \/ adc'.at = "stop" /\ lock' = "adc"
         \/ adc'.at = "idle" /\ lock' = "free"
  <2>1. CASE More(A)
    <3>1. adc'.at = "stop" /\ adc'.i = After(A) /\ lock' = "adc"
      BY <1>0, <1>1, <1>2, <2>1 DEF TypeOK
    <3>2. QED
      BY <2>1, <3>1, Walk
  <2>2. CASE ~More(A)
    BY <1>1, <2>2 DEF More
  <2>3. QED
    BY <2>1, <2>2
<1>4. \A i \in services : (Intended(i)' <=> Intended(i)) /\ (Cached(i)' <=> Cached(i))
  BY <1>1 DEF Intended, Cached
<1>5. \A i \in services : ~ComesLater(i)
  BY <1>2, ComesLaterWhen
<1>6. /\ Touched(backend, backend', Order[A])
      /\ Order[A] = "mpd" => backend' = backend
      /\ Order[A] # "mpd" /\ Reported(A) => ~Up(A)'
      /\ Order[A] # "mpd" /\ ~Reported(A) => Alike(backend, backend')
      /\ backend'.stream["mpd"] = backend'.desired
  BY <1>1, OthersStop, Places DEF Up, Reported, AInv, MpdSteady
<1>7. /\ \A i \in services \ {A} : (Up(i)' <=> Up(i)) /\ (Reported(i)' <=> Reported(i))
      /\ Up(A)' => Up(A)
      /\ Reported(A)' => Reported(A)
  <2>1. \A i \in services \ {A} : (Up(i)' <=> Up(i)) /\ (Reported(i)' <=> Reported(i))
    BY <1>1, <1>6, PlacesTouched
  <2>2. Up(A)' => Up(A)
    <3>1. backend' = backend => (Up(A)' <=> Up(A))
      BY DEF Up
    <3>2. Alike(backend, backend') => (Up(A)' <=> Up(A))
      BY <1>1, PlacesAlike
    <3>3. QED
      BY <1>6, <3>1, <3>2
  <2>3. QED
    BY <1>1, <1>6, <2>1, <2>2, PlacesTouched
<1>8. \A i \in services : Intended(i) => (Up(i)' <=> Up(i))
  <2>1. Order[A] = "mpd" => (Up(A)' <=> Up(A))
    BY <1>6 DEF Up
  <2>2. Intended(A) => Order[A] = "mpd"
    BY <1>2 DEF Intended
  <2>3. QED
    BY <1>7, <2>1, <2>2
<1>9. \A i \in services : Up(i)' /\ ~Intended(i) => Reported(i)' /\ Doomed(i)' /\ Cached(i)
  <2> SUFFICES ASSUME NEW i \in services, Up(i)', ~Intended(i)
               PROVE  Reported(i)' /\ Doomed(i)' /\ Cached(i)
    OBVIOUS
  <2>1. Up(i) /\ Reported(i) /\ Doomed(i) /\ Cached(i)
    BY <1>5, <1>7 DEF AInv, OthersDoomed
  <2>2. i # A
    <3>1. ASSUME i = A
          PROVE  FALSE
      <4>1. Order[A] # "mpd"
        BY <1>2, <3>1 DEF Intended
      <4>2. ~Up(A)'
        BY <1>6, <2>1, <3>1, <4>1
      <4>3. QED
        BY <3>1, <4>2
    <3>2. QED
      BY <3>1
  <2>3. Doomed(i)'
    <3>1. CASE \E k \in services : Intended(k) /\ Up(k) /\ ~Cached(k)
      BY <1>4, <1>8, <3>1 DEF Doomed
    <3>2. CASE /\ loop.winner = intent /\ intent # "none"
               /\ Scanning \/ (loop.at = "stop" /\ i >= loop.i)
      BY <1>1, <3>2 DEF Doomed, Scanning
    <3>3. CASE i >= A
      <4>1. i > A
        BY <2>2, <3>3, Places
      <4>2. adc'.at = "stop" /\ adc'.i <= i
        BY <1>3, <4>1
      <4>3. adc.i \in services
        BY <1>0
      <4>4. QED
        BY <4>1, <4>2, Places DEF Doomed
    <3>4. QED
      BY <1>0, <1>1, <2>1, <3>1, <3>2, <3>3 DEF Doomed
  <2>4. QED
    BY <1>7, <2>1, <2>2, <2>3
<1>10. OthersDoomed'
  BY <1>4, <1>9 DEF OthersDoomed
<1>11. EdgesIntended'
  <2>1. \A i \in services : Reported(i)' => Reported(i)
    BY <1>7
  <2>2. QED
    BY <1>1, <1>4, <1>5, <2>1 DEF AInv, EdgesIntended
<1>12. WinnerIntended'
  <2>1. loop.at = "raise" => Order[loop.i] = intent
    BY <1>2, ComesLaterWhen DEF AInv, WinnerIntended, Intended
  <2>2. QED
    BY <1>1, <2>1 DEF AInv, WinnerIntended, Intended
<1>13. IntendedFollowed'
  BY <1>1, <1>2 DEF IntendedFollowed, Intended
<1>14. MpdSteady'
  <2>1. Order[A] # "mpd" => backend'.stream["mpd"] = backend.stream["mpd"]
    BY <1>1, <1>6, PlacesTouched
  <2>2. backend.stream["mpd"]
    BY <1>1, <1>2 DEF AInv, MpdSteady
  <2>3. QED
    BY <1>6, <2>1, <2>2 DEF MpdSteady
<1>15. AdcLocks' /\ ControlLocks'
  BY <1>1, <1>2, <1>3 DEF AdcLocks, ControlLocks
<1>16. QED
  BY <1>1, <1>10, <1>11, <1>12, <1>13, <1>14, <1>15 DEF AInv

LEMMA RecordKept ==
  ASSUME AInv, Faults = {}, CommandRecorded
  PROVE  /\ keeper' = "idle" /\ OthersDoomed' /\ EdgesIntended' /\ WinnerIntended'
         /\ IntendedFollowed' /\ MpdSteady' /\ AdcLocks' /\ ControlLocks'
<1>1. /\ control # "idle" /\ control' = "idle" /\ lock' = "free" /\ active \in Enabled
      /\ \/ control # "skip" /\ cached' = [cached EXCEPT ![active] = (control = "play")]
         \/ control = "skip" /\ cached' = cached
      /\ backend' \in Refreshed(backend, active) /\ TypeOK /\ backend \in Backend
      /\ UNCHANGED <<power, active, loop, adc, button, keeper, intent, events>>
  BY DEF CommandRecorded, NoEvent, AInv, TypeOK
<1>2. /\ lock = "control" /\ adc.at = "idle" /\ \A i \in services : Up(i) => Intended(i)
      /\ control = "play" => intent = active
      /\ control = "pause" => intent = "none"
      /\ control \in {"play", "pause", "skip"}
  BY <1>1 DEF AInv, ControlLocks, AdcLocks, TypeOK
<1>3. PICK a \in services : Order[a] = active
  BY <1>1, Places
<1>4. /\ \A i \in services : (Up(i)' <=> Up(i)) /\ (Reported(i)' <=> Reported(i))
      /\ MpdSteady'
  BY <1>1, RefreshedAlike, PlacesAlike DEF AInv
<1>5. /\ \A i \in services : Intended(i)' <=> Intended(i)
      /\ \A i \in services \ {a} : Cached(i)' <=> Cached(i)
      /\ control = "play" => Cached(a)'
      /\ control = "skip" => (Cached(a)' <=> Cached(a))
  <2>1. \A i \in services : Intended(i)' <=> Intended(i)
    BY <1>1 DEF Intended
  <2>2. CASE control # "skip"
    <3>1. cached' = [cached EXCEPT ![active] = (control = "play")] /\ cached \in [Enabled -> BOOLEAN]
      BY <1>1, <2>2 DEF TypeOK
    <3>2. \A i \in services \ {a} : cached'[Order[i]] = cached[Order[i]]
      BY <1>3, <3>1, Places
    <3>3. control = "play" => cached'[Order[a]] = TRUE
      BY <1>1, <1>3, <3>1
    <3>4. QED
      BY <2>1, <2>2, <3>2, <3>3 DEF Cached
  <2>3. CASE control = "skip"
    BY <1>1, <2>1, <2>3 DEF Cached
  <2>4. QED
    BY <2>2, <2>3
<1>6. \A i \in services : ~ComesLater(i)
  BY <1>2, ComesLaterWhen
<1>7. OthersDoomed'
  BY <1>2, <1>4, <1>5 DEF OthersDoomed
<1>8. EdgesIntended'
  <2> SUFFICES ASSUME NEW i \in services, Reported(i)', ~Cached(i)'
               PROVE  Intended(i)' \/ (intent' = "none" /\ Order[i] = active')
    BY DEF EdgesIntended
  <2>1. CASE Cached(i) \/ ~Reported(i)
    <3>1. i = a /\ control = "pause"
      BY <1>2, <1>4, <1>5, <2>1
    <3>2. QED
      BY <1>1, <1>2, <1>3, <3>1
  <2>2. CASE ~Cached(i) /\ Reported(i)
    BY <1>1, <1>5, <1>6, <2>2 DEF AInv, EdgesIntended
  <2>3. QED
    BY <2>1, <2>2
<1>9. WinnerIntended'
  <2>1. loop.at = "raise" => Order[loop.i] = intent \/ (intent = "none" /\ Order[loop.i] = active)
    BY <1>2, ComesLaterWhen DEF AInv, WinnerIntended, Intended
  <2>2. QED
    BY <1>1, <2>1 DEF AInv, WinnerIntended, Intended
<1>10. IntendedFollowed'
  <2> SUFFICES ASSUME NEW i \in services, Intended(i)', Up(i)'
               PROVE  Order[i] = active' \/ ~Cached(i)'
    BY DEF IntendedFollowed
  <2>1. Intended(i) /\ Up(i) /\ intent = Order[i] /\ Order[i] # "none"
    BY <1>4, <1>5, Places DEF Intended
  <2>2. Order[i] = active \/ ~Cached(i)
    BY <2>1 DEF AInv, IntendedFollowed
  <2>3. QED
    BY <1>1, <1>3, <1>5, <2>2
<1>11. AdcLocks' /\ ControlLocks'
  BY <1>1, <1>2 DEF AdcLocks, ControlLocks
<1>12. QED
  BY <1>1, <1>4, <1>7, <1>8, <1>9, <1>10, <1>11 DEF AInv

LEMMA KeepKept ==
  ASSUME AInv, Faults = {}, KeeperKeeps
  PROVE  /\ keeper' = "idle" /\ OthersDoomed' /\ EdgesIntended' /\ WinnerIntended'
         /\ IntendedFollowed' /\ MpdSteady' /\ AdcLocks' /\ ControlLocks'
<1>1. /\ TypeOK /\ backend \in Backend /\ backend.stream["mpd"] = backend.desired
      /\ UNCHANGED <<power, active, cached, loop, adc, button, control, lock, keeper, intent, events>>
  BY DEF KeeperKeeps, NoEvent, threadVars, AInv, TypeOK, MpdSteady
<1>2. PICK p \in Probes(backend, "mpd") :
        backend' \in IF p.answer = backend.desired THEN {p.after}
                     ELSE IF backend.desired THEN Plays(p.after, "mpd") ELSE Stops(p.after, "mpd")
  BY DEF KeeperKeeps, Keeps
<1>3. p.answer = backend.stream["mpd"] /\ Alike(backend, p.after)
  BY <1>1, Places, ProbesAlike, BackendFields
<1>4. Alike(backend, backend')
  BY <1>1, <1>2, <1>3
<1>5. /\ \A i \in services : (Up(i)' <=> Up(i)) /\ (Reported(i)' <=> Reported(i))
      /\ MpdSteady'
  BY <1>1, <1>4, PlacesAlike DEF AInv
<1>6. \A i \in services : (Intended(i)' <=> Intended(i)) /\ (Cached(i)' <=> Cached(i))
  BY <1>1 DEF Intended, Cached
<1>7. \A i \in services : (ComesLater(i)' <=> ComesLater(i)) /\ (Doomed(i)' <=> Doomed(i))
  BY <1>1, <1>5, <1>6 DEF ComesLater, Doomed, Scanning
<1>8. OthersDoomed' /\ EdgesIntended' /\ IntendedFollowed'
  BY <1>1, <1>5, <1>6, <1>7 DEF AInv, OthersDoomed, EdgesIntended, IntendedFollowed
<1>9. WinnerIntended'
  <2>1. PICK L \in services : L = loop.i
    BY <1>1 DEF TypeOK
  <2>2. L = loop'.i
    BY <1>1, <2>1
  <2>3. loop.at = "raise" =>
          Intended(L) \/ ComesLater(L) \/ (intent = "none" /\ Order[L] = active)
    BY <2>1 DEF AInv, WinnerIntended
  <2>4. loop'.at = "raise" =>
          Intended(L)' \/ ComesLater(L)' \/ (intent' = "none" /\ Order[L] = active')
    BY <1>1, <1>6, <1>7, <2>3
  <2>5. QED
    BY <1>1, <2>2, <2>4 DEF AInv, WinnerIntended
<1>10. AdcLocks' /\ ControlLocks'
  BY <1>1, <1>5, <1>6 DEF AInv, AdcLocks, ControlLocks
<1>11. QED
  BY <1>1, <1>5, <1>8, <1>9, <1>10 DEF AInv

LEMMA PollKept ==
  ASSUME AInv, NEW s \in Polled, Poll(s)
  PROVE  /\ keeper' = "idle" /\ OthersDoomed' /\ EdgesIntended' /\ WinnerIntended'
         /\ IntendedFollowed' /\ MpdSteady' /\ AdcLocks' /\ ControlLocks'
<1>1. /\ TypeOK /\ backend \in Backend
      /\ backend' = [backend EXCEPT !.polled[s] = backend.stream[s]]
      /\ UNCHANGED <<power, active, cached, loop, adc, button, control, lock, keeper, intent, events>>
  BY DEF Poll, NoEvent, threadVars, AInv, TypeOK
<1>2. /\ backend' \in Backend /\ backend'.stream = backend.stream /\ backend'.marker = backend.marker
      /\ backend'.desired = backend.desired
      /\ \A t \in Polled : backend'.polled[t] = IF t = s THEN backend.stream[s] ELSE backend.polled[t]
  BY <1>1, Kinds DEF Backend
<1>3. \A i \in services : Up(i)' <=> Up(i)
  BY <1>2 DEF Up, Sounds
<1>4. \A i \in services : (Reported(i)' <=> Reported(i)) \/ (Reported(i)' <=> Up(i))
  <2> SUFFICES ASSUME NEW i \in services
               PROVE  (Reported(i)' <=> Reported(i)) \/ (Reported(i)' <=> Up(i))
    OBVIOUS
  <2>1. CASE Order[i] \in Polled
    <3>1. /\ Reports(backend', Order[i]) = backend'.polled[Order[i]]
          /\ Reports(backend, Order[i]) = backend.polled[Order[i]]
          /\ Sounds(backend, Order[i]) = backend.stream[Order[i]]
      BY <1>1, <1>2, <2>1, BackendFields
    <3>2. CASE Order[i] = s
      <4>1. Reports(backend', Order[i]) = Sounds(backend, Order[i])
        BY <1>2, <2>1, <3>1, <3>2
      <4>2. QED
        BY <4>1 DEF Up, Reported
    <3>3. CASE Order[i] # s
      <4>1. Reports(backend', Order[i]) = Reports(backend, Order[i])
        BY <1>2, <2>1, <3>1, <3>3
      <4>2. QED
        BY <4>1 DEF Reported
    <3>4. QED
      BY <3>2, <3>3
  <2>2. CASE Order[i] \notin Polled
    <3>1. Reports(backend, Order[i]) = Sounds(backend, Order[i])
      BY <1>1, <2>2, BackendFields, Kinds, Places
    <3>2. Reports(backend', Order[i]) = Sounds(backend', Order[i])
      BY <1>2, <2>2, BackendFields, Kinds, Places
    <3>3. QED
      BY <1>3, <3>1, <3>2 DEF Up, Reported
  <2>3. QED
    BY <2>1, <2>2
<1>5. \A i \in services : (Intended(i)' <=> Intended(i)) /\ (Cached(i)' <=> Cached(i))
  BY <1>1 DEF Intended, Cached
<1>6. \A i \in services : ComesLater(i) => ComesLater(i)'
  BY <1>1, <1>3, <1>4, <1>5 DEF ComesLater, Scanning
<1>7. \A i \in services : Doomed(i) => Doomed(i)'
  BY <1>1, <1>3, <1>5 DEF Doomed, Scanning
<1>8. OthersDoomed'
  BY <1>3, <1>4, <1>5, <1>6, <1>7 DEF AInv, OthersDoomed
<1>9. EdgesIntended'
  <2> SUFFICES ASSUME NEW i \in services, Reported(i)', ~Cached(i)'
               PROVE  Intended(i)' \/ ComesLater(i)' \/ (intent' = "none" /\ Order[i] = active')
    BY DEF EdgesIntended
  <2>1. CASE Reported(i)
    BY <1>1, <1>5, <1>6, <2>1 DEF AInv, EdgesIntended
  <2>2. CASE ~Reported(i)
    <3>1. Up(i)
      BY <1>4, <2>2
    <3>2. QED
      BY <1>5, <2>2, <3>1 DEF AInv, OthersDoomed
  <2>3. QED
    BY <2>1, <2>2
<1>10. WinnerIntended'
  <2>1. PICK L \in services : L = loop.i
    BY <1>1 DEF TypeOK
  <2>2. L = loop'.i
    BY <1>1, <2>1
  <2>3. loop.at = "raise" =>
          Intended(L) \/ ComesLater(L) \/ (intent = "none" /\ Order[L] = active)
    BY <2>1 DEF AInv, WinnerIntended
  <2>4. loop'.at = "raise" =>
          Intended(L)' \/ ComesLater(L)' \/ (intent' = "none" /\ Order[L] = active')
    BY <1>1, <1>5, <1>6, <2>3
  <2>5. QED
    BY <1>1, <2>2, <2>4 DEF AInv, WinnerIntended
<1>11. IntendedFollowed' /\ MpdSteady'
  BY <1>1, <1>2, <1>3, <1>5 DEF AInv, IntendedFollowed, MpdSteady
<1>12. AdcLocks' /\ ControlLocks'
  BY <1>1, <1>3, <1>5 DEF AInv, AdcLocks, ControlLocks
<1>13. QED
  BY <1>1, <1>8, <1>9, <1>10, <1>11, <1>12 DEF AInv

-----------------------------------------------------------------------------
(***************************************************************************)
(* At startup station 1 plays and perhaps AirPlay and USB; the first one   *)
(* in the list is the intended one.                                        *)
(***************************************************************************)
LEMMA InitArbitrated == Init => AInv
<1> SUFFICES ASSUME Init
             PROVE  AInv
  OBVIOUS
<1>1. PICK on \in SUBSET Marked, n \in services :
        /\ backend = [stream |-> [s \in Enabled |-> s \in on \/ s = "mpd"],
                      marker |-> {}, paused |-> FALSE,
                      polled |-> [s \in Polled |-> FALSE], desired |-> TRUE]
        /\ intent = Order[n]
        /\ intent \in on \union {"mpd"}
        /\ \A j \in services : j < n => Order[j] \notin on
  BY DEF Init
<1>2. /\ active = "mpd" /\ cached = [s \in Enabled |-> FALSE] /\ lock = "free"
      /\ loop.at = "top" /\ loop.winner = "none" /\ adc.at = "idle" /\ control = "idle"
      /\ keeper = "idle"
  BY DEF Init
<1>3. TypeOK /\ backend \in Backend
  BY InitTyped DEF TypeOK
<1>4. \A i \in services : (Up(i) <=> Order[i] \in on \union {"mpd"}) /\ ~Cached(i)
  BY <1>1, <1>2, Places DEF Up, Sounds, Cached
<1>5. \A i \in services : Reported(i) <=> Up(i)
  <2> SUFFICES ASSUME NEW i \in services
               PROVE  Reported(i) <=> Up(i)
    OBVIOUS
  <2>1. CASE Order[i] \in Polled
    <3>1. Reports(backend, Order[i]) = backend.polled[Order[i]]
      BY <1>3, <2>1, BackendFields
    <3>2. backend.polled[Order[i]] = FALSE
      BY <1>1, <2>1
    <3>3. Order[i] \notin on \union {"mpd"}
      BY <2>1, Kinds
    <3>4. QED
      BY <1>4, <3>1, <3>2, <3>3 DEF Reported
  <2>2. CASE Order[i] \notin Polled
    BY <1>3, <2>2, BackendFields, Kinds, Places DEF Reported, Up
  <2>3. QED
    BY <2>1, <2>2
<1>6. \A i \in services : Intended(i) <=> i = n
  BY <1>1, Places DEF Intended
<1>7. Up(n)
  BY <1>1, <1>4
<1>8. \A i \in services : Up(i) /\ i # n => n < i
  <2> SUFFICES ASSUME NEW i \in services, Up(i), i < n
               PROVE  FALSE
    BY Places
  <2>1. Order[i] = "mpd"
    BY <1>1, <1>4
  <2>2. Order[n] \in on
    BY <1>1, <2>1, Places
  <2>3. Order[n] \in {"airplay", "usb"}
    BY <2>2, Kinds
  <2>4. i = 3 /\ n \in {1, 2}
    BY <2>1, <2>3, Places DEF Order
  <2>5. QED
    BY <2>4
<1>9. \A i \in services : n < i => ComesLater(i)
  BY <1>2, <1>4, <1>5, <1>6, <1>7 DEF ComesLater
<1>10. OthersDoomed
  <2>1. \A i \in services : Doomed(i)
    BY <1>4, <1>6, <1>7 DEF Doomed
  <2>2. QED
    BY <1>5, <1>6, <1>8, <1>9, <2>1 DEF OthersDoomed
<1>11. EdgesIntended
  BY <1>5, <1>6, <1>8, <1>9 DEF EdgesIntended
<1>12. WinnerIntended /\ AdcLocks /\ ControlLocks
  BY <1>2 DEF WinnerIntended, AdcLocks, ControlLocks
<1>13. IntendedFollowed
  BY <1>4 DEF IntendedFollowed
<1>14. MpdSteady
  BY <1>1, Places DEF MpdSteady
<1>15. QED
  BY <1>2, <1>3, <1>10, <1>11, <1>12, <1>13, <1>14 DEF AInv

\* The conditions of the theorems: no backend fails, MPD's thread is not
\* overtaken, and people and senders wait until the radio has settled.
Calmly == Faults = {} /\ ~SlowKeeper /\ Paced /\ ~Repeats

LEMMA NextArbitrated ==
  ASSUME Calmly, AInv, [Next]_vars
  PROVE  AInv'
<1>1. TypeOK'
  BY NextTyped DEF AInv
<1>2. CASE UNCHANGED vars
  <2>1. UNCHANGED <<backend, power, active, cached, loop, adc, button, control, lock, keeper, intent, events>>
    BY <1>2 DEF vars, threadVars
  <2>2. \A i \in services :
          /\ Up(i)' <=> Up(i)
          /\ Reported(i)' <=> Reported(i)
          /\ Cached(i)' <=> Cached(i)
          /\ Intended(i)' <=> Intended(i)
    BY <2>1 DEF Up, Reported, Cached, Intended
  <2>3. \A i \in services : (ComesLater(i)' <=> ComesLater(i)) /\ (Doomed(i)' <=> Doomed(i))
    BY <2>1, <2>2 DEF ComesLater, Doomed, Scanning
  <2>4. OthersDoomed' /\ EdgesIntended' /\ IntendedFollowed'
    BY <2>1, <2>2, <2>3 DEF AInv, OthersDoomed, EdgesIntended, IntendedFollowed
  <2>5. WinnerIntended'
    <3>1. PICK L \in services : L = loop.i
      BY DEF AInv, TypeOK
    <3>2. L = loop'.i
      BY <2>1, <3>1
    <3>3. loop'.at = "raise" =>
            Intended(L)' \/ ComesLater(L)' \/ (intent' = "none" /\ Order[L] = active')
      BY <2>1, <2>2, <2>3, <3>1 DEF AInv, WinnerIntended
    <3>4. QED
      BY <2>1, <3>2, <3>3 DEF AInv, WinnerIntended
  <2>6. MpdSteady' /\ AdcLocks' /\ ControlLocks' /\ keeper' = "idle"
    BY <2>1, <2>2 DEF AInv, MpdSteady, AdcLocks, ControlLocks
  <2>7. QED
    BY <1>1, <2>4, <2>5, <2>6 DEF AInv
<1>3. CASE Loop
  BY <1>1, <1>3, TopKept, ChecksKept, RaisesKept, StopsKept DEF Loop, Calmly, AInv
<1>4. CASE Adc
  BY <1>1, <1>4, StationKept, ButtonStopKept DEF Adc, Calmly, AInv
<1>5. CASE CommandRecorded
  BY <1>1, <1>5, RecordKept DEF Calmly, AInv
<1>6. CASE Keeper
  <2>1. KeeperKeeps
    BY <1>6 DEF Keeper, KeeperReads, KeeperActs, Calmly, AInv
  <2>2. QED
    BY <1>1, <2>1, KeepKept DEF Calmly, AInv
<1>7. CASE \E s \in Polled : Poll(s)
  BY <1>1, <1>7, PollKept DEF AInv
<1>8. CASE SwitchTurns
  BY <1>1, <1>8, SwitchKept DEF Calmly, AInv
<1>9. CASE \E p \in Presets : ButtonSelects(p) \/ ButtonIgnored(p)
  <2>1. PICK p \in Presets : ButtonSelects(p)
    BY <1>9 DEF ButtonIgnored, Calmly
  <2>2. QED
    BY <1>1, <2>1, SelectKept DEF Calmly, AInv
<1>10. CASE \E command \in {"play", "pause", "skip"} : CommandSent(command)
  BY <1>1, <1>10, CommandKept DEF Calmly, AInv
<1>11. CASE \E s \in Enabled : SenderStarts(s) \/ SenderStops(s)
  BY <1>1, <1>11, SenderStartKept, SenderStopKept DEF Calmly, AInv
<1>12. ~MpdDrops
  BY DEF MpdDrops, Calmly
<1>13. QED
  BY <1>2, <1>3, <1>4, <1>5, <1>6, <1>7, <1>8, <1>9, <1>10, <1>11, <1>12 DEF Next

LEMMA Arbitrated ==
  ASSUME Calmly
  PROVE  Spec => []AInv
<1>1. Init => AInv
  BY InitArbitrated
<1>2. AInv /\ [Next]_vars => AInv'
  BY NextArbitrated
<1>3. QED
  BY <1>1, <1>2, PTL DEF Spec

-----------------------------------------------------------------------------
(***************************************************************************)
(* Once the radio has settled, what plays is what was started last, and it *)
(* is the active source: check_play_states, _stop_other_services, the      *)
(* handlers of the ADC thread and of the control server, and MPD's thread, *)
(* in every order.                                                         *)
(***************************************************************************)
THEOREM LastStartedIsPlayed ==
  ASSUME Calmly
  PROVE  Spec => []LastStartedPlays
<1>1. AInv => LastStartedPlays
  <2> SUFFICES ASSUME AInv, Settled, NEW s \in Playing
               PROVE  s = intent /\ s = active
    BY DEF LastStartedPlays, AInv
  <2>1. PICK i \in services : Order[i] = s
    BY Places DEF Playing
  <2>2. Up(i)
    BY <2>1, SettledQuiet DEF Playing, Reported
  <2>3. QED
    BY <2>1, <2>2, SettledQuiet DEF Intended
<1>2. QED
  BY <1>1, Arbitrated, PTL

\* Once the radio has settled at most one source plays (OneSource, which
\* follows from LastStartedPlays).
THEOREM OneSourcePlays ==
  ASSUME Calmly
  PROVE  Spec => []OneSource
<1>1. AInv /\ LastStartedPlays => OneSource
  <2> SUFFICES ASSUME AInv, LastStartedPlays, Settled
               PROVE  Cardinality(Playing) <= 1
    BY DEF OneSource
  <2>1. Playing \subseteq {intent}
    BY DEF LastStartedPlays
  <2>2. Playing = {} \/ Playing = {intent}
    BY <2>1
  <2>3. Cardinality({}) = 0 /\ Cardinality({intent}) = 1
    BY FS_EmptySet, FS_Singleton
  <2>4. CASE Playing = {}
    BY <2>3, <2>4
  <2>5. CASE Playing = {intent}
    BY <2>3, <2>5
  <2>6. QED
    BY <2>2, <2>4, <2>5
<1>2. QED
  BY <1>1, Arbitrated, LastStartedIsPlayed, PTL

\* handle_button_press, play_index: after a preset the settled radio is not silent.
THEOREM PresetIsHeard ==
  ASSUME Calmly
  PROVE  Spec => []PresetHeard
<1>1. AInv => PresetHeard
  <2> SUFFICES ASSUME AInv, Settled, intent = "mpd"
               PROVE  "mpd" \in Playing
    BY DEF PresetHeard
  <2>1. backend.stream["mpd"] /\ backend \in Backend
    BY SettledQuiet DEF AInv, MpdSteady, TypeOK
  <2>2. QED
    BY <2>1, BackendFields, Places DEF Playing
<1>2. QED
  BY <1>1, Arbitrated, PTL

(***************************************************************************)
(* MPD starts only where it is the active source: every call that may      *)
(* start it is a Play of the active source or play_index, since MPD's      *)
(* thread finds it as it should be.                                        *)
(***************************************************************************)
THEOREM MpdStaysSilent ==
  ASSUME Calmly
  PROVE  Spec => MpdStaysAway
<1>1. ASSUME AInv, Next, ~backend.stream["mpd"], backend'.stream["mpd"]
      PROVE  active' = "mpd"
  <2>1. /\ backend \in Backend /\ active \in Enabled /\ Order[loop.i] \in Enabled
        /\ Order[adc.i] \in Enabled /\ "mpd" \in Enabled /\ backend.stream["mpd"] = backend.desired
    BY <1>1, Places DEF AInv, TypeOK, MpdSteady
  <2>2. ~Alike(backend, backend') /\ backend' # backend
    BY <1>1 DEF Alike
  <2>3. \A s \in Enabled : backend' \notin Refreshed(backend, s)
    BY <1>1, <2>1, RefreshedAlike
  <2>4. CASE Loop
    <3>1. ~LoopTop
      BY <2>1, <2>2, <2>3 DEF LoopTop
    <3>2. ~LoopChecks
      <4>1. \A p \in Probes(backend, Order[loop.i]) : backend' # p.after
        BY <1>1, <2>1, ProbesAlike
      <4>2. QED
        BY <4>1 DEF LoopChecks
    <3>3. ~LoopRaises
      <4>1. LoopRaises => active' \in Enabled
        BY <2>1 DEF LoopRaises
      <4>2. QED
        BY <2>3, <4>1 DEF LoopRaises
    <3>4. ~LoopStops
      BY <1>1, <2>1, OthersStop DEF LoopStops
    <3>5. QED
      BY <2>4, <3>1, <3>2, <3>3, <3>4 DEF Loop
  <2>5. CASE Adc
    BY <1>1, <2>1, <2>5, OthersStop DEF Adc, ButtonPlays, ButtonStops, AInv, AdcLocks
  <2>6. ~CommandRecorded
    BY <2>1, <2>3 DEF CommandRecorded
  <2>7. ~Keeper
    <3>1. Keeper => KeeperKeeps
      BY <1>1 DEF Keeper, KeeperReads, KeeperActs, Calmly, AInv
    <3>2. ASSUME KeeperKeeps
          PROVE  FALSE
      <4>1. PICK p \in Probes(backend, "mpd") :
              backend' \in IF p.answer = backend.desired THEN {p.after}
                           ELSE IF backend.desired THEN Plays(p.after, "mpd")
                           ELSE Stops(p.after, "mpd")
        BY <3>2 DEF KeeperKeeps, Keeps
      <4>2. p.answer = backend.stream["mpd"] /\ Alike(backend, p.after)
        BY <2>1, ProbesAlike, BackendFields DEF Calmly
      <4>3. QED
        BY <2>1, <2>2, <4>1, <4>2
    <3>3. QED
      BY <3>1, <3>2
  <2>8. ASSUME NEW s \in Polled, Poll(s)
        PROVE  FALSE
    <3>1. backend'.stream = backend.stream
      BY <2>1, <2>8 DEF Poll, Backend
    <3>2. QED
      BY <1>1, <3>1
  <2>9. CASE SwitchTurns
    <3>1. PICK b \in IF power' THEN Plays(backend, active) ELSE Stops(backend, active) :
            backend' \in Refreshed(b, active)
      BY <2>9 DEF SwitchTurns
    <3>2. Touched(backend, b, active)
      BY <2>1, <3>1, PlaysTouch, StopsTouch
    <3>3. b \in Backend
      BY <3>2 DEF Touched
    <3>4. backend'.stream = b.stream
      BY <2>1, <3>1, <3>3, RefreshedAlike
    <3>5. active # "mpd" => b.stream["mpd"] = backend.stream["mpd"]
      BY <2>1, <3>2 DEF Touched
    <3>6. active' = active
      BY <2>9 DEF SwitchTurns
    <3>7. QED
      BY <1>1, <3>4, <3>5, <3>6
  <2>10. ~(\E p \in Presets : ButtonSelects(p) \/ ButtonIgnored(p))
    BY <2>2 DEF ButtonSelects, ButtonIgnored
  <2>11. ASSUME NEW command \in {"play", "pause", "skip"}, CommandSent(command)
         PROVE  active' = "mpd"
    <3>1. backend' \in CommandEffect(backend, command) /\ active' = active
      BY <2>11 DEF CommandSent
    <3>2. active # "mpd" => Touched(backend, backend', active)
      <4>1. ASSUME active # "mpd"
            PROVE  \/ backend' \in Plays(backend, active) \/ backend' \in Stops(backend, active)
                   \/ backend' = backend
        BY <3>1, <4>1 DEF CommandEffect
      <4>2. QED
        BY <2>1, <2>2, <4>1, PlaysTouch, StopsTouch
    <3>3. QED
      BY <1>1, <2>1, <3>1, <3>2 DEF Touched
  <2>12. ASSUME NEW s \in Enabled, SenderStarts(s) \/ SenderStops(s)
         PROVE  FALSE
    <3>1. s # "mpd" /\ \E v \in BOOLEAN : backend' = Streams(backend, s, v)
      BY <2>12 DEF SenderStarts, SenderStops
    <3>2. Touched(backend, backend', s)
      BY <2>1, <3>1, StreamsTouch
    <3>3. QED
      BY <1>1, <2>1, <3>1, <3>2 DEF Touched
  <2>13. ~MpdDrops
    BY DEF MpdDrops, Calmly
  <2>14. QED
    BY <1>1, <2>4, <2>5, <2>6, <2>7, <2>8, <2>9, <2>10, <2>11, <2>12, <2>13 DEF Next
<1>2. AInv /\ [Next]_vars =>
        [~backend.stream["mpd"] /\ backend'.stream["mpd"] => active' = "mpd"]_vars
  BY <1>1
<1>3. QED
  BY <1>2, Arbitrated, PTL DEF Spec, MpdStaysAway

=============================================================================
