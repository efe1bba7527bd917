------------------------------- MODULE Display -------------------------------
(***************************************************************************)
(* The display (lib/display/display_control.py, display_rendering.py,      *)
(* transient_state.py).  Threads of the player change what is to be shown  *)
(* under a lock and set a dirty flag; a single thread, the compositor,     *)
(* takes the flag, looks at the overlays, and composes a frame piece by    *)
(* piece, each piece from what it finds when it gets there.                *)
(*                                                                         *)
(* A frame is the record of its pieces.  Deadlines are windows that close  *)
(* at any moment.  A track stands for everything update_metadata is given  *)
(* except the cover, a cover for the content of the file at its path.      *)
(***************************************************************************)
EXTENDS Naturals

CONSTANTS
  Metadata,   \* [source, playing, title, name]; a row is "short" or "long"
  Volumes, Toasts,
  MaxCovers,  \* bound: how often the cover's file is replaced
  MaxEvents,  \* bound: calls of the other threads
  SlowFrames  \* a frame may take longer than a crossfade

\* A blank text clears a toast.
ASSUME DisplayAssumption ==
  /\ MaxCovers \in Nat /\ MaxEvents \in Nat /\ "" \in Toasts
  /\ \A t \in Metadata : t.playing \in BOOLEAN

VARIABLES
  on, light,   \* is_on, and the backlight, which follows
  dirty,
  meta,        \* [track, md5]
  file,        \* the content of the cover's file, 0 if there is none
  osd, toast,  \* [open, what]: a window and its content
  fade,        \* "none", "new", "on" once the loop has seen it, or "over"
  idle,        \* idle_timeout has passed since the last activity
  minute,      \* the clock has turned and the loop has not seen it
  layer,       \* [key, art]: the cached art
  rows,        \* [row -> [scrolling, position]]
  loop,        \* the compositor: where, and its local variables
  frame,       \* what it has composed so far
  panel,       \* what the panel shows
  events

shared == <<on, light, dirty, meta, file, osd, toast, idle, minute, events>>
screenVars == <<shared, fade, layer, rows, loop, frame, panel>>

Rows == {"title", "name"}
Blank == [kind |-> "splash"]
Closed(what) == [open |-> FALSE, what |-> what]
Nothing == [nothing |-> TRUE]
NoLayer == [key |-> <<>>, art |-> Nothing]
Art(md5, content, track) == IF md5 = 0 THEN [tile |-> track.source] ELSE [cover |-> content]

ScreenTypes ==
  /\ {on, light, dirty, idle, minute} \subseteq BOOLEAN
  /\ meta \in [track : Metadata, md5 : 0 .. MaxCovers]
  /\ file \in 0 .. MaxCovers /\ events \in 0 .. MaxEvents
  /\ osd.what \in Volumes /\ toast.what \in Toasts
  /\ fade \in {"none", "new", "on", "over"}
  /\ rows \in [Rows -> [scrolling : BOOLEAN, position : 0 .. 1]]

\* __init__: the splash is pushed, the backlight goes on, the loop starts.
ScreenInit ==
  /\ on = TRUE /\ light = TRUE /\ dirty = TRUE
  /\ meta \in [track : Metadata, md5 : {0}] /\ ~meta.track.playing
  /\ file = 0
  /\ osd \in {Closed(v) : v \in Volumes} /\ toast = Closed("")
  /\ fade = "none" /\ idle = FALSE /\ minute = TRUE
  /\ layer = NoLayer
  /\ rows = [r \in Rows |-> [scrolling |-> FALSE, position |-> 0]]
  /\ loop = [at |-> "top", dirty |-> FALSE, was |-> FALSE, osd |-> FALSE, live |-> FALSE,
             tick |-> 0, key |-> <<>>]
  /\ frame = Blank /\ panel = Blank /\ events = 0

-----------------------------------------------------------------------------
(* The other threads.                                                      *)

Event == events < MaxEvents /\ events' = events + 1
composer == <<layer, rows, loop, frame, panel>>

\* toggle_backlight under the lock, and, outside it, the duty cycle.
Toggle ==
  /\ Event /\ on = light
  /\ on' = ~on /\ dirty' = (dirty \/ ~on)
  /\ UNCHANGED <<light, meta, file, osd, toast, fade, idle, minute, composer>>

Duty ==
  /\ light # on /\ light' = on
  /\ UNCHANGED <<on, dirty, meta, file, osd, toast, fade, idle, minute, events, composer>>

ShowVolume ==
  /\ Event
  /\ \E v \in Volumes : osd' = [open |-> TRUE, what |-> v]
  /\ dirty' = TRUE
  /\ UNCHANGED <<on, light, meta, file, toast, fade, idle, minute, composer>>

\* A blank toast clears; either way somebody is there.
ShowToast ==
  /\ Event
  /\ \E t \in Toasts : toast' = [open |-> t # "", what |-> t]
  /\ dirty' = TRUE /\ idle' = FALSE
  /\ UNCHANGED <<on, light, meta, file, osd, fade, minute, composer>>

\* update_metadata: what differs makes the frame dirty, a new text starts at its
\* beginning, and playback is activity.  The caller read the cover's digest.
UpdateMetadata ==
  /\ Event
  /\ \E t \in Metadata, md5 \in {0, file} :
       /\ meta' = [track |-> t, md5 |-> md5]
       /\ rows' = [r \in Rows |-> IF t[r] = meta.track[r] THEN rows[r]
                                  ELSE [rows[r] EXCEPT !.position = 0]]
       /\ idle' = (idle /\ ~t.playing)
  /\ dirty' = (dirty \/ meta' # meta)
  /\ UNCHANGED <<on, light, file, osd, toast, fade, minute, layer, loop, frame, panel>>

\* The resolver replaces the file, always by a cover that was not there before.
CoverReplaced ==
  /\ file < MaxCovers /\ file' = file + 1
  /\ UNCHANGED <<on, light, dirty, meta, osd, toast, idle, minute, events, fade, composer>>

\* Time passes.
OsdCloses ==
  /\ osd.open /\ osd' = Closed(osd.what)
  /\ UNCHANGED <<on, light, dirty, meta, file, toast, fade, idle, minute, events, composer>>

ToastCloses ==
  /\ toast.open /\ toast' = Closed(toast.what)
  /\ UNCHANGED <<on, light, dirty, meta, file, osd, fade, idle, minute, events, composer>>

FadeCloses ==
  /\ fade = "on" \/ (fade = "new" /\ (SlowFrames \/ ~on))
  /\ fade' = "over"
  /\ UNCHANGED <<shared, composer>>

GetsIdle ==
  /\ ~idle /\ Event /\ idle' = TRUE
  /\ UNCHANGED <<on, light, dirty, meta, file, osd, toast, fade, minute, composer>>

MinuteTurns ==
  /\ ~minute /\ Event /\ minute' = TRUE
  /\ UNCHANGED <<on, light, dirty, meta, file, osd, toast, fade, idle, composer>>

-----------------------------------------------------------------------------
(* The compositor: what it looks at before it composes.                    *)

\* It sleeps while the panel is off, and marks a new minute.
Top ==
  /\ loop.at = "top" /\ on
  /\ dirty' = (dirty \/ minute) /\ minute' = FALSE
  /\ loop' = [loop EXCEPT !.at = "take"]
  /\ UNCHANGED <<on, light, meta, file, osd, toast, fade, idle, events, layer, rows, frame, panel>>

Take ==
  /\ loop.at = "take"
  /\ loop' = [loop EXCEPT !.at = "osd", !.dirty = dirty] /\ dirty' = FALSE
  /\ UNCHANGED <<on, light, meta, file, osd, toast, fade, idle, minute, events, layer, rows,
                 frame, panel>>

LookAtOsd ==
  /\ loop.at = "osd"
  /\ loop' = [loop EXCEPT !.at = "pill", !.osd = osd.open, !.live = osd.open]
  /\ UNCHANGED <<shared, fade, layer, rows, frame, panel>>

LookAtToast ==
  /\ loop.at = "pill"
  /\ loop' = [loop EXCEPT !.at = "decide", !.live = @ \/ toast.open]
  /\ UNCHANGED <<shared, fade, layer, rows, frame, panel>>

\* A row that scrolls is due at its interval.
RowDue(tick) == rows["title"].scrolling \/ (rows["name"].scrolling /\ tick = 0)

\* Mutant: only what is dirty or overlaid is drawn again.
DecideStill ==
  /\ loop.at = "decide"
  /\ LET live == loop.live \/ fade \in {"new", "on"}
         again == loop.dirty \/ (loop.was /\ ~live)
     IN  loop' = [loop EXCEPT !.at = IF again \/ live THEN "frame" ELSE "top",
                              !.dirty = FALSE, !.osd = FALSE, !.live = FALSE,
                              !.was = live, !.tick = 1 - @]
  /\ fade' = IF fade = "new" THEN "on" ELSE fade
  /\ UNCHANGED <<shared, layer, rows, frame, panel>>

\* The crossfade is looked at last.  When the last overlay has closed since the
\* round before, one more frame is due.
Decide ==
  /\ loop.at = "decide"
  /\ LET live == loop.live \/ fade \in {"new", "on"}
         again == loop.dirty \/ (loop.was /\ ~live)
         scrolls == ~loop.osd /\ RowDue(loop.tick)
     IN  loop' = [loop EXCEPT !.at = IF again \/ live \/ scrolls THEN "frame" ELSE "top",
                              !.dirty = FALSE, !.osd = FALSE, !.live = FALSE,
                              !.was = live, !.tick = 1 - @]
  /\ fade' = IF fade = "new" THEN "on" ELSE fade
  /\ UNCHANGED <<shared, layer, rows, frame, panel>>

-----------------------------------------------------------------------------
(* The frame.                                                              *)

\* _screensaver_active
Saver == ~meta.track.playing /\ ~osd.open /\ idle

Frame ==
  /\ loop.at = "frame"
  /\ IF Saver
     THEN /\ frame' = [kind |-> "saver", pill |-> ""]
          /\ loop' = [loop EXCEPT !.at = "badge"]
     ELSE /\ frame' = [kind |-> "playing", art |-> Nothing, fading |-> FALSE,
                       strip |-> <<>>, lower |-> Nothing, pill |-> ""]
          /\ loop' = [loop EXCEPT !.at = "cover", !.key = <<meta.md5, meta.track.source>>]
  /\ UNCHANGED <<shared, fade, layer, rows, panel>>

\* _render_screensaver names the last source.
Badge ==
  /\ loop.at = "badge"
  /\ frame' = [kind |-> "saver", source |-> meta.track.source, pill |-> ""]
  /\ loop' = [loop EXCEPT !.at = "toast"]
  /\ UNCHANGED <<shared, fade, layer, rows, panel>>

\* _open_cover opens the path, whatever is there by now; without a cover the
\* fallback tile is drawn for the source.  A new layer fades in.
Cover ==
  /\ loop.at = "cover"
  /\ LET key == <<loop.key[1], meta.track.source>>
         fits == key = layer.key
     IN  /\ layer' = IF fits THEN layer
                     ELSE [key |-> key, art |-> Art(key[1], file, meta.track)]
         /\ fade' = IF fits \/ layer = NoLayer THEN fade ELSE "new"
  /\ loop' = [loop EXCEPT !.at = "blend"]
  /\ UNCHANGED <<shared, rows, frame, panel>>

Blend ==
  /\ loop.at = "blend"
  /\ frame' = [frame EXCEPT !.art = layer.art, !.fading = fade \in {"new", "on"}]
  /\ fade' = IF fade = "over" THEN "none" ELSE fade
  /\ loop' = [loop EXCEPT !.at = "strip"]
  /\ UNCHANGED <<shared, layer, rows, panel>>

\* _draw_status_strip: source and play state.
Strip(track) == <<track.source, track.playing>>

DrawStrip ==
  /\ loop.at = "strip"
  /\ frame' = [frame EXCEPT !.strip = Strip(meta.track)]
  /\ loop' = [loop EXCEPT !.at = "lower"]
  /\ UNCHANGED <<shared, fade, layer, rows, panel>>

\* _advance_scroll: a text that does not fit scrolls.
Advanced(r) ==
  IF meta.track[r] = "long" THEN [scrolling |-> TRUE, position |-> 1 - rows[r].position]
  ELSE [rows[r] EXCEPT !.scrolling = FALSE]

\* The volume's level is read after the window; both rows are drawn together.
DrawLower ==
  /\ loop.at = "lower"
  /\ IF osd.open
     THEN loop' = [loop EXCEPT !.at = "level"] /\ UNCHANGED <<rows, frame>>
     ELSE /\ rows' = [r \in Rows |-> Advanced(r)]
          /\ frame' = [frame EXCEPT !.lower = [r \in Rows |-> meta.track[r]]]
          /\ loop' = [loop EXCEPT !.at = "toast"]
  /\ UNCHANGED <<shared, fade, layer, panel>>

DrawLevel ==
  /\ loop.at = "level"
  /\ frame' = [frame EXCEPT !.lower = [level |-> osd.what]]
  /\ loop' = [loop EXCEPT !.at = "toast"]
  /\ UNCHANGED <<shared, fade, layer, rows, panel>>

DrawToast ==
  /\ loop.at = "toast"
  /\ frame' = [frame EXCEPT !.pill = IF toast.open THEN toast.what ELSE ""]
  /\ loop' = [loop EXCEPT !.at = "push"]
  /\ UNCHANGED <<shared, fade, layer, rows, panel>>

\* Mutant: the flag is cleared when the frame is out.
PushClears ==
  /\ loop.at = "push"
  /\ panel' = frame /\ frame' = Blank /\ dirty' = FALSE
  /\ loop' = [loop EXCEPT !.at = "top", !.key = <<>>]
  /\ UNCHANGED <<on, light, meta, file, osd, toast, fade, idle, minute, events, layer, rows>>

\* _push_frame: an equal frame need not be sent.
Push ==
  /\ loop.at = "push"
  /\ panel' = frame /\ frame' = Blank
  /\ loop' = [loop EXCEPT !.at = "top", !.key = <<>>]
  /\ UNCHANGED <<shared, fade, layer, rows>>

-----------------------------------------------------------------------------

Compose ==
  \/ Top \/ Take \/ LookAtOsd \/ LookAtToast \/ Decide
  \/ Frame \/ Badge \/ Cover \/ Blend \/ DrawStrip \/ DrawLower \/ DrawLevel \/ DrawToast \/ Push

Others ==
  \/ Toggle \/ ShowVolume \/ ShowToast \/ UpdateMetadata \/ CoverReplaced \/ GetsIdle \/ MinuteTurns
Closes == OsdCloses \/ ToastCloses \/ FadeCloses

ScreenNext == Compose \/ Duty \/ Others \/ Closes

\* The compositor's calls return, and windows close.
ScreenFairness ==
  /\ WF_screenVars(Compose) /\ WF_screenVars(Duty)
  /\ WF_screenVars(OsdCloses) /\ WF_screenVars(ToastCloses) /\ WF_screenVars(FadeCloses)

ScreenSpec == ScreenInit /\ [][ScreenNext]_screenVars /\ ScreenFairness

-----------------------------------------------------------------------------
(* Properties.                                                             *)

\* The frame that belongs to the present state when no overlay is up.
Settled ==
  LET t == meta.track
  IN  /\ panel.kind = "playing" =>
           /\ panel.art = Art(meta.md5, meta.md5, t)
           /\ ~panel.fading /\ panel.strip = Strip(t)
           /\ panel.lower = [r \in Rows |-> t[r]]
      /\ panel.kind = "saver" => Saver /\ panel.source = t.source
      /\ panel.kind # "splash" /\ panel.pill = ""

\* The cover's file and the digest given to the display agree.
InStep == meta.md5 \in {0, file}

\* No change is lost: when the compositor finds nothing to do, the panel shows
\* the present state, whatever was changed while the last frame was composed
\* (display_control.py:268, "so the overlay clears itself").
NothingMissed ==
  /\ ScreenTypes
  /\ loop.at = "top" /\ on /\ ~dirty /\ ~minute /\ ~loop.was /\ fade # "new" /\ InStep
       => Settled

\* The panel comes to show the present state, lit exactly when it is on, and a
\* text that does not fit keeps moving.
ComesToShow ==
  /\ <>[](light = on /\ (on /\ InStep => Settled))
  /\ \A r \in Rows :
       \/ []<>(~on \/ meta.track[r] = "short" \/ panel.kind # "playing")
       \/ []<>(rows[r].position = 0) /\ []<>(rows[r].position = 1)

=============================================================================
