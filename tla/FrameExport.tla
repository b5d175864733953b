---------------------------- MODULE FrameExport ----------------------------
(***************************************************************************)
(* twee export to frames (internal/export): replay walks the events of a   *)
(* trace on a clock with idle time cut, shows the screen at most once a    *)
(* window and gives each picture to a sink, which puts the artifact in     *)
(* place when it is complete.  A GIF or HTML sink has a temporary file     *)
(* beside the destination, an ffmpeg sink also a directory of frames.      *)
(***************************************************************************)
EXTENDS Integers, Sequences

CONSTANTS
  Traces,      \* sequences of events [t, type, shows], in the order of time
  Overlay,     \* Options.InputOverlay
  MaxIdle,     \* Options.MaxIdle
  Window,      \* the shortest time between two frames
  TrailingCap  \* the longest time the last frame is shown for

VARIABLES
  events, atEvent,
  screen,      \* what the model shows
  overlay,     \* the footer
  replay,      \* the frame to be emitted next and the frames emitted
  phase,
  dest, temp,  \* the destination and the file beside it
  spool,       \* the directory of frames
  history      \* the pairs of screen and footer there were, and since when

vars == <<events, atEvent, screen, overlay, replay, phase, dest, temp, spool, history>>

Smaller(a, b) == IF a < b THEN a ELSE b
Greater(a, b) == IF a > b THEN a ELSE b

\* adjustedTimeline.
Gap(es, i) == Greater(es[i].t - (IF i = 1 THEN 0 ELSE es[i - 1].t), 0)
Cut(es, i) == IF MaxIdle > 0 THEN Smaller(Gap(es, i), MaxIdle) ELSE Gap(es, i)
Timeline(es) ==
  LET adjusted[i \in 0 .. Len(es)] == IF i = 0 THEN 0 ELSE adjusted[i - 1] + Cut(es, i)
  IN adjusted
Adjusted(n) == Timeline(events)[n]

Key == [screen |-> screen, overlay |-> overlay]
Unset == -1     \* ~checkpointSet

Checkpoint(r, t, key) ==
  LET c == [r EXCEPT !.next = t + Window, !.dirty = FALSE]
  IN IF key = r.pending THEN c
     ELSE [c EXCEPT !.frames = IF t > r.pendingT
                               THEN Append(@, [key |-> r.pending, d |-> t - r.pendingT])
                               ELSE @,
                    !.pending = key, !.pendingT = t]

\* What is due is shown before the event, as it was before the event.
DueLate(r, t, key) == IF r.dirty /\ t >= r.next THEN Checkpoint(r, t, key) ELSE r
Due(r, t, key) == IF r.dirty /\ t >= r.next THEN Checkpoint(r, r.next, key) ELSE r

Show(r, t, key) == IF t >= r.next THEN Checkpoint(r, t, key) ELSE [r EXCEPT !.dirty = TRUE]

\* The overlay names input and resizes; mouse moves and the like are no toast.
Forces(e) == Overlay /\ e.type \in {"input", "resize"}
Screens(e) == e.type \in {"output", "resize"}

Init ==
  /\ events \in Traces /\ atEvent = 0
  /\ screen = "blank" /\ overlay = 0
  /\ replay = [pending |-> [screen |-> "blank", overlay |-> 0], pendingT |-> 0,
               next |-> Unset, dirty |-> FALSE, frames |-> <<>>]
  /\ phase = "replay" /\ dest = "old" /\ temp = "part" /\ spool \in BOOLEAN
  /\ history = <<[t |-> 0, key |-> [screen |-> "blank", overlay |-> 0]]>>

\* A sink that cannot take a frame ends the export: abort.
Emitted(r) ==
  \/ replay' = r /\ UNCHANGED <<phase, temp, spool>>
  \/ /\ Len(r.frames) > Len(replay.frames)
     /\ phase' = "failed" /\ temp' = "none" /\ spool' = FALSE
     /\ UNCHANGED replay

Event ==
  /\ phase = "replay" /\ atEvent < Len(events)
  /\ atEvent' = atEvent + 1
  /\ LET e == events[atEvent + 1]
         t == Adjusted(atEvent + 1)
         r == Due(replay, t, Key)
     IN /\ screen' = IF Screens(e) THEN e.shows ELSE screen
        /\ overlay' = IF Forces(e) THEN atEvent + 1 ELSE overlay
        /\ history' = IF Key' = Key THEN history ELSE Append(history, [t |-> t, key |-> Key'])
        /\ Emitted(IF Screens(e) \/ Forces(e) THEN Show(r, t, Key') ELSE r)
  /\ UNCHANGED <<events, dest>>

\* The last frame; a recording may end in idle time nobody waits for.
LastKept(r, end) == IF r.dirty \/ r.next = Unset THEN Checkpoint(r, end, Key) ELSE r

LastFrame ==
  /\ phase = "replay" /\ atEvent = Len(events)
  /\ LET end == Adjusted(Len(events))
         r == LastKept(replay, end)
         tail == Greater(Smaller(end - r.pendingT, TrailingCap), Window)
     IN \/ /\ replay' = [r EXCEPT !.frames = Append(@, [key |-> r.pending, d |-> tail])]
           /\ phase' = IF spool THEN "encode" ELSE "write"
           /\ UNCHANGED <<temp, spool>>
        \/ phase' = "failed" /\ temp' = "none" /\ spool' = FALSE /\ UNCHANGED replay
  /\ UNCHANGED <<events, atEvent, screen, overlay, dest, history>>

\* close writes the temporary file; an ffmpeg that fails leaves the frames for
\* debugging, and they are gone before the artifact is put in place.
Write ==
  /\ phase = "write"
  /\ \/ phase' = "commit" /\ temp' = "whole"
     \/ phase' = "failed" /\ temp' = "none"
  /\ UNCHANGED <<events, atEvent, screen, overlay, replay, dest, spool, history>>

Encoded ==
  \/ phase' = "remove" /\ temp' = "whole"
  \/ phase' \in {"failed", "encoder failed"} /\ temp' = "none"

Encode ==
  /\ phase = "encode"
  /\ Encoded
  /\ spool' = (phase' # "failed")
  /\ UNCHANGED <<events, atEvent, screen, overlay, replay, dest, history>>

\* A directory that cannot be removed is tried once more by abort.
RemoveSpool ==
  /\ phase = "remove"
  /\ \/ phase' = "commit" /\ spool' = FALSE /\ UNCHANGED temp
     \/ phase' = "failed" /\ spool' \in BOOLEAN /\ temp' = "none"
  /\ UNCHANGED <<events, atEvent, screen, overlay, replay, dest, history>>

\* preserveDestinationMode, then the rename; either may fail.
Commit ==
  /\ phase = "commit"
  /\ temp' = "none"
  /\ \/ phase' = "done" /\ dest' = temp
     \/ phase' = "failed" /\ UNCHANGED dest
  /\ UNCHANGED <<events, atEvent, screen, overlay, replay, spool, history>>

Next == Event \/ LastFrame \/ Write \/ Encode \/ RemoveSpool \/ Commit
Spec == Init /\ [][Next]_vars

-----------------------------------------------------------------------------
\* When frame n begins, and the time all frames take.
Beginnings(frames) ==
  LET begins[n \in 1 .. Len(frames) + 1] ==
        IF n = 1 THEN 0 ELSE begins[n - 1] + frames[n - 1].d
  IN begins
Begins(n) == Beginnings(replay.frames)[n]
Total == Begins(Len(replay.frames) + 1)
Replayed == phase \notin {"replay", "failed"}

\* A viewer never sees what was not there a window ago: the frame at time t
\* was on the terminal at some moment less than a window before t (or at t),
\* however the events crowd.
FrameIsFresh ==
  Replayed =>
    \A n \in DOMAIN replay.frames :
      \A t \in Begins(n) .. Begins(n) + replay.frames[n].d - 1 :
        \E i \in DOMAIN history :
          /\ history[i].key = replay.frames[n].key
          /\ history[i].t <= t
          /\ i = Len(history) \/ history[i + 1].t > t - Window

\* The frames tell the whole recording: the last is what it ended with, and
\* they last as long as it does, but for idle time at the end past the cap and
\* a last frame nobody could see.
FramesFillTime ==
  Replayed =>
    LET end == Adjusted(Len(events))
        last == replay.frames[Len(replay.frames)]
    IN /\ last.key = Key
       /\ Total <= end + Window
       /\ Total >= Smaller(end, Begins(Len(replay.frames)) + TrailingCap)

\* Between the frames a window passes: a burst of output is not a burst of
\* frames.  Only the first, and the one before the end, may be shorter.
FramesAreRare ==
  Replayed => \A n \in 2 .. Len(replay.frames) :
                n # Len(replay.frames) - 1 => replay.frames[n].d >= Window

\* An export leaves what was at its destination or a complete artifact there,
\* and nothing else but the frames a failed encoder is debugged with.
ExportIsWhole ==
  /\ dest = IF phase = "done" THEN "whole" ELSE "old"
  /\ phase \in {"done", "failed", "encoder failed"} => temp = "none"
  /\ phase = "done" => ~spool
=============================================================================
