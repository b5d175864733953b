---------------------------- MODULE HTMLViewer ----------------------------
(***************************************************************************)
(* The player in an exported HTML page (the script in                      *)
(* internal/export/html.go): frames one after another, a picture for each  *)
(* marker.  The browser decodes a picture when the script first draws it   *)
(* and says so later, in any order; painting is what the load handlers do. *)
(* One action per event handler.  Times are in milliseconds.               *)
(***************************************************************************)
EXTENDS Integers, Sequences, FiniteSetsExt

CONSTANTS
  Durations,   \* of the frames, each more than 0
  Positions,   \* of the markers, in the order of the recording and of time
  Ticks        \* what elapsed time at some speed can be

\* When each frame ends and begins, and the time of all.
Ends[n \in 0 .. Len(Durations)] == IF n = 0 THEN 0 ELSE Ends[n - 1] + Durations[n]
Total == Ends[Len(Durations)]
Starts == [i \in DOMAIN Durations |-> Ends[i - 1]]

Frame(i) == [kind |-> "frame", index |-> i]
Marker(i) == [kind |-> "marker", index |-> i]
Nothing == [kind |-> "nothing", index |-> 0]
Pictures == {Frame(i) : i \in DOMAIN Durations} \cup {Marker(i) : i \in DOMAIN Positions}

VARIABLES
  position, playing,
  frameIndex,       \* 0: none yet
  selectedMarker,   \* 0: none
  option,           \* markerSelect.value; 0: the empty option
  picture,          \* decoded, decodedMarkers: "none", "loading" or "complete"
  loads,            \* load events to come
  canvas,
  drawn             \* history: what render drew last

vars == <<position, playing, frameIndex, selectedMarker, option, picture, loads, canvas, drawn>>

\* The script's variables while a handler runs.
State == [position |-> position, playing |-> playing, frame |-> frameIndex,
          marker |-> selectedMarker, option |-> option]

\* setMarkers and close: a marker in idle time cut off is at the end.
PositionOf(i) == IF Positions[i] < Total THEN Positions[i] ELSE Total

IndexAt(t) ==
  IF t >= Total THEN Len(Durations)
  ELSE CHOOSE i \in DOMAIN Durations :
         Starts[i] <= t /\ \A j \in DOMAIN Durations : Starts[j] <= t => j <= i

\* selectedMarkerAtPosition.
At(s) == IF s.option # 0 /\ PositionOf(s.option) = s.position THEN s.option ELSE 0

SetPlaying(s, value) == [s EXCEPT !.playing = value /\ s.position < Total]

\* drawFrame, drawMarker: painted now, or when its load event comes.
Draw(p) ==
  /\ picture' = [picture EXCEPT ![p] = IF @ = "none" THEN "loading" ELSE @]
  /\ canvas' = IF picture[p] = "complete" THEN p ELSE canvas
  /\ drawn' = p
NoDraw == UNCHANGED <<picture, canvas, drawn>>

Deselect(s) == IF At(s) = 0 THEN [s EXCEPT !.option = 0, !.marker = 0] ELSE s

\* render, and what the handler does after it.
Render(s, andPlay) ==
  /\ \E d \in {Deselect([s EXCEPT !.position = IF @ > Total THEN Total ELSE @])} :
       \E next \in {IndexAt(d.position)} :
         /\ position' = d.position
         /\ playing' = IF andPlay THEN SetPlaying(d, TRUE).playing ELSE d.playing
         /\ frameIndex' = next
         /\ selectedMarker' = d.marker /\ option' = d.option
         /\ IF d.marker # 0 THEN Draw(Marker(d.marker))
            ELSE IF next # frameIndex THEN Draw(Frame(next))
            ELSE NoDraw
  /\ UNCHANGED loads

\* A seek pauses, moves, renders, and plays on.
Seek(s, t) ==
  Render([SetPlaying(s, FALSE) EXCEPT !.position = t], playing)

Init ==
  /\ position = 0 /\ playing = FALSE /\ frameIndex = 1
  /\ selectedMarker = 0 /\ option = 0
  /\ picture = [p \in Pictures |-> IF p = Frame(1) THEN "loading" ELSE "none"]
  /\ loads = Pictures /\ canvas = Nothing /\ drawn = Frame(1)

PlayButton ==
  LET s == IF ~playing /\ position >= Total THEN [State EXCEPT !.position = 0] ELSE State
  IN Render(SetPlaying(s, ~playing), FALSE)

\* requestAnimationFrame's callback.
Tick ==
  /\ playing
  /\ \E dt \in Ticks :
       LET s == [State EXCEPT !.position = @ + dt]
       IN Render(IF s.position >= Total THEN [s EXCEPT !.position = Total, !.playing = FALSE] ELSE s,
                 FALSE)

NoMarker(s) == [s EXCEPT !.marker = 0, !.option = 0]
Restart == Seek(NoMarker(State), 0)
Timeline == \E t \in 0 .. Total : Seek(NoMarker(State), t)
SeekFrame(i) ==
  LET n == Len(Durations)
  IN Seek(NoMarker(State), Starts[IF i < 1 THEN 1 ELSE IF i > n THEN n ELSE i])
PreviousFrame == SeekFrame(frameIndex - 1)
NextFrame == SeekFrame(frameIndex + 1)

SeekMarker(i) == Seek([State EXCEPT !.marker = i, !.option = i], PositionOf(i))

MarkerBefore ==
  IF At(State) # 0 THEN At(State) - 1
  ELSE LET before == {i \in DOMAIN Positions : PositionOf(i) <= position}
       IN IF before = {} THEN 0 ELSE Max(before)
MarkerAfter ==
  IF At(State) # 0 THEN (IF At(State) < Len(Positions) THEN At(State) + 1 ELSE 0)
  ELSE LET after == {i \in DOMAIN Positions : PositionOf(i) >= position}
       IN IF after = {} THEN 0 ELSE Min(after)

PreviousMarker == MarkerBefore # 0 /\ SeekMarker(MarkerBefore)
NextMarker == MarkerAfter # 0 /\ SeekMarker(MarkerAfter)
SelectMarker == \E i \in DOMAIN Positions : SeekMarker(i)

\* A picture is complete, and its load event is dispatched later.
Complete ==
  /\ \E p \in Pictures : /\ picture[p] = "loading"
                         /\ picture' = [picture EXCEPT ![p] = "complete"]
  /\ UNCHANGED <<position, playing, frameIndex, selectedMarker, option, loads, canvas, drawn>>

\* paintFrame, paintMarker: what is no longer wanted is not painted.
CurrentAlways(p) == TRUE
Current(p) == IF p.kind = "frame" THEN p.index = frameIndex ELSE p.index = selectedMarker

Load ==
  /\ \E p \in loads : /\ picture[p] = "complete"
                      /\ loads' = loads \ {p}
                      /\ canvas' = IF Current(p) THEN p ELSE canvas
  /\ UNCHANGED <<position, playing, frameIndex, selectedMarker, option, picture, drawn>>

Next ==
  \/ PlayButton \/ Tick \/ Restart \/ Timeline \/ PreviousFrame \/ NextFrame
  \/ PreviousMarker \/ NextMarker \/ SelectMarker \/ Complete \/ Load
Spec == Init /\ [][Next]_vars

-----------------------------------------------------------------------------
\* The controls agree: the frame is the one at the position, a marker that is
\* selected is where the position is and what the list shows, and nothing
\* plays at the end.
ControlsAgree ==
  /\ position \in 0 .. Total
  /\ frameIndex = IndexAt(position)
  /\ selectedMarker = option
  /\ selectedMarker # 0 => position = PositionOf(selectedMarker)
  /\ playing => position < Total

\* Once every picture asked for has come, in whatever order, the canvas shows
\* what was drawn last and never what was asked for before it.  A marker is
\* the exception: the frame it is in, asked for before and late, is painted
\* over it, and if it is no longer selected when its picture comes nothing is
\* painted for it.
LastDrawnShows ==
  (\A p \in loads : picture[p] = "none") =>
    \/ canvas = drawn
    \/ drawn.kind = "marker" /\ canvas = Frame(frameIndex)
    \/ drawn.kind = "marker" /\ selectedMarker = 0
=============================================================================
