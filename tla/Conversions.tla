---------------------------- MODULE Conversions ----------------------------
(***************************************************************************)
(* The parts of twee that turn one sequence of events into another, each a *)
(* machine of its own and checked side by side: which picks the one that   *)
(* runs, and the variables of the others are off.  Two machines may use    *)
(* one variable for different things.                                      *)
(***************************************************************************)
EXTENDS Integers, Sequences

CONSTANTS
  Typed, ChildRows,                                           \* WrapDecoder
  CastTraces,                                                 \* CastExport
  FrameTraces, Overlay, MaxIdle, Window, TrailingCap,         \* FrameExport
  Durations, Positions, Ticks,                                \* HTMLViewer
  MaxModeTransitions, MaxSlice, MaxChanges,                   \* ModeReplay
  Gestures, Finds, MouseScreens, MaxScrollTicks, LegacyMax, MaxModes, MaxTurns,  \* MouseInput
  Cap, Chunks, MaxFed, IntMax, Rects, ViewScreens, Modes      \* PumpViews

\* A cast is made of a trace that is valid, and so in order (Validate); the
\* frames do not rely on that.  A frame that lasts no time is not emitted;
\* sizes and times that options give are not negative, and the numbers of a
\* caller are ints.
ASSUME CastAssumption ==
  /\ CastTraces \subseteq Seq([type : STRING, bytes : Seq(STRING), t : Int])
  /\ \A es \in CastTraces : \A i, j \in DOMAIN es : i <= j => es[i].t <= es[j].t
ASSUME FramesAssumption ==
  /\ FrameTraces \subseteq Seq([type : STRING, shows : STRING, t : Int])
  /\ MaxIdle \in Int /\ {Window, TrailingCap} \subseteq Nat
ASSUME ViewerAssumption ==
  /\ Durations \in Seq(Nat \ {0}) /\ Durations # <<>>
  /\ Positions \in Seq(Nat) /\ Ticks \subseteq Nat
ASSUME ViewsAssumption ==
  /\ {Cap, MaxFed, IntMax} \subseteq Nat /\ Chunks \subseteq Nat
  /\ Rects \subseteq [x : (-IntMax - 1)..IntMax, y : (-IntMax - 1)..IntMax,
                      w : (-IntMax - 1)..IntMax, h : (-IntMax - 1)..IntMax]
  /\ ViewScreens \subseteq [cols : 0..IntMax, rows : 0..IntMax, marked : SUBSET (Nat \X Nat)]

VARIABLES
  which,
  todo, fed, held, passed, pending, decoded, plain, trace, at, output,
  outputTMS, markers, records, done, events, atEvent, screen, overlay,
  replay, phase, dest, temp, spool, history, position, playing, frameIndex,
  selectedMarker, option, picture, loads, canvas, drawn, scanner, slice,
  model, previousModes, transitions, result, raw, effective, encoder, pc,
  request, encoded, wrote, outcome, found, turns, under, recent, rect, mode

Decoder == INSTANCE WrapDecoder
Cast == INSTANCE CastExport WITH Traces <- CastTraces
Frames == INSTANCE FrameExport WITH Traces <- FrameTraces
Viewer == INSTANCE HTMLViewer
Replay == INSTANCE ModeReplay
Mouse == INSTANCE MouseInput WITH Screens <- MouseScreens
Views == INSTANCE PumpViews WITH Screens <- ViewScreens

Off == "off"

-----------------------------------------------------------------------------
DecoderAlone ==
  /\ which = "decoder"
  /\ trace = Off /\ at = Off /\ output = Off /\ outputTMS = Off /\ markers = Off
  /\ records = Off /\ done = Off /\ events = Off /\ atEvent = Off /\ screen = Off
  /\ overlay = Off /\ replay = Off /\ phase = Off /\ dest = Off /\ temp = Off
  /\ spool = Off /\ history = Off /\ position = Off /\ playing = Off /\ frameIndex = Off
  /\ selectedMarker = Off /\ option = Off /\ picture = Off /\ loads = Off /\ canvas = Off
  /\ drawn = Off /\ scanner = Off /\ slice = Off /\ model = Off /\ previousModes = Off
  /\ transitions = Off /\ result = Off /\ raw = Off /\ effective = Off /\ encoder = Off
  /\ pc = Off /\ request = Off /\ encoded = Off /\ wrote = Off /\ outcome = Off
  /\ found = Off /\ turns = Off /\ under = Off /\ recent = Off /\ rect = Off /\ mode = Off

CastAlone ==
  /\ which = "cast"
  /\ todo = Off /\ fed = Off /\ held = Off /\ passed = Off /\ pending = Off
  /\ decoded = Off /\ plain = Off /\ events = Off /\ atEvent = Off /\ screen = Off
  /\ overlay = Off /\ replay = Off /\ phase = Off /\ dest = Off /\ temp = Off
  /\ spool = Off /\ history = Off /\ position = Off /\ playing = Off /\ frameIndex = Off
  /\ selectedMarker = Off /\ option = Off /\ picture = Off /\ loads = Off /\ canvas = Off
  /\ drawn = Off /\ scanner = Off /\ slice = Off /\ model = Off /\ previousModes = Off
  /\ transitions = Off /\ result = Off /\ raw = Off /\ effective = Off /\ encoder = Off
  /\ pc = Off /\ request = Off /\ encoded = Off /\ wrote = Off /\ outcome = Off
  /\ found = Off /\ turns = Off /\ under = Off /\ recent = Off /\ rect = Off /\ mode = Off

FramesAlone ==
  /\ which = "frames"
  /\ todo = Off /\ fed = Off /\ held = Off /\ passed = Off /\ pending = Off
  /\ decoded = Off /\ plain = Off /\ trace = Off /\ at = Off /\ output = Off
  /\ outputTMS = Off /\ markers = Off /\ records = Off /\ done = Off /\ position = Off
  /\ playing = Off /\ frameIndex = Off /\ selectedMarker = Off /\ option = Off
  /\ picture = Off /\ loads = Off /\ canvas = Off /\ drawn = Off /\ scanner = Off
  /\ slice = Off /\ model = Off /\ previousModes = Off /\ transitions = Off
  /\ result = Off /\ raw = Off /\ effective = Off /\ encoder = Off /\ pc = Off
  /\ request = Off /\ encoded = Off /\ wrote = Off /\ outcome = Off /\ found = Off
  /\ turns = Off /\ under = Off /\ recent = Off /\ rect = Off /\ mode = Off

ViewerAlone ==
  /\ which = "viewer"
  /\ todo = Off /\ fed = Off /\ held = Off /\ passed = Off /\ pending = Off
  /\ decoded = Off /\ plain = Off /\ trace = Off /\ at = Off /\ output = Off
  /\ outputTMS = Off /\ markers = Off /\ records = Off /\ done = Off /\ events = Off
  /\ atEvent = Off /\ screen = Off /\ overlay = Off /\ replay = Off /\ phase = Off
  /\ dest = Off /\ temp = Off /\ spool = Off /\ history = Off /\ scanner = Off
  /\ slice = Off /\ model = Off /\ previousModes = Off /\ transitions = Off
  /\ result = Off /\ raw = Off /\ effective = Off /\ encoder = Off /\ pc = Off
  /\ request = Off /\ encoded = Off /\ wrote = Off /\ outcome = Off /\ found = Off
  /\ turns = Off /\ under = Off /\ recent = Off /\ rect = Off /\ mode = Off

ReplayAlone ==
  /\ which = "modes"
  /\ todo = Off /\ fed = Off /\ held = Off /\ passed = Off /\ pending = Off
  /\ decoded = Off /\ plain = Off /\ trace = Off /\ at = Off /\ outputTMS = Off
  /\ markers = Off /\ records = Off /\ done = Off /\ events = Off /\ atEvent = Off
  /\ screen = Off /\ overlay = Off /\ replay = Off /\ phase = Off /\ dest = Off
  /\ temp = Off /\ spool = Off /\ history = Off /\ position = Off /\ playing = Off
  /\ frameIndex = Off /\ selectedMarker = Off /\ option = Off /\ picture = Off
  /\ loads = Off /\ canvas = Off /\ drawn = Off /\ raw = Off /\ effective = Off
  /\ encoder = Off /\ pc = Off /\ request = Off /\ encoded = Off /\ wrote = Off
  /\ outcome = Off /\ found = Off /\ turns = Off /\ under = Off /\ recent = Off
  /\ rect = Off /\ mode = Off

MouseAlone ==
  /\ which = "mouse"
  /\ todo = Off /\ fed = Off /\ held = Off /\ passed = Off /\ pending = Off
  /\ decoded = Off /\ plain = Off /\ trace = Off /\ at = Off /\ output = Off
  /\ outputTMS = Off /\ markers = Off /\ records = Off /\ done = Off /\ atEvent = Off
  /\ overlay = Off /\ replay = Off /\ phase = Off /\ dest = Off /\ temp = Off
  /\ spool = Off /\ history = Off /\ position = Off /\ playing = Off /\ frameIndex = Off
  /\ selectedMarker = Off /\ option = Off /\ picture = Off /\ loads = Off /\ canvas = Off
  /\ drawn = Off /\ scanner = Off /\ slice = Off /\ model = Off /\ previousModes = Off
  /\ transitions = Off /\ result = Off /\ recent = Off /\ rect = Off /\ mode = Off

ViewsAlone ==
  /\ which = "views"
  /\ todo = Off /\ held = Off /\ passed = Off /\ pending = Off /\ decoded = Off
  /\ plain = Off /\ trace = Off /\ at = Off /\ output = Off /\ outputTMS = Off
  /\ markers = Off /\ records = Off /\ done = Off /\ events = Off /\ atEvent = Off
  /\ overlay = Off /\ replay = Off /\ phase = Off /\ dest = Off /\ temp = Off
  /\ spool = Off /\ history = Off /\ position = Off /\ playing = Off /\ frameIndex = Off
  /\ selectedMarker = Off /\ option = Off /\ picture = Off /\ loads = Off /\ canvas = Off
  /\ drawn = Off /\ scanner = Off /\ slice = Off /\ model = Off /\ previousModes = Off
  /\ transitions = Off /\ result = Off /\ raw = Off /\ effective = Off /\ encoder = Off
  /\ pc = Off /\ request = Off /\ encoded = Off /\ wrote = Off /\ outcome = Off
  /\ found = Off /\ turns = Off /\ under = Off

Init ==
  \/ DecoderAlone /\ Decoder!Init
  \/ CastAlone /\ Cast!Init
  \/ FramesAlone /\ Frames!Init
  \/ ViewerAlone /\ Viewer!Init
  \/ ReplayAlone /\ Replay!Init
  \/ MouseAlone /\ Mouse!Init
  \/ ViewsAlone /\ Views!Init

DecoderStep ==
  /\ which = "decoder" /\ Decoder!Next
  /\ UNCHANGED <<which, trace, at, output, outputTMS, markers, records, done, events, atEvent,
                  screen, overlay, replay, phase, dest, temp, spool, history, position, playing,
                  frameIndex, selectedMarker, option, picture, loads, canvas, drawn, scanner,
                  slice, model, previousModes, transitions, result, raw, effective, encoder, pc,
                  request, encoded, wrote, outcome, found, turns, under, recent, rect, mode>>
CastStep ==
  /\ which = "cast" /\ Cast!Next
  /\ UNCHANGED <<which, todo, fed, held, passed, pending, decoded, plain, events, atEvent,
                  screen, overlay, replay, phase, dest, temp, spool, history, position, playing,
                  frameIndex, selectedMarker, option, picture, loads, canvas, drawn, scanner,
                  slice, model, previousModes, transitions, result, raw, effective, encoder, pc,
                  request, encoded, wrote, outcome, found, turns, under, recent, rect, mode>>
FramesStep ==
  /\ which = "frames" /\ Frames!Next
  /\ UNCHANGED <<which, todo, fed, held, passed, pending, decoded, plain, trace, at, output,
                  outputTMS, markers, records, done, position, playing, frameIndex,
                  selectedMarker, option, picture, loads, canvas, drawn, scanner, slice, model,
                  previousModes, transitions, result, raw, effective, encoder, pc, request,
                  encoded, wrote, outcome, found, turns, under, recent, rect, mode>>
ViewerStep ==
  /\ which = "viewer" /\ Viewer!Next
  /\ UNCHANGED <<which, todo, fed, held, passed, pending, decoded, plain, trace, at, output,
                  outputTMS, markers, records, done, events, atEvent, screen, overlay, replay,
                  phase, dest, temp, spool, history, scanner, slice, model, previousModes,
                  transitions, result, raw, effective, encoder, pc, request, encoded, wrote,
                  outcome, found, turns, under, recent, rect, mode>>
ReplayStep ==
  /\ which = "modes" /\ Replay!Next
  /\ UNCHANGED <<which, todo, fed, held, passed, pending, decoded, plain, trace, at, outputTMS,
                  markers, records, done, events, atEvent, screen, overlay, replay, phase, dest,
                  temp, spool, history, position, playing, frameIndex, selectedMarker, option,
                  picture, loads, canvas, drawn, raw, effective, encoder, pc, request, encoded,
                  wrote, outcome, found, turns, under, recent, rect, mode>>
MouseStep ==
  /\ which = "mouse" /\ Mouse!Next
  /\ UNCHANGED <<which, todo, fed, held, passed, pending, decoded, plain, trace, at, output,
                  outputTMS, markers, records, done, atEvent, overlay, replay, phase, dest,
                  temp, spool, history, position, playing, frameIndex, selectedMarker, option,
                  picture, loads, canvas, drawn, scanner, slice, model, previousModes,
                  transitions, result, recent, rect, mode>>
ViewsStep ==
  /\ which = "views" /\ Views!Next
  /\ UNCHANGED <<which, todo, held, passed, pending, decoded, plain, trace, at, output,
                  outputTMS, markers, records, done, events, atEvent, overlay, replay, phase,
                  dest, temp, spool, history, position, playing, frameIndex, selectedMarker,
                  option, picture, loads, canvas, drawn, scanner, slice, model, previousModes,
                  transitions, result, raw, effective, encoder, pc, request, encoded, wrote,
                  outcome, found, turns, under>>

Next ==
  \/ DecoderStep \/ CastStep \/ FramesStep \/ ViewerStep
  \/ ReplayStep \/ MouseStep \/ ViewsStep

vars == <<which, todo, fed, held, passed, pending, decoded, plain, trace, at, output, outputTMS,
            markers, records, done, events, atEvent, screen, overlay, replay, phase, dest,
            temp, spool, history, position, playing, frameIndex, selectedMarker, option,
            picture, loads, canvas, drawn, scanner, slice, model, previousModes,
            transitions, result, raw, effective, encoder, pc, request, encoded, wrote,
            outcome, found, turns, under, recent, rect, mode>>
Spec == Init /\ [][Next]_vars

-----------------------------------------------------------------------------
\* WrapDecoder: however the terminal cuts what is typed into reads, the recorder
\* of twee wrap sees the same keys, texts, pastes and commands, and the mouse
\* filter takes reports for the status row, whole, and no other byte.
TypedIsUnderstood ==
  which = "decoder" =>
    Decoder!ChunkFree /\ Decoder!FilterKeepsInput /\ Decoder!StatusRowIsHidden

\* CastExport: a cast has the text of the trace, each code point once, times
\* that never go back, and markers, resizes and input where they were.
CastIsFaithful ==
  which = "cast" => Cast!CastKeepsText /\ Cast!CastInOrder /\ Cast!MarkersInPlace

\* FrameExport: a frame is never older than a window, the frames last as long as
\* the recording, a burst of output is no burst of frames; the destination has
\* a complete artifact or what it had.
FramesAreFaithful ==
  which = "frames" =>
    Frames!FrameIsFresh /\ Frames!FramesFillTime /\ Frames!FramesAreRare /\ Frames!ExportIsWhole

\* HTMLViewer: position, frame, selected marker and list agree, and when all
\* pictures have come the canvas shows the last one drawn.
PlayerIsConsistent ==
  which = "viewer" => Viewer!ControlsAgree /\ Viewer!LastDrawnShows

\* ModeReplay: every change of modes is reported at its byte and by itself, and
\* no mode changes where no sequence ends.
ModesAreExact ==
  which = "modes" => Replay!NoChangeOutside /\ Replay!ChangesAreExact

\* MouseInput: the child gets all of a gesture that its mode reports; a gesture
\* is refused for what it is or for the modes in effect; a drag follows its
\* line; FindClick clicks what it found on the screen it was found on.
GesturesAreWhole ==
  which = "mouse" =>
    Mouse!SentIsWhole /\ Mouse!RefusedForAReason /\ Mouse!DragIsALine /\ Mouse!ClicksTheMatch

\* PumpViews: the ring has the last of the output; excluded rectangles and
\* region predicates select the same cells, those in the rectangle when its
\* corner is not negative (pump.go:602, predicate.go:130).
ViewsAgree == which = "views" => Views!RecentIsTheEnd /\ Views!RegionsAgree

=============================================================================
