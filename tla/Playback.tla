------------------------------ MODULE Playback ------------------------------
(***************************************************************************)
(* twee play (internal/play): the loop that replays a trace by its clock,  *)
(* the commands the user types, the frames it emits and the sink that      *)
(* draws them.  Preflight has the probe that comes before.                 *)
(*                                                                         *)
(* Wall time is counted in ticks of the clock.  Trace time is counted in   *)
(* quarters of one, so that the slowest speed is a whole number: a speed   *)
(* is four times the factor the user sees.  The model's screen is the      *)
(* sequence of the events applied to it.                                   *)
(***************************************************************************)
EXTENDS Preflight

CONSTANTS
  Shows,       \* the plays to consider: trace, options and environment
  MaxIdle,     \* --max-idle, in trace time; 0: no limit
  Second,      \* one second of trace time
  Glow,        \* ticks a mouse annotation lasts
  QueueCap     \* the commands channel (16)

Commands == {"pause", "step", "fwd", "prev", "next", "list", "restart", "status", "slower",
             "faster", "quit"}

Sizes     == [cols : Nat \ {0}, rows : Nat \ {0}]
Viewports == [cols : Nat \ {0}, rows : Nat \ {0, 1}]  \* playback needs at least 1x2

Events ==
  [type : {"output", "resize", "key", "mouse", "marker", "exit"}, t : Nat, size : Sizes,
   at : [cols : Nat, rows : Nat]]

(* A trace as tracebundle decodes it: times never go back.                  *)
IsTrace(tr) ==
  /\ tr \in Seq(Events)
  /\ \A i, j \in 1..Len(tr) : i <= j => tr[i].t <= tr[j].t

ASSUME PlaybackAssumption ==
  /\ {MaxIdle, Second, Glow} \subseteq Nat /\ QueueCap \in Nat \ {0}
  /\ \A s \in Shows :
       /\ IsTrace(s.trace) /\ s.size \in Sizes
       /\ s.viewport \in Viewports /\ s.viewports \subseteq Sizes
       /\ {s.step, s.pauseOnMarker, s.hideStatus, s.fails, s.hangup} \subseteq BOOLEAN
       /\ s.keys \subseteq Commands /\ s.typed \in Nat /\ s.clock \in Nat
       /\ IsTerminal(s.terminal) /\ s.backend \in Backends \cup {"auto"}

VARIABLES
  show,     \* the trace, the options, what the user types and may do
  cmds,     \* the commands channel
  input,    \* readCommands: "open" or "closed"
  typed,    \* keys typed so far
  loop,     \* the loop struct
  sink,     \* kittySink: lastRows, statusRow
  display,  \* the last frame drawn
  lines,    \* the rows of the terminal that hold a status line
  window,   \* the size of the terminal
  winch,    \* a SIGWINCH waits in the channel
  fit,      \* history: "fits": no size came after the one last drawn for;
            \* "changed": one did; "missed": one was not heard or not taken,
            \* or another came before the loop had drawn for it
  pc,       \* "probe", "play", "restore", "done"
  leaked    \* history: a reply of the probe was taken for a command

picture == <<sink, display, lines, fit>>
resize  == <<window, winch>>
vars == <<preflight, show, cmds, input, typed, loop, picture, resize, pc, leaked>>

trace == show.trace

(* The markers among the first n events, and all of them.                   *)
MarkersIn(tr) ==
  LET found[n \in 0..Len(tr)] ==
        IF n = 0 THEN <<>>
        ELSE IF tr[n].type = "marker" THEN Append(found[n - 1], n) ELSE found[n - 1]
  IN  found

Markers == MarkersIn(trace)[Len(trace)]

Nothing == [mouse |-> 0, age |-> 0]  \* no annotation
Unset   == -1                        \* wallPrev before the first tick

NewLoop ==
  [cursor |-> 0, screen |-> <<>>, size |-> show.size, playT |-> 0, since |-> Unset, speed |-> 4,
   paused |-> show.step, stepMode |-> show.step, markerPaused |-> FALSE, atEnd |-> FALSE,
   visible |-> ~show.hideStatus, marker |-> 0, toast |-> 0, glow |-> Nothing, fresh |-> FALSE,
   forced |-> TRUE, emitted |-> <<>>, viewport |-> show.viewport, failed |-> FALSE,
   skip |-> FALSE, ready |-> FALSE, quit |-> FALSE]

Init ==
  /\ show \in Shows /\ PreflightInit(show.terminal, show.backend)
  /\ cmds = <<>> /\ input = "open" /\ typed = 0 /\ loop = NewLoop
  /\ sink = [lastRows |-> 0, statusRow |-> 0] /\ display = <<>> /\ lines = {}
  /\ window = show.viewport /\ winch = FALSE /\ fit = "fits"
  /\ pc = "probe" /\ leaked = FALSE

-----------------------------------------------------------------------------
(* Applying events.                                                         *)

Applies(ev) == ev.type \in {"output", "resize"}

(* The screen after the first n events, and its size.                       *)
ScreensOf(tr) ==
  LET made[n \in 0..Len(tr)] ==
        IF n = 0 THEN <<>> ELSE IF Applies(tr[n]) THEN Append(made[n - 1], n) ELSE made[n - 1]
  IN  made

ScreenAt(n) == ScreensOf(trace)[n]

Last(S) == CHOOSE i \in S : \A j \in S : j <= i

SizeAt(n) ==
  LET resized == {i \in 1..n : trace[i].type = "resize"}
  IN  IF resized = {} THEN show.size
      ELSE trace[Last(resized)].size

Within(at, size) == at.cols < size.cols /\ at.rows < size.rows

(* dispatch: the model, the toast, the mouse annotation, the marker.        *)
Dispatch(l, i) ==
  LET ev == trace[i] IN
  [l EXCEPT
     !.cursor = i,
     !.screen = IF Applies(ev) THEN Append(@, i) ELSE @,
     !.size   = IF ev.type = "resize" THEN ev.size ELSE @,
     !.toast  = IF ev.type \in {"resize", "key", "mouse", "marker"} THEN i ELSE @,
     !.marker = IF ev.type = "marker" THEN @ + 1 ELSE @,
     !.fresh  = @ \/ (ev.type = "mouse" /\ Within(ev.at, l.size)),
     !.glow   = IF ev.type = "resize" THEN Nothing
                ELSE IF ev.type = "mouse" /\ Within(ev.at, l.size)
                       THEN [mouse |-> i, age |-> 0] ELSE @]

(* dispatchReady: every event whose time has come, up to a marker that      *)
(* pauses.                                                                  *)
Pauses(i) == show.pauseOnMarker /\ trace[i].type = "marker"

LastReady(l) ==
  LET stops == {i \in l.cursor..Len(trace) :
                  \/ i = Len(trace) \/ trace[i + 1].t > l.playT
                  \/ i > l.cursor /\ Pauses(i)}
  IN  CHOOSE i \in stops : \A j \in stops : i <= j

DispatchedTo(l) ==
  LET reached[i \in l.cursor..Len(trace)] ==
        IF i = l.cursor THEN l ELSE Dispatch(reached[i - 1], i)
  IN  reached

DispatchReady(l) ==
  LET last == LastReady(l)
      l2   == DispatchedTo(l)[last]
  IN  IF last > l.cursor /\ Pauses(last)
        THEN [l2 EXCEPT !.paused = TRUE, !.stepMode = FALSE, !.markerPaused = TRUE,
                        !.atEnd = FALSE, !.playT = trace[last].t, !.since = 0]
        ELSE l2

EndCheck(l) ==
  IF l.cursor = Len(trace) /\ ~l.markerPaused THEN [l EXCEPT !.atEnd = TRUE] ELSE l

-----------------------------------------------------------------------------
(* Commands.  Markers are numbered from 1; 0 is none.                       *)

NextMarker(l) ==
  LET ahead == {i \in 1..Len(Markers) : Markers[i] > l.cursor}
  IN  IF ahead = {} THEN 0 ELSE CHOOSE i \in ahead : \A j \in ahead : i <= j

PreviousMarker(l) ==
  LET behind == Cardinality({i \in 1..Len(Markers) : Markers[i] <= l.cursor})
      here   == behind > 0 /\ Markers[behind] = l.cursor
  IN  IF here /\ l.markerPaused /\ behind = l.marker THEN behind - 1 ELSE behind

(* Variant of Rebuilt: the model is not made anew.                          *)
RebuiltOver(l, n) == [l EXCEPT !.screen = @ \o ScreenAt(n), !.size = SizeAt(n), !.cursor = n]

(* A new model with the first n events applied.                             *)
Rebuilt(l, n) == [l EXCEPT !.screen = ScreenAt(n), !.size = SizeAt(n), !.cursor = n]

(* seekMarker.                                                              *)
Seek(l, m) ==
  IF m = 0 THEN l
  ELSE [Rebuilt(l, Markers[m]) EXCEPT
          !.marker = m, !.toast = Markers[m], !.glow = Nothing, !.fresh = TRUE, !.forced = TRUE,
          !.playT = trace[Markers[m]].t, !.since = 0, !.paused = TRUE, !.stepMode = FALSE,
          !.markerPaused = TRUE, !.atEnd = FALSE, !.skip = TRUE]

Pause(l) ==
  [l EXCEPT !.paused = ~@, !.stepMode = FALSE, !.markerPaused = @ /\ ~l.paused, !.since = 0]

Step(l) ==
  LET l2 == [l EXCEPT !.markerPaused = FALSE, !.paused = TRUE, !.stepMode = TRUE]
  IN  IF l.cursor = Len(trace) THEN l2
      ELSE [Dispatch(l2, l.cursor + 1) EXCEPT !.playT = trace[l.cursor + 1].t]

Forward1s(l) ==
  IF l.atEnd THEN l
  ELSE [l EXCEPT !.markerPaused = FALSE, !.playT = @ + Second, !.ready = TRUE]

Restart(l) ==
  [Rebuilt(l, 0) EXCEPT
     !.playT = 0, !.since = 0, !.paused = show.step, !.stepMode = show.step,
     !.markerPaused = FALSE, !.atEnd = FALSE, !.marker = 0, !.toast = 0, !.glow = Nothing,
     !.forced = TRUE, !.skip = TRUE]

Slower(l) == [l EXCEPT !.speed = IF @ > 1 THEN @ \div 2 ELSE 1, !.since = 0]
Faster(l) == [l EXCEPT !.speed = IF @ < 64 THEN @ * 2 ELSE 64, !.since = 0]

Obey(l, c) ==
  CASE c = "pause"   -> Pause(l)
    [] c = "step"    -> Step(l)
    [] c = "fwd"     -> Forward1s(l)
    [] c = "prev"    -> Seek(l, PreviousMarker(l))
    [] c = "next"    -> Seek(l, NextMarker(l))
    [] c = "list"    -> [l EXCEPT !.toast = -1]
    [] c = "restart" -> Restart(l)
    [] c = "status"  -> [l EXCEPT !.visible = ~@, !.forced = TRUE]
    [] c = "slower"  -> Slower(l)
    [] c = "faster"  -> Faster(l)
    [] OTHER         -> [l EXCEPT !.quit = TRUE]

(* drainCommands: all that wait, until one quits.                           *)
Drain(l, c) ==
  IF l.quit THEN l ELSE IF c = "quit" THEN Obey(l, c) ELSE EndCheck(Obey(l, c))

Drains(l) ==
  LET after[n \in 0..Len(cmds)] ==
        IF n = 0 THEN l ELSE Drain(after[n - 1], cmds[n])
  IN  after

Drained(l) == Drains([l EXCEPT !.skip = FALSE, !.ready = FALSE])[Len(cmds)]

-----------------------------------------------------------------------------
(* Frames.                                                                  *)

Mode(l) ==
  IF l.atEnd THEN "end"
  ELSE IF ~l.paused THEN "playing" ELSE IF l.stepMode THEN "step" ELSE "paused"

Status(l) == <<Mode(l), l.speed, l.cursor, l.marker>>

Rounded(a, b) == (2 * a + b) \div (2 * b)  \* math.Round of a positive quotient

(* fitFrameCells: the largest size of the frame's shape that is free.       *)
Fit(frame, free) ==
  LET wide == free.cols * frame.rows <= free.rows * frame.cols
      cols == IF wide THEN free.cols ELSE Rounded(frame.cols * free.rows, frame.rows)
      rows == IF wide THEN Rounded(frame.rows * free.cols, frame.cols) ELSE free.rows
      Within1(n, max) == IF n < 1 THEN 1 ELSE IF n > max THEN max ELSE n
  IN  [cols |-> Within1(cols, free.cols), rows |-> Within1(rows, free.rows)]

(* placementForSnapshot: the status row is kept free.                       *)
Placement(l) ==
  Fit(l.size, [cols |-> l.viewport.cols, rows |-> l.viewport.rows - (IF l.visible THEN 1 ELSE 0)])

Frame(l) == IF l.glow.mouse = 0 THEN Unset ELSE l.glow.age

(* What is compared with the last frame emitted.                            *)
Key(l) == <<l.screen, l.toast, Status(l), l.visible, Frame(l)>>

(* What a frame shows.                                                      *)
Picture(l) ==
  [screen |-> l.screen, over |-> l.atEnd, toast |-> l.toast, status |-> Status(l),
   visible |-> l.visible, glow |-> l.glow, place |-> Placement(l), rows |-> l.viewport.rows]

StaleStatusRow(l) == ~l.visible \/ sink.statusRow # l.viewport.rows

(* The sinks: kitty keeps what it drew and clears what the new frame leaves *)
(* uncovered; the others clear the screen.  A row the terminal has not got  *)
(* is its last one.                                                         *)
Row(r) == IF r > window.rows THEN window.rows ELSE r

Emit(l) ==
  LET rows    == Placement(l).rows
      below   == IF sink.lastRows > rows THEN {r \in lines : r >= Row(rows + 1)} ELSE {}
      stale   == IF sink.statusRow > 0 /\ StaleStatusRow(l) THEN {Row(sink.statusRow)} ELSE {}
      kept    == IF backend = "kitty" THEN lines \ (below \cup stale) ELSE {}
      painted == IF l.visible THEN {Row(l.viewport.rows)} ELSE {}
  IN  /\ display' = Picture(l) /\ lines' = kept \cup painted
      /\ sink' = [lastRows |-> rows,
                  statusRow |-> IF l.visible THEN l.viewport.rows
                                ELSE IF stale # {} THEN 0 ELSE sink.statusRow]
      /\ fit' = IF fit = "changed" /\ window = l.viewport THEN "fits" ELSE fit

Expired(l) == IF l.glow.age >= Glow THEN [l EXCEPT !.glow = Nothing] ELSE l

(* emitFrame: nothing when nothing changed; writing may fail.               *)
EmitFrame(l0) ==
  \E l \in {Expired(l0)} :
    LET same == ~l.forced /\ ~l.fresh /\ l.emitted = Key(l) IN
    \/ same /\ loop' = l /\ UNCHANGED picture
    \/ /\ ~same /\ Emit(l)
       /\ loop' = [l EXCEPT !.emitted = Key(l), !.fresh = FALSE, !.forced = FALSE]
    \/ /\ ~same /\ show.fails /\ loop' = [l EXCEPT !.failed = TRUE]
       /\ UNCHANGED picture

-----------------------------------------------------------------------------
(* Actions.                                                                 *)

(* The clock moved by d since the last tick.                                *)
Older(g, d) ==
  IF g.mouse = 0 THEN g ELSE [g EXCEPT !.age = IF @ + d > Glow THEN Glow ELSE @ + d]

Aged(l, d) ==
  [l EXCEPT !.since = IF @ = Unset THEN 0 ELSE IF @ + d > show.clock THEN show.clock ELSE @ + d,
            !.glow = Older(@, d)]

(* Idle time in front of the next event is cut to MaxIdle.                  *)
IdleCut(l) ==
  IF l.cursor < Len(trace) /\ MaxIdle > 0 /\ trace[l.cursor + 1].t - l.playT > MaxIdle
    THEN [l EXCEPT !.playT = trace[l.cursor + 1].t - MaxIdle] ELSE l

Advanced(l) == [IdleCut(l) EXCEPT !.playT = @ + l.since * l.speed, !.since = 0, !.ready = TRUE]

(* Variant of HangupQuits: the closed channel is only not read again.       *)
HangupIgnored == FALSE

(* A closed commands channel ends playback after this tick.                 *)
HangupQuits == input = "closed"

(* tick.                                                                    *)
Tick(d) ==
  /\ pc = "play" /\ ~loop.failed
  /\ \E l1 \in {Drained(Aged(loop, d))} :
       \/ /\ l1.quit /\ loop' = l1 /\ pc' = "restore"
          /\ UNCHANGED picture
       \/ /\ ~l1.quit
          /\ \E l2 \in {IF ~l1.skip /\ ~l1.paused /\ ~l1.atEnd THEN Advanced(l1) ELSE l1} :
               EmitFrame(EndCheck(IF l2.ready THEN DispatchReady(l2) ELSE l2))
          /\ pc' = IF loop'.failed \/ HangupQuits THEN "restore" ELSE "play"
  /\ cmds' = <<>>
  /\ UNCHANGED <<preflight, show, input, typed, resize, leaked>>

(* Variant of Viewport: the frame is not emitted again.                     *)
ViewportKept(l, size) == [l EXCEPT !.viewport = size]

(* resizeViewport.                                                          *)
Viewport(l, size) == [l EXCEPT !.viewport = size, !.forced = TRUE]

(* The user resizes the terminal.  SIGWINCH is not caught until the probe   *)
(* and all that comes before the loop are done; its channel holds one.  The *)
(* rows that are cut off are gone.                                          *)
WindowChanges ==
  /\ pc \in {"probe", "play"}
  /\ \E size \in show.viewports : window' = size /\ size # window
  /\ winch' = (pc = "play")
  /\ fit' = IF pc = "play" /\ fit = "fits" THEN "changed" ELSE "missed"
  /\ lines' = {r \in lines : r <= window'.rows}
  /\ UNCHANGED <<preflight, show, cmds, input, typed, loop, sink, display, pc, leaked>>

(* resizePlaybackViewport: the size is read after the signal.  One that is  *)
(* too small is ignored, and so is a signal whose size cannot be read.      *)
ResizeViewport ==
  /\ pc = "play" /\ winch /\ winch' = FALSE
  /\ \/ /\ window.cols >= 1 /\ window.rows >= 2
        /\ loop' = IF window = loop.viewport THEN loop ELSE Viewport(loop, window)
        /\ UNCHANGED fit
     \/ /\ window.cols < 1 \/ window.rows < 2 \/ show.fails
        /\ fit' = "missed" /\ UNCHANGED loop
  /\ UNCHANGED <<preflight, show, cmds, input, typed, sink, display, lines, window, pc, leaked>>

(* The user types, or stdin ends.                                           *)
TypeKey(c) ==
  /\ pc \in {"probe", "play"} /\ typed < show.typed /\ typed' = typed + 1
  /\ tty' = Append(tty, c)
  /\ UNCHANGED <<terminal, requested, owed, replies, backend, show, cmds, input, loop,
                 picture, resize, pc, leaked>>

(* readCommands: a byte at a time.  A reply that comes now is read as keys: *)
(* the report holds a ], primary DA a [.                                    *)
KeysOf(item) ==
  CASE item \in Commands -> <<item>>
    [] item = "caps" -> <<"next">> [] item = "da" -> <<"prev">> [] OTHER -> <<>>

ReadCommand ==
  /\ pc = "play" /\ input = "open" /\ tty # <<>> /\ Len(cmds) < QueueCap
  /\ cmds' = cmds \o KeysOf(Head(tty)) /\ tty' = Tail(tty)
  /\ input' = IF Head(tty) = "quit" THEN "closed" ELSE "open"
  /\ leaked' = (leaked \/ (Head(tty) \notin Commands /\ KeysOf(Head(tty)) # <<>>))
  /\ UNCHANGED <<terminal, requested, owed, replies, backend, show, typed, loop, picture,
                 resize, pc>>

InputEnds ==
  /\ pc = "play" /\ input = "open" /\ show.hangup /\ input' = "closed"
  /\ UNCHANGED <<preflight, show, cmds, typed, loop, picture, resize, pc, leaked>>

Probe ==
  /\ pc = "probe" /\ PreflightNext
  /\ pc' = CASE backend' = "probing" -> "probe" [] backend' = "none" -> "done" [] OTHER -> "play"
  /\ UNCHANGED <<show, cmds, input, typed, loop, picture, resize, leaked>>

Refuse ==
  /\ pc = "probe" /\ backend = "none" /\ pc' = "done"
  /\ UNCHANGED <<preflight, show, cmds, input, typed, loop, picture, resize, leaked>>

LateAnswer ==
  /\ pc = "play" /\ Answer
  /\ UNCHANGED <<show, cmds, input, typed, loop, picture, resize, pc, leaked>>

(* The alternate screen is left, with all that was drawn on it.             *)
Restore ==
  /\ pc = "restore" /\ pc' = "done" /\ display' = <<>> /\ lines' = {}
  /\ UNCHANGED <<preflight, show, cmds, input, typed, loop, sink, fit, resize, leaked>>

Over == pc = "done" /\ UNCHANGED vars

Next ==
  \/ Probe \/ Refuse \/ LateAnswer \/ \E d \in 0..show.clock : Tick(d)
  \/ WindowChanges \/ ResizeViewport \/ \E c \in show.keys : TypeKey(c)
  \/ ReadCommand \/ InputEnds \/ Restore \/ Over

(* The ticker ticks and its clock moves; the terminal answers what it can;  *)
(* the reader reads.                                                        *)
Fairness ==
  /\ WF_vars(Probe) /\ WF_vars(Refuse) /\ WF_vars(LateAnswer) /\ WF_vars(ReadCommand)
  /\ WF_vars(Tick(1)) /\ WF_vars(Restore)

Spec == Init /\ [][Next]_vars /\ Fairness

-----------------------------------------------------------------------------
(* Properties.                                                              *)

TypeOK ==
  /\ terminal = show.terminal /\ replies \subseteq {"kitty", "caps", "da"} \cup Commands
  /\ backend \in Backends \cup {"probing", "none"} /\ Len(cmds) <= QueueCap
  /\ loop.cursor \in 0..Len(trace) /\ loop.marker \in 0..Len(Markers) /\ loop.playT \in Nat
  /\ loop.speed \in 1..64 /\ lines \subseteq Nat \ {0}
  /\ window \in Sizes /\ winch \in BOOLEAN /\ fit \in {"fits", "changed", "missed"}
  /\ pc \in {"probe", "play", "restore", "done"}

(* However the user moves through the trace, the screen is the one the      *)
(* first cursor events make, at the size they left it, and the marker shown *)
(* in the status is the last of them.                                       *)
ScreenIsReplay ==
  /\ loop.screen = ScreenAt(loop.cursor) /\ loop.size = SizeAt(loop.cursor)
  /\ loop.marker = Cardinality({i \in 1..loop.cursor : trace[i].type = "marker"})

(* The position agrees with the clock: nothing is shown before its time,    *)
(* and what is due has been shown unless playback is paused.  The end is    *)
(* only shown at the end, and only a marker reached holds it back.          *)
PositionMatchesClock ==
  (pc = "play" /\ ~loop.failed) =>
    /\ \A i \in 1..loop.cursor : trace[i].t <= loop.playT
    /\ ~loop.paused => \A i \in (loop.cursor + 1)..Len(trace) :
         trace[i].t > loop.playT \/ loop.since = Unset \/ loop.skip
    /\ loop.atEnd => loop.cursor = Len(trace) /\ ~loop.markerPaused
    /\ loop.markerPaused => loop.paused /\ loop.cursor > 0

(* However the user moves through the trace, what is on the screen and what *)
(* the clock says are those of one position (play/loop.go:200-215, 353).    *)
PlaybackIsReplay == TypeOK /\ ScreenIsReplay /\ PositionMatchesClock

(* A frame is left out only when it would look like the last one: between   *)
(* ticks the last frame drawn has the loop's screen, toast, status and      *)
(* pointer, placed for the size the loop knows, with the status row free.   *)
DisplayIsCurrent ==
  (pc = "play" /\ ~loop.failed /\ ~loop.forced) =>
    /\ display = Picture(loop)
    /\ display.place.cols \in 1..loop.viewport.cols
    /\ display.place.rows \in 1..(loop.viewport.rows - (IF loop.visible THEN 1 ELSE 0))

(* The size the loop knows is the terminal's or it is about to hear of it,  *)
(* as long as every change is heard, taken and drawn before the next.  Then *)
(* there is one status row, at the bottom of the terminal, when it is       *)
(* shown, and none when hidden.                                             *)
SizeIsFollowed ==
  pc = "play" =>
    /\ fit # "missed" => loop.viewport = window \/ winch
    /\ (fit = "fits" /\ ~loop.failed /\ ~loop.forced) =>
         /\ loop.viewport = window
         /\ lines = IF loop.visible THEN {window.rows} ELSE {}

(* A terminal that answers primary DA in time leaves no answer to be read   *)
(* as a command, and the backend chosen is one the terminal is known for.   *)
ProbeLeavesNothing ==
  /\ ~terminal.slow => ~leaked
  /\ backend \in Backends => backend \in terminal.draws \cup terminal.named

(* The terminal shows just that, and answers to the probe are not on it or  *)
(* in the user's input (play/loop.go:405, kitty.go:62, preflight.go:272).   *)
TerminalIsCurrent == DisplayIsCurrent /\ SizeIsFollowed /\ ProbeLeavesNothing

(* Not so in the code: the loop knows the size of the terminal or is about  *)
(* to hear of it.  A resize before SIGWINCH is caught (play.go:96, 164) is  *)
(* never heard of: playback draws for the old size until the next one.      *)
SizeIsKnown == pc = "play" => loop.viewport = window \/ winch

(* The replies of the probe never become commands.  preflight.go: "Consume  *)
(* through that ordered fence so its reply cannot leak into interactive     *)
(* input".                                                                  *)
RepliesNeverCommands == ~leaked

(* Left alone, playback reaches the end of the trace or a marker it pauses  *)
(* at.                                                                      *)
PlaybackEnds ==
  (pc = "play" /\ typed = show.typed /\ tty = <<>> /\ owed = <<>> /\ cmds = <<>>)
    ~> (pc = "done" \/ loop.atEnd \/ loop.paused)

(* When the user quits or stdin ends, twee play returns.                    *)
QuitReturns == (input = "closed" \/ loop.failed) ~> pc = "done"

(* Playback goes on and ends: no command, write or hangup leaves it hanging *)
(* (play/loop.go:203).                                                      *)
PlaybackReturns == PlaybackEnds /\ QuitReturns
=============================================================================
