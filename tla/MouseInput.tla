---------------------------- MODULE MouseInput ----------------------------
(***************************************************************************)
(* Mouse gestures (internal/input/mouse.go, engine/mouse_input.go,         *)
(* engine/find.go and the mouse half of vt/ghostty.go).  A gesture is      *)
(* expanded into events, the events are encoded all at once under the pump *)
(* lock in the mode the child has the terminal in at that moment, and the  *)
(* reports are written without it.  inputMu is held throughout; the child  *)
(* goes on drawing and changing modes.                                     *)
(*                                                                         *)
(* libghostty does the encoding: an external part, modelled by what        *)
(* vt/ghostty.go says and asks of it.                                      *)
(***************************************************************************)
EXTENDS Integers, Sequences, FiniteSets, SequencesExt

CONSTANTS
  Gestures,        \* what callers ask for
  Finds,           \* [pattern, selection] of a FindClick
  Screens,         \* what the child may draw: [cols, rows, lines]
  MaxScrollTicks,
  LegacyMax,       \* the last column and row a report without a format has
  MaxModes,        \* bound: mouse modes set at once
  MaxTurns         \* bound: what the child does during one gesture

VARIABLES
  raw,             \* the mouse modes that are set
  effective,       \* the tracking mode and the report format in effect in libghostty
  screen,
  encoder,         \* g.mouseEncoder: the last cell and anyButtonPressed
  pc,              \* of the holder of inputMu
  request, events, \* the gesture and what it expands to
  encoded,         \* the reports to be written
  wrote,           \* what the child got of them
  outcome,
  found,           \* FindClickResult
  turns,           \* what the child did during the gesture
  under            \* history: mode, bits and screen the reports are for

vars == <<raw, effective, screen, encoder, pc, request, events, encoded, wrote, outcome, found, turns, under>>

Trackings == {"x10", "normal", "button", "any"}
Formats == {"utf8", "sgr", "pixels"}
Regular == {"left", "middle", "right"}
Kinds == {"click", "hover", "scroll", "drag"}

Abs(n) == IF n < 0 THEN -n ELSE n

-----------------------------------------------------------------------------
\* input.MouseGesture.
Origin == <<0, 0>>
Gesture == [kind |-> "click", point |-> Origin, from |-> Origin, to |-> Origin,
            button |-> "none", modifiers |-> <<>>, direction |-> "none", ticks |-> 0]

MouseEvent(g, action, button, at) ==
  [gesture |-> g.kind, action |-> action, button |-> button,
   modifiers |-> ToSet(g.modifiers), at |-> at]

\* NormalizeMouseModifiers.
ModifiersValid(g) ==
  /\ ToSet(g.modifiers) \subseteq {"shift", "alt", "ctrl"}
  /\ Cardinality(ToSet(g.modifiers)) = Len(g.modifiers)

\* validateOnly: options of another gesture.
OnlyItsOptions(g) ==
  CASE g.kind \in {"click", "hover"} ->
         g.from = Origin /\ g.to = Origin /\ g.direction = "none" /\ g.ticks = 0
    [] g.kind = "scroll" -> g.from = Origin /\ g.to = Origin
    [] g.kind = "drag" -> g.point = Origin /\ g.direction = "none" /\ g.ticks = 0

ButtonValid(g) ==
  IF g.kind \in {"click", "drag"} THEN g.button \in Regular \cup {"none"} ELSE g.button = "none"
TicksValid(g) ==
  g.kind = "scroll" => g.ticks \in 1 .. MaxScrollTicks /\ g.direction \in {"up", "down"}

Valid(g) ==
  g.kind \in Kinds /\ ModifiersValid(g) /\ OnlyItsOptions(g) /\ ButtonValid(g) /\ TicksValid(g)

\* bresenham: every cell of the line, with both ends.
Bresenham(from, to) ==
  LET dx == Abs(to[1] - from[1])
      dy == -Abs(to[2] - from[2])
      sx == IF from[1] < to[1] THEN 1 ELSE -1
      sy == IF from[2] < to[2] THEN 1 ELSE -1
      points[n \in 0 .. dx - dy] ==
        IF n = 0 THEN [line |-> <<from>>, err |-> dx + dy]
        ELSE LET p == points[n - 1]
                 at == Last(p.line)
                 twice == 2 * p.err
                 moveX == twice >= dy
                 moveY == twice <= dx
             IN IF at = to THEN p
                ELSE [line |-> Append(p.line, <<at[1] + (IF moveX THEN sx ELSE 0),
                                                at[2] + (IF moveY THEN sy ELSE 0)>>),
                      err |-> p.err + (IF moveX THEN dy ELSE 0) + (IF moveY THEN dx ELSE 0)]
  IN points[dx - dy].line

Button(g) == IF g.button = "none" THEN "left" ELSE g.button

\* clickEvents; a drag to where it began is a click.
Click(g, at) ==
  LET c == [g EXCEPT !.kind = "click"]
  IN <<MouseEvent(c, "press", Button(g), at), MouseEvent(c, "release", Button(g), at)>>

Expand(g) ==
  CASE g.kind = "click" -> Click(g, g.point)
    [] g.kind = "hover" -> <<MouseEvent(g, "motion", "none", g.point)>>
    [] g.kind = "scroll" ->
         [i \in 1 .. g.ticks |->
            MouseEvent(g, "press", IF g.direction = "up" THEN "wheel-up" ELSE "wheel-down", g.point)]
    [] g.kind = "drag" /\ g.from = g.to -> Click(g, g.from)
    [] OTHER ->
         LET moves == Tail(Bresenham(g.from, g.to))
         IN <<MouseEvent(g, "press", Button(g), g.from)>>
            \o [i \in DOMAIN moves |-> MouseEvent(g, "motion", Button(g), moves[i])]
            \o <<MouseEvent(g, "release", Button(g), g.to)>>

-----------------------------------------------------------------------------
\* libghostty's encoder.
Reports(tracking, action, button, pressed) ==
  CASE tracking = "none" -> FALSE
    [] tracking = "x10" -> action = "press" /\ button \in Regular
    [] tracking = "normal" -> action # "motion"
    [] tracking = "button" -> action # "motion" \/ (button # "none" /\ pressed)
    [] tracking = "any" -> TRUE

FreshEncoder == [last |-> <<>>, pressed |-> FALSE]

\* probeMouseTracking: what the mode in effect lets through.
ProbeHasty(tracking) ==
  IF ~Reports(tracking, "press", "left", FALSE) THEN "none"
  ELSE IF Reports(tracking, "motion", "left", TRUE) THEN "button"
  ELSE IF Reports(tracking, "motion", "none", FALSE) THEN "any"
  ELSE IF Reports(tracking, "release", "left", FALSE) THEN "normal"
  ELSE "x10"
Probe(tracking) ==
  IF ~Reports(tracking, "press", "left", FALSE) THEN "none"
  ELSE IF Reports(tracking, "motion", "none", FALSE) THEN "any"
  ELSE IF Reports(tracking, "motion", "left", TRUE) THEN "button"
  ELSE IF Reports(tracking, "release", "left", FALSE) THEN "normal"
  ELSE "x10"

Inside(p, s) == p[1] >= 0 /\ p[2] >= 0 /\ p[1] < s.cols /\ p[2] < s.rows

SameState(a, b) == a.button = b.button /\ a.modifiers = b.modifiers

\* validateMouseBatch.
BatchValid(es) ==
  LET first == es[1]
      last == Last(es)
      middle == SubSeq(es, 2, Len(es) - 1)
  IN /\ \A i \in DOMAIN es : es[i].gesture = first.gesture
     /\ CASE first.gesture = "click" ->
               /\ Len(es) = 2 /\ first.action = "press" /\ last.action = "release"
               /\ first.button \in Regular /\ SameState(first, last) /\ first.at = last.at
          [] first.gesture = "hover" ->
               Len(es) = 1 /\ first.action = "motion" /\ first.button = "none"
          [] first.gesture = "scroll" ->
               /\ Len(es) <= MaxScrollTicks /\ first.button \in {"wheel-up", "wheel-down"}
               /\ \A i \in DOMAIN es : es[i].action = "press" /\ SameState(first, es[i])
                                       /\ es[i].at = first.at
          [] first.gesture = "drag" ->
               /\ Len(es) >= 3 /\ first.action = "press" /\ last.action = "release"
               /\ first.button \in Regular /\ SameState(first, last)
               /\ \A i \in DOMAIN middle : middle[i].action = "motion" /\ SameState(first, middle[i])
               /\ Last(middle).at = last.at

RequiredTracking(kind) ==
  CASE kind = "click" -> Trackings
    [] kind = "hover" -> {"any"}
    [] kind = "scroll" -> {"normal", "button", "any"}
    [] kind = "drag" -> {"button", "any"}

\* The format without a bit has no report for a cell further off.
TooFar(at) == at[1] > LegacyMax \/ at[2] > LegacyMax
HasReport(format, at) == format = "x10" => ~TooFar(at)

ExpectedReport(tracking, e) == tracking # "x10" \/ e.action = "press"

\* What EncodeMouse refuses before it encodes.
Refusal(es, s, tracking) ==
  LET kind == es[1].gesture
  IN IF (\E i \in DOMAIN es : ~Inside(es[i].at, s)) \/ ~BatchValid(es) THEN "invalid"
     ELSE IF \/ "pixels" \in raw \/ raw \cap Trackings = {}
             \/ tracking \notin RequiredTracking(kind)
             \/ tracking = "x10" /\ \E i \in DOMAIN es : es[i].modifiers # {}
             \/ raw \cap Formats = {} /\ \E i \in DOMAIN es : TooFar(es[i].at)
     THEN "precondition"
     ELSE "none"

\* Reset, so that a gesture does not meet what another left in the encoder.
Reset(e) == FreshEncoder

\* The events one by one; motion to the cell of the last report is dropped.
\* A report that is missing is the caller's to put right, one too many is not.
Encode(es, tracking) ==
  LET at[n \in 0 .. Len(es)] ==
        IF n = 0 THEN [enc |-> Reset(encoder), reports |-> <<>>, error |-> "none"]
        ELSE LET a == at[n - 1]
                 e == es[n]
                 pressed == e.gesture = "drag" /\ e.action \in {"press", "motion"}
                 produced == /\ Reports(effective.tracking, e.action, e.button, pressed)
                             /\ HasReport(effective.format, e.at)
                             /\ ~(e.action = "motion" /\ a.enc.last = e.at)
             IN IF a.error # "none" THEN a
                ELSE [enc |-> [last |-> IF produced THEN e.at ELSE a.enc.last, pressed |-> pressed],
                      reports |-> IF produced THEN Append(a.reports, e) ELSE a.reports,
                      error |-> IF produced = ExpectedReport(tracking, e) THEN "none"
                                ELSE IF produced THEN "internal" ELSE "precondition"]
  IN at[Len(es)]

NoMode == [tracking |-> "none", format |-> "x10"]

Under(e, r, s) == [effective |-> e, raw |-> r, screen |-> s]

\* EncodeMouse, under the pump lock: all the reports or none.
EncodeMouse(es, s) ==
  /\ under' = Under(effective, raw, s)
  /\ \E tracking \in {Probe(effective.tracking)} :
     \E refusal \in {Refusal(es, s, tracking)} :
       IF refusal # "none"
       THEN pc' = "done" /\ outcome' = refusal /\ encoded' = <<>> /\ UNCHANGED encoder
       ELSE \E e \in {Encode(es, tracking)} :
              /\ encoder' = Reset(e.enc)
              /\ IF e.error # "none"
                 THEN pc' = "done" /\ outcome' = e.error /\ encoded' = <<>>
                 ELSE pc' = "encoded" /\ outcome' = "none" /\ encoded' = e.reports

-----------------------------------------------------------------------------
\* find.go: text, and back to columns.  A cell is its text (a sequence of
\* bytes, empty for a blank) and its width; the cell after a wide one has none.
TextOf(c) == IF c.text = <<>> THEN <<" ">> ELSE c.text

\* newSearchLine.
Spans(cells) ==
  LET spans[n \in 0 .. Len(cells)] ==
        IF n = 0 THEN <<>>
        ELSE LET c == cells[n]
                 start == IF spans[n - 1] = <<>> THEN 0 ELSE Last(spans[n - 1]).byteEnd
             IN IF c.width = 0 THEN spans[n - 1]
                ELSE Append(spans[n - 1],
                            [byteStart |-> start, byteEnd |-> start + Len(TextOf(c)),
                             colStart |-> n - 1, colEnd |-> n - 1 + c.width])
  IN spans[Len(cells)]

LineText(cells) ==
  LET all == FoldLeft(LAMBDA b, c : b \o (IF c.width = 0 THEN <<>> ELSE TextOf(c)), <<>>, cells)
      inked == {i \in DOMAIN all : all[i] # " "}
  IN SubSeq(all, 1, IF inked = {} THEN 0 ELSE CHOOSE i \in inked : \A j \in inked : j <= i)

EndCol(spans, offset) ==
  IF offset <= 0 THEN 0
  ELSE LET at == {i \in DOMAIN spans : offset <= spans[i].byteEnd}
       IN IF spans = <<>> THEN 0
          ELSE IF at = {} THEN Last(spans).colEnd
          ELSE LET i == CHOOSE i \in at : \A j \in at : i <= j
               IN IF offset <= spans[i].byteStart THEN spans[i].colStart ELSE spans[i].colEnd

StartCol(spans, length, offset) ==
  LET at == {i \in DOMAIN spans : offset <= spans[i].byteEnd}
      i == CHOOSE i \in at : \A j \in at : i <= j
  IN IF offset <= 0 THEN (IF spans = <<>> THEN 0 ELSE spans[1].colStart)
     ELSE IF offset >= length \/ at = {} THEN EndCol(spans, length)
     ELSE IF offset = spans[i].byteEnd /\ offset > spans[i].byteStart THEN spans[i].colEnd
     ELSE spans[i].colStart

Match(line, row, from, to) ==
  [x |-> StartCol(line.spans, Len(line.text), from), y |-> row,
   w |-> IF from = to THEN 0
         ELSE EndCol(line.spans, to) - StartCol(line.spans, Len(line.text), from)]

\* FindMatches for a literal: one after another, row by row.
LineMatches(line, row, pattern) ==
  LET text == line.text
      from[i \in 0 .. Len(text)] ==
        LET here == {j \in i .. Len(text) - Len(pattern) :
                       SubSeq(text, j + 1, j + Len(pattern)) = pattern}
        IN IF here = {} THEN <<>>
           ELSE LET j == CHOOSE j \in here : \A k \in here : j <= k
                IN <<Match(line, row, j, j + Len(pattern))>> \o from[j + Len(pattern)]
  IN from[0]

FindMatches(s, pattern) ==
  LET lines == [y \in DOMAIN s.lines |-> [spans |-> Spans(s.lines[y]), text |-> LineText(s.lines[y])]]
  IN FlattenSeq([y \in DOMAIN lines |-> LineMatches(lines[y], y - 1, pattern)])

NoMatch == [x |-> 0, y |-> 0, w |-> 0]

\* selectFindMatch; "2" asks for the second.
SelectFindMatch(matches, selection) ==
  LET n == Len(matches)
  IN CASE selection = "" /\ n = 1 -> matches[1]
       [] selection = "first" /\ n > 0 -> matches[1]
       [] selection = "last" /\ n > 0 -> matches[n]
       [] selection = "2" /\ n >= 2 -> matches[2]
       [] OTHER -> NoMatch

Target(m) == <<m.x + (m.w - 1) \div 2, m.y>>

-----------------------------------------------------------------------------
NoFind == [pattern |-> <<>>, match |-> NoMatch, target |-> Origin]

Init ==
  /\ raw = {} /\ effective = NoMode /\ screen \in Screens
  /\ encoder = FreshEncoder
  /\ pc = "idle" /\ request = Gesture /\ events = <<>> /\ encoded = <<>> /\ wrote = <<>>
  /\ outcome = "none" /\ found = NoFind
  /\ turns = 0 /\ under = Under(NoMode, {}, screen)

Turn == IF pc = "idle" THEN UNCHANGED turns ELSE turns < MaxTurns /\ turns' = turns + 1

Child == <<raw, effective, screen>>
Request == <<encoder, pc, request, events, encoded, wrote, outcome, found, under>>

\* DECSET and DECRST: of trackings and of formats the one set last is in
\* effect, and none, or the format without a bit, when any is reset, while the
\* bits of the others stay.
SetMode ==
  /\ Turn
  /\ \E m \in Trackings \cup Formats :
       \/ /\ raw' = raw \cup {m} /\ Cardinality(raw') <= MaxModes
          /\ effective' = IF m \in Trackings THEN [effective EXCEPT !.tracking = m]
                          ELSE [effective EXCEPT !.format = m]
       \/ /\ raw' = raw \ {m}
          /\ effective' = IF m \in Trackings THEN [effective EXCEPT !.tracking = "none"]
                          ELSE [effective EXCEPT !.format = "x10"]
  /\ UNCHANGED <<screen, Request>>

SameSize(s, t) == s.cols = t.cols /\ s.rows = t.rows

Draw ==
  /\ Turn
  /\ screen' \in {s \in Screens : SameSize(s, screen)} /\ screen' # screen
  /\ UNCHANGED <<raw, effective, Request>>

\* Resize takes inputMu, so no gesture meets one.
Resize ==
  /\ pc = "idle"
  /\ screen' \in {s \in Screens : ~SameSize(s, screen)}
  /\ UNCHANGED <<raw, effective, turns, Request>>

\* prevalidateMouseCoordinates and Expand, with the size read under the lock.
Ends(g) == IF g.kind = "drag" THEN {g.from, g.to} ELSE {g.point}
Prevalidated(g, s) == g.kind \in Kinds => \A p \in Ends(g) : Inside(p, s)

Begin ==
  /\ pc = "idle"
  /\ \E g \in Gestures :
       /\ request' = g
       /\ IF Prevalidated(g, screen) /\ Valid(g)
          THEN pc' = "expanded" /\ events' = Expand(g) /\ outcome' = "none"
          ELSE pc' = "done" /\ events' = <<>> /\ outcome' = "invalid"
  /\ encoded' = <<>> /\ wrote' = <<>> /\ found' = NoFind
  /\ under' = Under(NoMode, {}, screen)
  /\ UNCHANGED <<Child, encoder, turns>>

EncodeBatch ==
  /\ pc = "expanded"
  /\ EncodeMouse(events, screen)
  /\ UNCHANGED <<Child, request, events, wrote, found, turns>>

\* FindClick: the screen that is searched is the one the click is encoded for.
FindClick ==
  /\ pc = "idle"
  /\ \E f \in Finds : \E m \in {SelectFindMatch(FindMatches(screen, f.pattern), f.selection)} :
     \E g \in {[Gesture EXCEPT !.point = Target(m)]} :
       IF m.w <= 0 \/ ~Prevalidated(g, screen)
       THEN /\ pc' = "done" /\ outcome' = "invalid" /\ request' = Gesture
            /\ events' = <<>> /\ encoded' = <<>> /\ found' = NoFind
            /\ under' = Under(NoMode, {}, screen)
            /\ UNCHANGED encoder
       ELSE /\ request' = g
            /\ found' = [pattern |-> f.pattern, match |-> m, target |-> g.point]
            /\ \E es \in {Expand(g)} : events' = es /\ EncodeMouse(es, screen)
  /\ wrote' = <<>>
  /\ UNCHANGED <<Child, turns>>

\* writeAll; a PTY that is gone may have taken some of it.
Write ==
  /\ pc = "encoded" /\ pc' = "done"
  /\ \/ wrote' = encoded /\ outcome' = "sent"
     \/ \E n \in 0 .. Len(encoded) - 1 : wrote' = SubSeq(encoded, 1, n) /\ outcome' = "io error"
  /\ UNCHANGED <<Child, encoder, request, events, encoded, found, turns, under>>

Return ==
  /\ pc = "done" /\ pc' = "idle"
  /\ request' = Gesture /\ events' = <<>> /\ encoded' = <<>> /\ wrote' = <<>>
  /\ outcome' = "none" /\ found' = NoFind
  /\ turns' = 0 /\ under' = Under(NoMode, {}, screen)
  /\ UNCHANGED <<Child, encoder>>

Next ==
  \/ SetMode \/ Draw \/ Resize
  \/ Begin \/ EncodeBatch \/ FindClick \/ Write \/ Return
Spec == Init /\ [][Next]_vars

-----------------------------------------------------------------------------
\* What the mode reports of the events of a gesture.
Reportable(es) ==
  SelectSeq(es, LAMBDA e : Reports(under.effective.tracking, e.action, e.button, e.gesture = "drag"))

\* A gesture the child is sent is one it can understand: everything its mode
\* reports of the gesture and at least what makes it one - a button that goes
\* down comes up, a drag moves - however the modes changed while it was
\* prepared, and whatever was encoded before; and no cell its format has no
\* report for.
SentIsWhole ==
  outcome = "sent" =>
    /\ wrote = Reportable(events) /\ wrote # <<>>
    /\ under.effective.tracking = "x10" => events[1].gesture = "click"
    /\ under.effective.tracking # "x10" => wrote = events
    /\ "pixels" \notin under.raw
    /\ \A i \in DOMAIN wrote : HasReport(under.effective.format, wrote[i].at)

\* A gesture is refused only for what is wrong with it, or with the mode the
\* child has asked for at that moment: the tracking and the format in effect,
\* not the bits, but for the one that asks for pixels.
RefusedForAReason ==
  /\ outcome # "internal"
  /\ outcome = "precondition" =>
       \/ "pixels" \in under.raw
       \/ Reportable(events) = <<>>
       \/ events[1].gesture \in {"drag", "scroll"} /\ Reportable(events) # events
       \/ under.effective.tracking = "x10" /\ request.modifiers # <<>>
       \/ \E i \in DOMAIN events : ~HasReport(under.effective.format, events[i].at)
  /\ outcome = "invalid" /\ found = NoFind /\ request # Gesture =>
       ~Prevalidated(request, under.screen) \/ ~Valid(request)

\* The pointer moves as a hand would move it: from cell to neighbouring cell,
\* never back, to where the drag ends, and no cell further than half a cell
\* from the straight line.
DragIsALine ==
  \A i \in DOMAIN events :
    LET e == events[i]
        dx == request.to[1] - request.from[1]
        dy == request.to[2] - request.from[2]
        off == dy * (e.at[1] - request.from[1]) - dx * (e.at[2] - request.from[2])
    IN e.gesture = "drag" =>
         /\ events[1].at = request.from /\ Last(events).at = request.to
         /\ 2 * Abs(off) <= (IF Abs(dx) > Abs(dy) THEN Abs(dx) ELSE Abs(dy))
         /\ e.action = "motion" =>
              LET before == events[i - 1].at
              IN /\ e.at # before
                 /\ \A k \in 1 .. 2 : e.at[k] - before[k] \in
                      {0, IF request.from[k] < request.to[k] THEN 1
                          ELSE IF request.from[k] > request.to[k] THEN -1 ELSE 0}

\* The text of the cells from one column to another.
Spelled(cells, from, to) ==
  FoldLeft(LAMBDA b, c : b \o (IF c.width = 0 THEN <<>> ELSE TextOf(c)), <<>>,
           SubSeq(cells, from + 1, to))

\* FindClick clicks what it found: on the screen the click is encoded for, the
\* cells of the match spell the pattern and no cell less does, wide cells and
\* cells of several bytes too, and the click is on one of them.
ClicksTheMatch ==
  found # NoFind =>
    LET m == found.match
        cells == under.screen.lines[m.y + 1]
        Spells(from, to) == \E i \in 1 .. Len(Spelled(cells, from, to)) : \E j \in i .. Len(Spelled(cells, from, to)) :
                              SubSeq(Spelled(cells, from, to), i, j) = found.pattern
        last == CHOOSE x \in m.x .. m.x + m.w - 1 : x + cells[x + 1].width = m.x + m.w
    IN /\ \E x \in m.x .. m.x + m.w - 1 : x + cells[x + 1].width = m.x + m.w
       /\ Spells(m.x, m.x + m.w) /\ ~Spells(m.x + 1, m.x + m.w) /\ ~Spells(m.x, last)
       /\ found.target[1] \in m.x .. m.x + m.w - 1 /\ found.target[2] = m.y
=============================================================================
