----------------------------- MODULE CastExport -----------------------------
(***************************************************************************)
(* twee export to an asciicast (internal/export/cast.go): one pass over    *)
(* the events of a trace.  A cast holds text, a trace holds bytes: a code  *)
(* point that two reads of the PTY cut in two is put together, also across *)
(* markers, which wait for it.                                             *)
(*                                                                         *)
(* "two" and "three" begin a code point of two and of three bytes, "tail"  *)
(* continues one, and "a" is one by itself.                                *)
(***************************************************************************)
EXTENDS Integers, Sequences, SequencesExt

CONSTANT Traces      \* sequences of events, in the order of their times

VARIABLES
  trace,       \* the events
  at,          \* how many have been read
  output,      \* bytes of output not written yet
  outputTMS,   \* the time they get
  markers,     \* pendingMarkers
  records,     \* the lines of the cast
  done

vars == <<trace, at, output, outputTMS, markers, records, done>>

From(b, i) == SubSeq(b, i, Len(b))

\* Bytes of the code point at the start of b; 0: malformed, -1: incomplete.
RuneSize(b) ==
  LET want == CASE b[1] = "a" -> 1 [] b[1] = "two" -> 2 [] b[1] = "three" -> 3 [] OTHER -> 0
  IN IF \E i \in 2 .. want : i <= Len(b) /\ b[i] # "tail" THEN 0
     ELSE IF Len(b) < want THEN -1
     ELSE want

\* What is valid in the bytes from each on, and an incomplete suffix if it is
\* to be kept.
TextFrom(b, keep) ==
  LET text[i \in 1 .. Len(b) + 1] ==
        IF i > Len(b) THEN [valid |-> <<>>, rest |-> <<>>]
        ELSE LET n == RuneSize(From(b, i))
             IN IF n > 0 THEN [valid |-> SubSeq(b, i, i + n - 1) \o text[i + n].valid,
                               rest |-> text[i + n].rest]
                ELSE IF n = -1 /\ keep THEN [valid |-> <<>>, rest |-> From(b, i)]
                ELSE text[i + 1]
  IN text
Text(b, keep) == TextFrom(b, keep)[1]

CastUTF8(b, final) == Text(b, ~final)

Record(t, kind, data) == [t |-> t, kind |-> kind, data |-> data]

\* The state of the pass, as the closures of exportCast see it.
Cast(out, tms, held, recs) == [output |-> out, tms |-> tms, markers |-> held, records |-> recs]
Now == Cast(output, outputTMS, markers, records)

FlushOutputOnly(c, final) ==
  LET u == CastUTF8(c.output, final)
  IN Cast(u.rest, IF u.rest = <<>> THEN 0 ELSE c.tms, c.markers,
          c.records \o (IF u.valid = <<>> THEN <<>> ELSE <<Record(c.tms, "o", u.valid)>>))

\* Markers come out once no code point is open any more.
FlushOutput(c, final) ==
  LET f == FlushOutputOnly(c, final)
  IN IF f.output # <<>> THEN f
     ELSE Cast(f.output, f.tms, <<>>, f.records \o c.markers)

Become(c) ==
  /\ output' = c.output /\ outputTMS' = c.tms
  /\ markers' = c.markers /\ records' = c.records

\* Output while markers wait: they wait for the first code point only.
Consumed(size, held, bytes) == size - Len(held)

\* A code point in two parts has the time of the first.
PointTimeLast(c, t) == t
PointTime(c, t) == c.tms

AfterMarkers(c, t, bytes) ==
  LET size == RuneSize(c.output \o bytes)
      n == Consumed(size, c.output, bytes)
      first == FlushOutput(Cast(c.output \o SubSeq(bytes, 1, n), PointTime(c, t), c.markers, c.records), FALSE)
  IN IF size = -1 THEN Cast(c.output \o bytes, c.tms, c.markers, c.records)
     ELSE IF size = 0
     THEN FlushOutput(Cast(bytes, t, <<>>, c.records \o c.markers), FALSE)
     ELSE IF n = Len(bytes) THEN first
     ELSE FlushOutput(Cast(first.output \o From(bytes, n + 1), t, first.markers, first.records), FALSE)

Output(e) ==
  LET c == Cast(output, IF output = <<>> THEN e.t ELSE outputTMS, markers, records)
  IN Become(IF markers = <<>> THEN FlushOutput(Cast(output \o e.bytes, c.tms, markers, records), FALSE)
            ELSE AfterMarkers(c, e.t, e.bytes))

MarkerWaits(e) ==
  /\ e.type = "marker" /\ output # <<>>
  /\ Become(Cast(output, outputTMS, Append(markers, Record(e.t, "m", at + 1)), records))

\* Of the other events a cast has resizes, markers and, if asked for, input
\* that is text.
InCast(e) == e.type \in {"resize", "marker", "text"}

Other(e) ==
  /\ ~(e.type = "marker" /\ output # <<>>)
  /\ LET c == FlushOutput(Now, TRUE)
         kind == CASE e.type = "resize" -> "r" [] e.type = "marker" -> "m" [] OTHER -> "i"
     IN Become(IF InCast(e) THEN Cast(c.output, c.tms, c.markers, Append(c.records, Record(e.t, kind, at + 1)))
               ELSE c)

Init ==
  /\ trace \in Traces /\ at = 0
  /\ output = <<>> /\ outputTMS = 0 /\ markers = <<>> /\ records = <<>>
  /\ done = FALSE

ReadOutput ==
  /\ at < Len(trace) /\ trace[at + 1].type = "output"
  /\ at' = at + 1 /\ Output(trace[at + 1])
  /\ UNCHANGED <<trace, done>>
HoldMarker ==
  /\ at < Len(trace) /\ MarkerWaits(trace[at + 1])
  /\ at' = at + 1
  /\ UNCHANGED <<trace, done>>
ReadOther ==
  /\ at < Len(trace) /\ trace[at + 1].type # "output"
  /\ at' = at + 1 /\ Other(trace[at + 1])
  /\ UNCHANGED <<trace, done>>
Finish ==
  /\ at = Len(trace) /\ ~done
  /\ done' = TRUE /\ Become(FlushOutput(Now, TRUE))
  /\ UNCHANGED <<trace, at>>

Next == ReadOutput \/ HoldMarker \/ ReadOther \/ Finish
Spec == Init /\ [][Next]_vars

-----------------------------------------------------------------------------
\* The output of a trace up to each event, cut where an event other than a
\* marker ends what a code point may span, as text.
TextUpTo(es) ==
  LET text[i \in 0 .. Len(es)] ==
        IF i = 0 THEN [text |-> <<>>, open |-> <<>>]
        ELSE LET before == text[i - 1]
             IN IF es[i].type = "output" THEN [text |-> before.text, open |-> before.open \o es[i].bytes]
                ELSE IF es[i].type = "marker" THEN before
                ELSE [text |-> before.text \o CastUTF8(before.open, TRUE).valid, open |-> <<>>]
  IN text
Before(n, final) ==
  TextUpTo(trace)[n].text \o CastUTF8(TextUpTo(trace)[n].open, final).valid

\* The text of the first records of a cast.
Written(recs) ==
  LET written[n \in 0 .. Len(recs)] ==
        IF n = 0 THEN <<>>
        ELSE IF recs[n].kind = "o" THEN written[n - 1] \o recs[n].data ELSE written[n - 1]
  IN written

\* The text of the cast is the text of the trace: each code point once and in
\* order, whichever reads and markers it was cut by, and nothing malformed.
CastKeepsText == done => Written(records)[Len(records)] = Before(Len(trace), TRUE)

\* A cast never goes back in time, or past its duration.
CastInOrder ==
  \A i \in DOMAIN records :
    /\ records[i].t <= trace[at].t
    /\ \A j \in DOMAIN records : i < j => records[i].t <= records[j].t

\* Markers, resizes and input are all there, in the order of the trace, and
\* with the text before them that was there when they were recorded: a marker
\* in the middle of a code point follows that code point and no other.
MarkersInPlace ==
  done =>
    LET others == {i \in DOMAIN records : records[i].kind # "o"}
    IN /\ {records[i].data : i \in others} = {n \in DOMAIN trace : InCast(trace[n])}
       /\ \A i, j \in others : i < j => records[i].data < records[j].data
       /\ \A i \in others :
            LET n == records[i].data
                written == Written(records)[i - 1]
                whole == Before(n, trace[n].type # "marker")
            IN \/ written = whole
               \/ /\ trace[n].type = "marker" /\ IsPrefix(whole, written)
                  /\ RuneSize(From(written, Len(whole) + 1)) = Len(written) - Len(whole)
                  /\ CastUTF8(TextUpTo(trace)[n].open, FALSE).rest # <<>>
=============================================================================
