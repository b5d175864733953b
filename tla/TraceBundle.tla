---------------------------- MODULE TraceBundle ----------------------------
(***************************************************************************)
(* A trace bundle from both ends: internal/trace writes events to a staged *)
(* file and publishes a zip archive at Close; internal/tracebundle and     *)
(* internal/tracearchive open and validate what they find at a path.       *)
(*                                                                         *)
(* Every method of a Trace holds its mutex, Close for all of its steps, so *)
(* only a crash or a reader of the path can come between those; both see   *)
(* what is at the path then.  A reader is the operator Open.               *)
(***************************************************************************)
EXTENDS Integers, Sequences

CONSTANTS
  Sizes,     \* payload sizes of recorded output and input
  Labels,    \* lengths of marker labels asked for
  Screens,   \* screen sizes <<cols, rows>> asked for
  Captures,  \* network captures a run ends with: NoCapture, or what is staged
  NoCapture,
  Nothing,   \* an empty path
  Foreign,   \* bundles that something else may have left at the path
  MaxNow,    \* bound: the clock
  MaxLines,  \* bound: events recorded
  MaxLineBytes, MaxEventsBytes, MaxEventCount, MaxDecodedPayloadBytes,
  MaxTerminalCells, MaxDimension, MaxManifestBytes, MaxNetworkCaptureBytes,
  MaxArchiveEntries,
  MaxUint64 \* the largest size a zip header can declare

MaxArchiveUncompressedBytes == MaxManifestBytes + MaxEventsBytes + MaxNetworkCaptureBytes

VARIABLES
  now,       \* milliseconds since the trace started
  lines,     \* events.jsonl
  lastTMS,   \* time of the last event (NoTMS: hasLastTMS is false)
  capture,   \* what is staged of the network; attached: it is in the manifest
  attached,
  closed,
  err,       \* Trace.err is set
  spoiled,   \* history: an error before Close, or Abort
  step,      \* "recording", "closing", "writing", "renaming", "removing",
             \* "done", "crashed"
  workDir,   \* the private directory is there
  before,    \* what was at the path when the trace started
  target     \* what is there now: Nothing or a bundle

vars == <<now, lines, lastTMS, capture, attached, closed, err, spoiled, step,
          workDir, before, target>>

NoTMS == -1
Manifest == "manifest.json"
Events == "events.jsonl"
Stream == "streams/network.pcap"

-----------------------------------------------------------------------------
\* Lines of events.jsonl.  form says what is wrong with the text of a line.
Line(t, type, size, cols, rows, label) ==
  [t |-> t, type |-> type, size |-> size, cols |-> cols, rows |-> rows,
   label |-> label, form |-> "good"]

Types == {"output", "input", "resize", "marker", "exit"}
LineBytes(l) == 1 + 4 * ((l.size + 2) \div 3) + l.label

\* Sizes are added one after the other, as they come in the file.
Totals(sizes) ==
  LET sum[i \in 0 .. Len(sizes)] == IF i = 0 THEN 0 ELSE sum[i - 1] + sizes[i] IN sum
Total(sizes) == Totals(sizes)[Len(sizes)]

SizesOf(items) == [i \in DOMAIN items |-> items[i].size]
TotalBytes(ls) == Total([i \in DOMAIN ls |-> LineBytes(ls[i])])
Payload(ls) == Total(SizesOf(ls))

\* What can be in an archive.  A name is one the format owns, another that is
\* safe, or an unsafe one; a size is the one the zip header declares.
Entries ==
  [name : {Manifest, Events, Stream, "other", "unsafe"}, size : Nat, regular : BOOLEAN]
Lines ==
  [t : Int, type : Types \cup {"other"}, size : Nat, cols : Int, rows : Int, label : Nat,
   form : {"good", "blank", "headless", "unparsed", "undecoded"}]
Packets == [included : Nat, original : Nat, present : Nat]
Metadata ==
  [format : BOOLEAN, byteLimit : Int, captured : Int, count : Int, truncated : BOOLEAN,
   status : {"complete", "truncated"}]

\* The limits of tracepolicy, what the writer is given, and what a reader may
\* find.  The limits are far below what a header can declare.
ASSUME BundleAssumption ==
  /\ {MaxNow, MaxLines, MaxLineBytes, MaxEventsBytes, MaxEventCount, MaxDecodedPayloadBytes,
      MaxNetworkCaptureBytes, MaxUint64} \subseteq Nat
  /\ {MaxManifestBytes, MaxTerminalCells, MaxDimension} \subseteq Nat \ {0}
  /\ MaxArchiveEntries \in Nat /\ MaxArchiveEntries >= 3
  /\ MaxArchiveUncompressedBytes < MaxUint64
  /\ Sizes \cup Labels \subseteq Nat /\ Screens \subseteq Int \X Int
  /\ NoCapture \notin Metadata
  /\ \A c \in Captures \ {NoCapture} :
       /\ c.captured \in Int /\ c.byteLimit \in Int /\ c.truncated \in BOOLEAN
       /\ c.pcap.packets \in Seq(Packets)
  /\ \A b \in Foreign :
       /\ b.entries \in Seq(Entries) /\ b.lines \in Seq(Lines)
       /\ {b.manifest.cols, b.manifest.rows} \subseteq Int

-----------------------------------------------------------------------------
\* What a reader accepts: the archive.
\* Sizes saturate instead of wrapping to something small.
WrappingAdd(a, b) == (a + b) % (MaxUint64 + 1)
SaturatingAdd(a, b) == IF MaxUint64 - a < b THEN MaxUint64 ELSE a + b

DeclaredTo(entries, names) ==
  LET sum[i \in 0 .. Len(entries)] ==
        IF i = 0 THEN 0
        ELSE IF entries[i].name \in names THEN SaturatingAdd(sum[i - 1], entries[i].size)
        ELSE sum[i - 1]
  IN sum
Declared(entries, names) == DeclaredTo(entries, names)[Len(entries)]

Named(entries, name) == {i \in DOMAIN entries : entries[i].name = name}
\* The entry that can be read: the only one of its name, and a regular file.
Readable(entries, name) ==
  \E i \in DOMAIN entries : Named(entries, name) = {i} /\ entries[i].regular

Limit(name) ==
  IF name = Manifest THEN MaxManifestBytes
  ELSE IF name = Events THEN MaxEventsBytes ELSE MaxNetworkCaptureBytes

Owned == {Manifest, Events, Stream}

Check(entries) ==
  LET names == {entries[i].name : i \in DOMAIN entries}
  IN {x \in {"entries", "name", "regular", "size", "total", "missing", "duplicate"} :
       \/ x = "entries" /\ Len(entries) > MaxArchiveEntries
       \/ x = "name" /\ "unsafe" \in names
       \/ x = "regular" /\ \E i \in DOMAIN entries : ~entries[i].regular
       \/ x = "size" /\ \E i \in DOMAIN entries :
            entries[i].name \in Owned /\ entries[i].size > Limit(entries[i].name)
       \/ x = "total" /\ Declared(entries, names) > MaxArchiveUncompressedBytes
       \/ x = "total" /\ Declared(entries, names \ {Stream}) > MaxManifestBytes + MaxEventsBytes
       \/ x = "missing" /\ ~({Manifest, Events} \subseteq names)
       \/ x = "duplicate" /\ \E n \in Owned : \E i, j \in Named(entries, n) : i # j}

\* The framing of a packet capture: a sound header, then packets that were
\* cut neither below what they say nor above what was on the wire.
PacketsOf(pcap) == Len(pcap.packets)
ValidPCAP(pcap) ==
  /\ pcap.header
  /\ pcap.bytes <= MaxNetworkCaptureBytes
  /\ \A i \in DOMAIN pcap.packets :
       LET p == pcap.packets[i]
       IN p.included <= pcap.snapLen /\ p.included <= p.original /\ p.present = p.included

WantStatus(m) == IF m.truncated THEN "truncated" ELSE "complete"

CheckNetworkCapture(m, present, pcap) ==
  IF m = NoCapture THEN IF present THEN {"undeclared"} ELSE {}
  ELSE {x \in {"stream", "format", "limit", "bytes", "count", "status", "size", "pcap"} :
         \/ x = "stream" /\ ~present
         \/ x = "format" /\ ~m.format
         \/ x = "limit" /\ (m.byteLimit <= 0 \/ m.byteLimit > MaxNetworkCaptureBytes)
         \/ x = "bytes" /\ (m.captured < 0 \/ (m.byteLimit > 0 /\ m.captured > m.byteLimit))
         \/ x = "count" /\ m.count < 0
         \/ x = "count" /\ present /\ ValidPCAP(pcap) /\ m.count # PacketsOf(pcap)
         \/ x = "status" /\ m.status # WantStatus(m)
         \/ x = "size" /\ present /\ m.captured >= 0 /\ m.captured # pcap.bytes
         \/ x = "pcap" /\ present /\ ~ValidPCAP(pcap)}

-----------------------------------------------------------------------------
\* What a reader accepts: the manifest and the events.
TerminalSizeIssue(cols, rows) ==
  \/ cols < 1 \/ cols > MaxDimension \/ rows < 1 \/ rows > MaxDimension
  \/ cols > MaxTerminalCells \div rows

SnapshotIssue(s) ==
  CASE s.status = "captured" -> s.chars \notin 1 .. 64 \/ s.error
    [] s.status \in {"unavailable", "unsupported"} -> s.chars # -1
    [] OTHER -> TRUE
TermiosIssue(record) == \E s \in record : SnapshotIssue(s)

\* One line after the other; a line whose text cannot be decoded is passed
\* over, and a line that is too long is the last one looked at.
EventIssues(l, seen) ==
  {x \in {"type", "time", "order", "size", "label", "payload"} :
    \/ x = "type" /\ l.type \notin Types
    \/ x = "time" /\ l.t < 0
    \/ x = "order" /\ seen.last # NoTMS /\ l.t < seen.last
    \/ x = "size" /\ l.type = "resize" /\ TerminalSizeIssue(l.cols, l.rows)
    \/ x = "label" /\ l.type = "marker" /\ l.label = 0
    \/ x = "payload" /\ l.size > MaxDecodedPayloadBytes - seen.decoded}

DecodedAfter(seen, l) == seen.decoded + l.size
Decoded(seen, l) == IF "payload" \in EventIssues(l, seen) THEN seen.decoded
                    ELSE DecodedAfter(seen, l)

Inspected(l, seen) ==
  IF seen.over THEN seen
  ELSE IF LineBytes(l) > MaxLineBytes
  THEN [seen EXCEPT !.over = TRUE, !.issues = @ \cup {"line"}]
  ELSE IF l.form = "blank" THEN seen
  ELSE IF l.form = "headless" THEN [seen EXCEPT !.issues = @ \cup {"json"}]
  ELSE IF seen.count >= MaxEventCount
  THEN [seen EXCEPT !.over = TRUE, !.issues = @ \cup {"count"}]
  ELSE IF l.form = "unparsed"
  THEN [seen EXCEPT !.count = @ + 1, !.last = l.t,
                    !.issues = @ \cup {"json"} \cup (EventIssues(l, seen) \cap {"type", "time", "order"})]
  ELSE IF l.form = "undecoded"
  THEN [seen EXCEPT !.count = @ + 1, !.last = l.t,
                    !.issues = @ \cup {"base64"} \cup (EventIssues(l, seen) \ {"payload"})]
  ELSE [seen EXCEPT !.count = @ + 1, !.last = l.t, !.decoded = Decoded(seen, l),
                    !.issues = @ \cup EventIssues(l, seen),
                    !.events = IF "payload" \in EventIssues(l, seen) THEN @ ELSE Append(@, l)]

Unread == [over |-> FALSE, count |-> 0, last |-> NoTMS, decoded |-> 0, issues |-> {}, events |-> <<>>]

SeenIn(ls) ==
  LET seen[i \in 0 .. Len(ls)] == IF i = 0 THEN Unread ELSE Inspected(ls[i], seen[i - 1]) IN seen
Inspect(ls) == SeenIn(ls)[Len(ls)]

\* Open: the issues of a bundle, and its events if there are none.
ManifestIssues(m, stream, pcap) ==
  IF ~m.known
  THEN {"version"} \cup (IF stream /\ ~ValidPCAP(pcap) THEN {"pcap"} ELSE {})
  ELSE (IF TerminalSizeIssue(m.cols, m.rows) THEN {"size"} ELSE {})
         \cup (IF TermiosIssue(m.termios) THEN {"termios"} ELSE {})
         \cup CheckNetworkCapture(m.network, stream, pcap)

Open(b) ==
  LET events ==
        IF ~Readable(b.entries, Events) THEN {}
        ELSE Inspect(b.lines).issues
               \cup (IF TotalBytes(b.lines) > MaxEventsBytes THEN {"content"} ELSE {})
      manifest ==
        IF ~Readable(b.entries, Manifest) THEN {}
        ELSE ManifestIssues(b.manifest, Readable(b.entries, Stream), b.pcap)
      issues == Check(b.entries) \cup manifest \cup events
  IN [valid |-> issues = {}, issues |-> issues,
      events |-> IF issues = {} THEN Inspect(b.lines).events ELSE <<>>]

-----------------------------------------------------------------------------
\* The writer.  A trace starts with the screen the engine has validated.
Started(c, b) ==
  /\ now = 0 /\ lines = <<>> /\ lastTMS = NoTMS
  /\ capture = c /\ attached = FALSE
  /\ closed = FALSE /\ err = FALSE /\ spoiled = FALSE
  /\ step = "recording" /\ workDir = TRUE
  /\ before = b /\ target = b

Init == \E c \in Captures, b \in Foreign \cup {Nothing} : Started(c, b)

Tick ==
  /\ step = "recording" /\ now < MaxNow
  /\ now' = now + 1
  /\ UNCHANGED <<lines, lastTMS, capture, attached, closed, err, spoiled, step, workDir, before, target>>

Greater(a, b) == IF a > b THEN a ELSE b

\* The time an event gets: never before the start, never before the last one.
RawTMS(ts) == Greater(ts, 0)
TMS(ts) == Greater(Greater(ts, 0), lastTMS)

\* Encode one line; a line that cannot be written spoils the trace.
Encode(l) ==
  /\ ~closed /\ step = "recording" /\ Len(lines) < MaxLines
  /\ lastTMS' = l.t
  /\ \/ lines' = Append(lines, l) /\ UNCHANGED <<err, spoiled>>
     \/ err' = TRUE /\ spoiled' = TRUE /\ UNCHANGED lines
  /\ UNCHANGED <<now, capture, attached, closed, step, workDir, before, target>>

\* Output carries the time it was read, which was before the mutex was free.
WriteOutput ==
  \E ts \in -1 .. now, n \in Sizes : Encode(Line(TMS(ts), "output", n, 0, 0, 0))
WriteInput == \E n \in Sizes : Encode(Line(TMS(now), "input", n, 0, 0, 0))
WriteResize ==
  \E s \in Screens : /\ ~TerminalSizeIssue(s[1], s[2])
                     /\ Encode(Line(TMS(now), "resize", 0, s[1], s[2], 0))
\* A label that is empty, or that makes a line no reader takes, is refused.
WriteMarker ==
  \E n \in Labels :
    LET l == Line(TMS(now), "marker", 0, 0, 0, n)
    IN n # 0 /\ LineBytes(l) < MaxLineBytes /\ Encode(l)
WriteExit == Encode(Line(TMS(now), "exit", 0, 0, 0, 0))

\* The metadata of what netwrap says it captured, and what the writer of the
\* trace asks of it and of the staged file.
TraceCapture(c) ==
  [format |-> TRUE, byteLimit |-> c.byteLimit, captured |-> c.captured, count |-> c.count,
   truncated |-> c.truncated, status |-> IF c.truncated THEN "truncated" ELSE "complete"]

Attachable(c) ==
  /\ ~c.failed
  /\ c.pcap.regular
  /\ c.byteLimit \in 1 .. MaxNetworkCaptureBytes
  /\ c.captured \in 0 .. c.byteLimit
  /\ c.captured = c.pcap.bytes
  /\ ValidPCAP(c.pcap)
  /\ c.count = PacketsOf(c.pcap)

\* Close, and Abort before it: the first call wins.
BeginClose ==
  /\ ~closed /\ step = "recording"
  /\ closed' = TRUE /\ step' = "closing"

AttachNetworkCapture ==
  /\ capture # NoCapture /\ ~attached
  /\ ~closed /\ step = "recording"
  /\ IF Attachable(capture)
     THEN attached' = TRUE /\ UNCHANGED <<closed, err, spoiled, step>>
     ELSE BeginClose /\ err' = TRUE /\ spoiled' = TRUE /\ UNCHANGED attached
  /\ UNCHANGED <<now, lines, lastTMS, capture, workDir, before, target>>

Aborted == err \/ ~closed
Abort ==
  /\ step \in {"recording", "done"}
  /\ err' = Aborted
  /\ spoiled' = (spoiled \/ ~closed)
  /\ IF closed THEN UNCHANGED <<closed, step>> ELSE BeginClose
  /\ UNCHANGED <<now, lines, lastTMS, capture, attached, workDir, before, target>>

\* A session with a network attaches it, or aborts, before it closes.
Close ==
  /\ capture = NoCapture \/ attached
  /\ BeginClose
  /\ UNCHANGED <<now, lines, lastTMS, capture, attached, err, spoiled, workDir, before, target>>

\* The error of a step is joined to those before it.
Joined(ok) == err \/ ~ok

Continue(ok, next) ==
  /\ step' = IF ok THEN next ELSE "removing"
  /\ err' = Joined(ok)
  /\ UNCHANGED <<now, lines, lastTMS, capture, attached, closed, spoiled, before>>

CloseEventsBlind ==
  /\ step = "closing"
  /\ Continue(TRUE, "writing")
  /\ UNCHANGED <<workDir, target>>
CloseEvents ==
  /\ step = "closing"
  /\ \E ok \in BOOLEAN : Continue(ok /\ ~err, "writing")
  /\ UNCHANGED <<workDir, target>>

WriteArchive ==
  /\ step = "writing"
  /\ \E ok \in BOOLEAN : Continue(ok, "renaming")
  /\ UNCHANGED <<workDir, target>>

Entry(name, size) == [name |-> name, size |-> size, regular |-> TRUE]
Captured == [status |-> "captured", chars |-> 19, error |-> FALSE]
Bundle ==
  [entries |-> <<Entry(Manifest, 1), Entry(Events, TotalBytes(lines))>>
                 \o (IF attached THEN <<Entry(Stream, capture.pcap.bytes)>> ELSE <<>>),
   manifest |-> [known |-> TRUE, cols |-> 1, rows |-> 1, termios |-> {Captured},
                 network |-> IF attached THEN TraceCapture(capture) ELSE NoCapture],
   lines |-> lines,
   pcap |-> IF attached THEN capture.pcap ELSE NoCapture]

Rename ==
  /\ step = "renaming"
  /\ \E ok \in BOOLEAN : /\ Continue(ok, "removing")
                         /\ target' = IF ok THEN Bundle ELSE target
  /\ UNCHANGED workDir

\* Cleanup comes last on every path; its failure is the trace's error too.
RemoveWorkDir ==
  /\ step = "removing"
  /\ \E ok \in BOOLEAN :
       /\ step' = "done"
       /\ err' = Joined(ok)
       /\ workDir' = ~ok
  /\ UNCHANGED <<now, lines, lastTMS, capture, attached, closed, spoiled, before, target>>

Crash ==
  /\ step \notin {"done", "crashed"}
  /\ step' = "crashed"
  /\ UNCHANGED <<now, lines, lastTMS, capture, attached, closed, err, spoiled, workDir, before, target>>

Next ==
  \/ Tick
  \/ WriteOutput \/ WriteInput \/ WriteResize \/ WriteMarker \/ WriteExit
  \/ AttachNetworkCapture \/ Abort \/ Close
  \/ CloseEvents \/ WriteArchive \/ Rename \/ RemoveWorkDir
  \/ Crash

Spec == Init /\ [][Next]_vars

-----------------------------------------------------------------------------
\* The state has its shape; an error before Close is never forgotten.
TypeOK ==
  /\ now \in 0 .. MaxNow /\ lastTMS \in NoTMS .. MaxNow
  /\ \A i \in DOMAIN lines : lines[i].type \in Types
  /\ {attached, closed, err, spoiled, workDir} \subseteq BOOLEAN
  /\ step \in {"recording", "closing", "writing", "renaming", "removing", "done", "crashed"}
  /\ closed \/ step \in {"recording", "crashed"}
  /\ spoiled => err

\* The limits a reader has and the writer does not look at.
Replayable ==
  /\ TotalBytes(lines) <= MaxEventsBytes
  /\ Payload(lines) <= MaxDecodedPayloadBytes
  /\ Len(lines) <= MaxEventCount
  /\ \A i \in DOMAIN lines : lines[i].type # "marker" => LineBytes(lines[i]) <= MaxLineBytes

\* A trace whose Close reported no error is one its own readers open, with
\* every event and the network capture, and nothing of its staging is left:
\* no event written in time by two threads can be out of order in it, no
\* marker and no capture the writer took is one the readers refuse.
ClosedIsReadable ==
  step = "done" /\ ~err =>
    /\ ~workDir
    /\ Replayable => Open(target).valid /\ Open(target).events = lines

\* Whatever fails, and wherever the process dies, there is at the path what
\* was there before or a complete bundle; never one with an event missing,
\* and never one after Abort or an event that could not be written.
TargetIsWhole ==
  \/ target = before
  \/ ~spoiled /\ target = Bundle /\ step \in {"removing", "done", "crashed"}

\* The path has a whole bundle or what it had, after every step; and Close and
\* Abort after the first Close report what it reported and touch nothing: the
\* engine closes a trace again after it aborted it.
TargetStaysWhole == [][TargetIsWhole' /\ (step = "done" => UNCHANGED vars)]_vars

\* A bundle from anywhere that is found valid can be replayed: its events are
\* in order, its screens fit the VT model, and what its payloads decode to
\* stays within the memory that was planned for.
ValidIsSafe ==
  target # Nothing /\ Open(target).valid =>
    LET es == Open(target).events
    IN /\ Payload(es) <= MaxDecodedPayloadBytes /\ Len(es) <= MaxEventCount
       /\ \A i \in DOMAIN es :
            /\ es[i].t >= 0 /\ es[i].type \in Types
            /\ \A j \in DOMAIN es : i < j => es[i].t <= es[j].t
            /\ es[i].type = "resize" => es[i].rows > 0 /\ es[i].cols * es[i].rows <= MaxTerminalCells
       /\ target.manifest.cols * target.manifest.rows <= MaxTerminalCells

\* An archive that passes the check inflates to no more than the limit,
\* however its declared sizes add up in 64 bits.
AcceptedFits ==
  target # Nothing /\ Check(target.entries) = {} =>
    Total(SizesOf(target.entries)) <= MaxArchiveUncompressedBytes

\* What a reader accepts from anywhere it can also hold and replay.
ForeignIsSafe == TypeOK /\ ValidIsSafe /\ AcceptedFits
=============================================================================
