-------------------------------- MODULE Wrap --------------------------------
(***************************************************************************)
(* twee wrap (internal/codegen): the event loop between the user's         *)
(* terminal, the PTY of the wrapped command, a script recorder and a trace *)
(* recorder.  readPTY, readStdin and watchResize put events into one       *)
(* channel; the loop takes them, writes to the PTY itself, and finalizes   *)
(* everything once the PTY is at its end.                                  *)
(*                                                                         *)
(* What the user types is a sequence of numbered items; WrapDecoder has    *)
(* the bytes.  An output chunk carries the inputs that the child had read  *)
(* when it wrote the chunk, and whether it asks the terminal for a reply.  *)
(***************************************************************************)
EXTENDS Integers, Sequences, SequencesExt, FiniteSets

CONSTANTS
  Sessions,    \* the sessions to consider: options and environment
  InCap,       \* inputs the PTY holds for the child
  OutCap,      \* chunks the PTY holds for twee
  QueueCap     \* the events channel (32)

AllKinds == {"text", "enter", "esc", "unknown", "q", "m", "t", "s"}

(* trace: --trace-out; script: --script-out; whole: --network-capture, the  *)
(* trace ends with the session; waits: no --no-waits; compositor: the loop  *)
(* paints the screen and answers for the terminal.                          *)
AllOptions ==
  {o \in [trace : BOOLEAN, script : BOOLEAN, whole : BOOLEAN, waits : BOOLEAN,
          compositor : BOOLEAN] : o.whole => o.trace}

(* The bounds of the environment: what the user types and how much, chunks  *)
(* of the child, resizes of the user's terminal, whether files and reads    *)
(* may fail and whether a signal may cancel the context.                    *)
IsEnvironment(e) ==
  /\ e.kinds \subseteq AllKinds /\ {e.typed, e.chunks, e.resizes} \subseteq Nat
  /\ {e.fails, e.cancel} \subseteq BOOLEAN

ASSUME WrapAssumption ==
  /\ {InCap, OutCap, QueueCap} \subseteq Nat \ {0}
  /\ \A s \in Sessions : s.opts \in AllOptions /\ IsEnvironment(s.env)

VARIABLES
  opts, env,  \* how wrap was started, what the environment may do
  child,      \* "running" or "exited"
  slave,      \* somebody holds the PTY's slave side open
  inq, outq,  \* what the PTY holds: inputs (0 for a reply), chunks
  seen,       \* the inputs the child has read
  emitted,    \* number of chunks written
  exitPub,    \* Runner.ExitedCh is closed
  master,     \* the PTY master is open
  closer,     \* the goroutine of stopChild: "none", "kill", "close", "done"
  cancelled,  \* the context is cancelled
  reader,     \* readPTY: "read", "send", "last", "gone"
  held,       \* the event readPTY is about to send
  lastRead,   \* number of the last chunk read
  events,     \* the channel
  typed, resizes,  \* items typed, resizes so far
  pc,         \* the loop: "select", "handle", "record", "reply", "close", "done"
  todo,       \* decoded inputs not yet handled
  pendingEsc, \* the item whose escape byte Decoder.pending holds, or 0
  escape,     \* the escape timer is armed
  marker,     \* markerPrompt: "off", "empty", "label"
  trace, log, \* traceController.state and what the trace holds
  startedAt,  \* chunks read when the trace started
  script, ops,     \* scriptController.state and the operations recorded
  partial, active, \* scriptController.partial, hadSessionActivity
  waiting, outputSince, quiet, \* waitingForQuiet, outputSinceAction, quiet timer armed
  fed,        \* chunks fed to the model
  shown,      \* chunks on the user's screen
  redraw,     \* the redraw timer is armed
  runErr,     \* the first error, or "none"
  stopping, ptyDone,
  result,     \* what Run returns: "none", "ok", "status", "error"
  given,      \* history: the items written to the PTY
  acted       \* history: chunks fed when the wait was last armed

kernel   == <<opts, env, child, slave, inq, outq, seen, emitted>>
runner   == <<exitPub, master, closer, cancelled>>
feeders  == <<reader, held, lastRead, typed, resizes>>
decoder  == <<pendingEsc, escape, marker>>
tracing  == <<trace, log, startedAt>>
scripting == <<script, ops, partial, active>>
waits    == <<waiting, outputSince, quiet, acted>>
screen   == <<fed, shown, redraw>>
outcome  == <<runErr, stopping, ptyDone, result>>
vars == <<kernel, runner, feeders, events, pc, todo, decoder, tracing, scripting, waits,
          screen, outcome, given>>

recorders == <<tracing, scripting, waits>>

Seed(id) == [k |-> "seed", n |-> fed, id |-> id]
Resized  == [k |-> "resize", ids |-> {}, fed |-> fed]

Init ==
  /\ \E s \in Sessions : opts = s.opts /\ env = s.env
  /\ child = "running" /\ slave = TRUE /\ inq = <<>> /\ outq = <<>> /\ seen = {}
  /\ emitted = 0 /\ exitPub = FALSE /\ master = TRUE /\ closer = "none" /\ cancelled = FALSE
  /\ reader = "read" /\ held = <<>> /\ lastRead = 0 /\ events = <<>>
  /\ typed = 0 /\ resizes = 0 /\ pc = "select" /\ todo = <<>>
  /\ pendingEsc = 0 /\ escape = FALSE /\ marker = "off"
  /\ fed = 0 /\ shown = 0 /\ redraw = FALSE
  /\ trace = IF opts.trace THEN "recording" ELSE "idle"
  /\ log = IF opts.trace THEN <<Seed(0)>> ELSE <<>>
  /\ startedAt = 0
  /\ script = IF opts.script THEN "recording" ELSE "idle"
  /\ ops = IF opts.script THEN <<Resized>> ELSE <<>>
  /\ partial = FALSE /\ active = FALSE
  /\ waiting = FALSE /\ outputSince = FALSE /\ quiet = FALSE
  /\ runErr = "none" /\ stopping = FALSE /\ ptyDone = FALSE /\ result = "none" /\ given = {}
  /\ acted = 0

-----------------------------------------------------------------------------
(* The child, the PTY and the context.                                      *)

twee == <<runner, feeders, events, pc, todo, decoder, recorders, screen, outcome, given>>

ChildWrites ==
  /\ child = "running" /\ slave /\ emitted < env.chunks /\ Len(outq) < OutCap
  /\ \E asks \in BOOLEAN :
       outq' = Append(outq, [n |-> emitted + 1, seen |-> seen, asks |-> asks])
  /\ emitted' = emitted + 1
  /\ UNCHANGED <<opts, env, child, slave, inq, seen, twee>>

ChildReads ==
  /\ child = "running" /\ slave /\ inq # <<>>
  /\ seen' = seen \cup ({Head(inq)} \ {0}) /\ inq' = Tail(inq)
  /\ UNCHANGED <<opts, env, child, slave, outq, emitted, twee>>

ChildExits ==
  /\ child = "running" /\ child' = "exited"
  /\ UNCHANGED <<opts, env, slave, inq, outq, seen, emitted, twee>>

(* The last holder of the slave side is gone; a child may close it before   *)
(* it exits, and descendants may keep it open.                              *)
SlaveCloses ==
  /\ slave /\ slave' = FALSE
  /\ UNCHANGED <<opts, env, child, inq, outq, seen, emitted, twee>>

(* A signal to twee.  exec.Cmd then kills the child.                        *)
Cancel ==
  /\ env.cancel /\ ~cancelled /\ pc # "done" /\ cancelled' = TRUE
  /\ UNCHANGED <<kernel, exitPub, master, closer, feeders, events, pc, todo, decoder, recorders,
                 screen, outcome, given>>

KillByContext ==
  /\ cancelled /\ child = "running" /\ child' = "exited"
  /\ UNCHANGED <<opts, env, slave, inq, outq, seen, emitted, twee>>

PublishExit ==
  /\ child = "exited" /\ ~exitPub /\ exitPub' = TRUE
  /\ UNCHANGED <<kernel, master, closer, cancelled, feeders, events, pc, todo, decoder,
                 recorders, screen, outcome, given>>

(* Runner.Close in its own goroutine: end the child, then close the master. *)
CloserKills ==
  /\ closer = "kill" /\ child' = "exited" /\ closer' = "close"
  /\ UNCHANGED <<opts, env, slave, inq, outq, seen, emitted, exitPub, master, cancelled, feeders, events,
                 pc, todo, decoder, recorders, screen, outcome, given>>

CloserCloses ==
  /\ closer = "close" /\ master' = FALSE /\ closer' = "done"
  /\ UNCHANGED <<kernel, exitPub, cancelled, feeders, events, pc, todo, decoder, recorders,
                 screen, outcome, given>>

-----------------------------------------------------------------------------
(* The goroutines that feed the channel.                                    *)

loop == <<pc, todo, decoder, recorders, screen, outcome, given>>

Output(c) == [k |-> "output", chunk |-> c]

(* readPTY: a chunk; the end of the PTY, or a master that was closed; an    *)
(* error of another kind is sent before the end.                            *)
ReadChunk ==
  /\ reader = "read" /\ master /\ outq # <<>>
  /\ held' = <<Output(Head(outq))>> /\ outq' = Tail(outq) /\ lastRead' = Head(outq).n
  /\ reader' = "send"
  /\ UNCHANGED <<opts, env, child, slave, inq, seen, emitted, runner, typed, resizes, events, loop>>

ReadEnd ==
  /\ reader = "read"
  /\ \/ (~master \/ (~slave /\ outq = <<>>)) /\ held' = <<[k |-> "done"]>>
     \/ env.fails /\ held' = <<[k |-> "fatal"], [k |-> "done"]>>
  /\ reader' = "last"
  /\ UNCHANGED <<kernel, runner, lastRead, typed, resizes, events, loop>>

Sent ==
  /\ held # <<>> /\ events' = Append(events, Head(held)) /\ held' = Tail(held)
  /\ reader' = IF held' # <<>> THEN "last" ELSE IF reader = "send" THEN "read" ELSE "gone"
  /\ UNCHANGED <<kernel, runner, lastRead, typed, resizes, pc, todo, decoder, trace, startedAt,
                 scripting, waits, screen, outcome, given>>

(* Variant of SendEvent: the reader records its output itself.              *)
SendEventRecorded ==
  /\ Len(events) < QueueCap /\ Sent
  /\ log' = IF trace = "recording" /\ reader = "send"
              THEN Append(log, [k |-> "output", n |-> Head(held).chunk.n,
                                seen |-> Head(held).chunk.seen])
              ELSE log

SendEvent == Len(events) < QueueCap /\ Sent /\ UNCHANGED log

(* readStdin and watchResize, until auxDone.                                *)
Type(kind) ==
  /\ ~ptyDone /\ typed < env.typed /\ Len(events) < QueueCap
  /\ typed' = typed + 1
  /\ events' = Append(events, [k |-> "input", item |-> [k |-> kind, id |-> typed + 1]])
  /\ UNCHANGED <<kernel, runner, reader, held, lastRead, resizes, loop>>

HostResizes ==
  /\ ~ptyDone /\ resizes < env.resizes /\ Len(events) < QueueCap
  /\ resizes' = resizes + 1 /\ events' = Append(events, [k |-> "resize"])
  /\ UNCHANGED <<kernel, runner, reader, held, lastRead, typed, loop>>

-----------------------------------------------------------------------------
(* The recorders.                                                           *)

(* runErr keeps its first error.                                            *)
Fails(e) == IF runErr = "none" THEN e ELSE runErr

Recorded(item) == IF trace = "recording" THEN Append(log, item) ELSE log

(* traceController.recordOutput.                                            *)
RecordedOutput(c) ==
  IF trace = "recording" /\ c.n > startedAt
    THEN Append(log, [k |-> "output", n |-> c.n, seen |-> c.seen]) ELSE log

Input(item) == [k |-> "input", id |-> item.id]

RecordedInput(item) == Recorded(Input(item))

(* recorder.Type joins texts; keys, pastes and resizes stand alone.         *)
Operation(item) == [k |-> item.k, ids |-> {item.id}, fed |-> fed]

Scripted(item) ==
  IF script # "recording" \/ item.k = "unknown" THEN ops
  ELSE IF item.k = "text" /\ ops # <<>> /\ Last(ops).k = "text"
    THEN [ops EXCEPT ![Len(ops)].ids = @ \cup {item.id}]
    ELSE Append(ops, Operation(item))

(* The wait that belongs after the last action, when output followed it.    *)
Wait == [k |-> "wait", ids |-> {}, fed |-> fed, acted |-> acted]

WithPendingWait ==
  IF opts.waits /\ waiting /\ outputSince /\ script = "recording" THEN Append(ops, Wait) ELSE ops

ClearQuiet == waiting' = FALSE /\ outputSince' = FALSE /\ quiet' = FALSE /\ UNCHANGED acted

ArmAfterAction ==
  IF ~opts.waits THEN UNCHANGED waits
  ELSE waiting' = TRUE /\ outputSince' = FALSE /\ quiet' = FALSE /\ acted' = fed

(* Variant of StopChild: quitting waits for the child to end by itself.     *)
StopChildGently == stopping' = TRUE /\ UNCHANGED closer

StopChild == stopping' = TRUE /\ closer' = IF closer = "none" THEN "kill" ELSE closer

(* redraw paints at once and disarms the timer.                             *)
Redraw == shown' = fed /\ redraw' = FALSE /\ UNCHANGED fed

(* Variant of ScheduleRedraw: no timer while the marker prompt is shown.    *)
ScheduleRedrawUnprompted ==
  IF opts.compositor THEN redraw' = (redraw \/ marker = "off") /\ UNCHANGED shown
                     ELSE shown' = fed' /\ UNCHANGED redraw

ScheduleRedraw ==
  IF opts.compositor THEN redraw' = TRUE /\ UNCHANGED shown
                     ELSE shown' = fed' /\ UNCHANGED redraw

Succeeds == IF env.fails THEN BOOLEAN ELSE {TRUE}
EndOf(ok) == IF ok THEN "finalized" ELSE "failed"

-----------------------------------------------------------------------------
(* The loop: one case of the select.                                        *)

others == <<exitPub, master, cancelled>>

Take(k) ==
  /\ pc = "select" /\ ~ptyDone /\ events # <<>> /\ Head(events).k = k
  /\ events' = Tail(events)

(* outputEvent: record, feed, then answer what the child asked for.         *)
TakeOutput ==
  /\ Take("output")
  /\ LET c == Head(events).chunk IN
       /\ log' = RecordedOutput(c) /\ fed' = c.n
       /\ pc' = IF c.asks /\ opts.compositor THEN "reply" ELSE "select"
       /\ ScheduleRedraw
  /\ IF waiting THEN outputSince' = TRUE /\ quiet' = TRUE ELSE UNCHANGED <<outputSince, quiet>>
  /\ active' = TRUE
  /\ UNCHANGED <<kernel, runner, feeders, todo, decoder, trace, startedAt, script, ops, partial,
                 waiting, acted, outcome, given>>

WriteFails == ~master \/ ~slave

(* The reply goes to the PTY; the write blocks while the PTY is full.       *)
WriteReply ==
  /\ pc = "reply" /\ pc' = "select"
  /\ \/ WriteFails /\ runErr' = Fails("write") /\ UNCHANGED inq
     \/ ~WriteFails /\ Len(inq) < InCap /\ inq' = Append(inq, 0) /\ UNCHANGED runErr
  /\ log' = Recorded([k |-> "reply"])
  /\ UNCHANGED <<opts, env, child, slave, outq, seen, emitted, runner, feeders, events, todo, decoder,
                 trace, startedAt, scripting, waits, screen, stopping, ptyDone, result, given>>

(* Decoder.Decode: a lone escape byte stays pending until more arrives.     *)
Decoded(item) ==
  (IF pendingEsc # 0 THEN <<[k |-> "esc", id |-> pendingEsc]>> ELSE <<>>)
    \o (IF item.k = "esc" THEN <<>> ELSE <<item>>)

TakeInput ==
  /\ Take("input") /\ escape' = FALSE
  /\ LET item == Head(events).item IN
       /\ todo' = Decoded(item)
       /\ pendingEsc' = IF item.k = "esc" THEN item.id ELSE 0
  /\ pc' = "handle"
  /\ UNCHANGED <<kernel, runner, feeders, marker, recorders, screen, outcome, given>>

(* resizeEvent; runner.Resize fails once the exit is known.                 *)
TakeResize ==
  /\ Take("resize")
  /\ \/ /\ ~exitPub
        /\ ops' = IF script = "recording" THEN Append(ops, Resized) ELSE ops
        /\ log' = Recorded([k |-> "resize"])
        /\ ArmAfterAction /\ Redraw
        /\ UNCHANGED <<closer, runErr, stopping>>
     \/ /\ child = "exited"
        /\ runErr' = Fails("resize") /\ StopChild
        /\ UNCHANGED <<log, ops, waits, screen>>
  /\ active' = TRUE
  /\ UNCHANGED <<kernel, others, feeders, pc, todo, decoder, trace, startedAt, script, partial,
                 ptyDone, result, given>>

TakeFatal ==
  /\ Take("fatal") /\ runErr' = Fails("read") /\ StopChild
  /\ UNCHANGED <<kernel, others, feeders, pc, todo, decoder, recorders, screen, ptyDone, result,
                 given>>

TakeDone ==
  /\ Take("done") /\ ptyDone' = TRUE
  /\ IF redraw THEN Redraw ELSE UNCHANGED screen
  /\ UNCHANGED <<kernel, runner, feeders, pc, todo, decoder, recorders, runErr, stopping, result,
                 given>>

RedrawFires ==
  /\ pc = "select" /\ ~ptyDone /\ redraw /\ Redraw
  /\ UNCHANGED <<kernel, runner, feeders, events, pc, todo, decoder, recorders, outcome, given>>

QuietFires ==
  /\ pc = "select" /\ ~ptyDone /\ quiet
  /\ ops' = WithPendingWait /\ ClearQuiet
  /\ UNCHANGED <<kernel, runner, feeders, events, pc, todo, decoder, tracing, script, partial,
                 active, screen, outcome, given>>

(* The escape byte was a key: it ends the marker prompt.                    *)
EscapeFires ==
  /\ pc = "select" /\ ~ptyDone /\ escape /\ escape' = FALSE
  /\ IF marker # "off" /\ pendingEsc # 0
       THEN pendingEsc' = 0 /\ marker' = "off" /\ Redraw
       ELSE UNCHANGED <<pendingEsc, marker, screen>>
  /\ UNCHANGED <<kernel, runner, feeders, events, pc, todo, recorders, outcome, given>>

ContextDone ==
  /\ pc = "select" /\ ~ptyDone /\ cancelled
  /\ runErr' = "context" /\ StopChild
  /\ UNCHANGED <<kernel, others, feeders, events, pc, todo, decoder, recorders, screen, ptyDone,
                 result, given>>

-----------------------------------------------------------------------------
(* handleInput.                                                             *)

Forwards == ~ptyDone  \* after the loop, what was pending is not forwarded

Handle(k) == pc = "handle" /\ todo # <<>> /\ Head(todo).k = k /\ todo' = Tail(todo)

(* The prompt takes every input while it is active, commands included.      *)
Prompt ==
  /\ pc = "handle" /\ todo # <<>> /\ marker # "off" /\ todo' = Tail(todo)
  /\ LET k == Head(todo).k IN
       /\ marker' = CASE k = "text" -> "label"
                      [] k = "esc" -> "off"
                      [] k = "enter" /\ marker = "label" -> "off"
                      [] OTHER -> marker
       /\ log' = IF k = "enter" /\ marker = "label" THEN Recorded([k |-> "marker"]) ELSE log
  /\ Redraw
  /\ UNCHANGED <<kernel, runner, feeders, events, pc, pendingEsc, escape, trace, startedAt,
                 scripting, waits, outcome, given>>

Quit ==
  /\ Handle("q") /\ marker = "off" /\ Redraw /\ StopChild
  /\ UNCHANGED <<kernel, others, feeders, events, pc, decoder, recorders, runErr, ptyDone,
                 result, given>>

StartMarker ==
  /\ Handle("m") /\ marker = "off" /\ Redraw
  /\ marker' = IF trace = "recording" THEN "empty" ELSE "off"
  /\ UNCHANGED <<kernel, runner, feeders, events, pc, pendingEsc, escape, recorders, outcome,
                 given>>

(* traceController.start and close; each may fail, for good.                *)
ToggleTrace ==
  /\ Handle("t") /\ marker = "off" /\ Redraw
  /\ \E ok \in Succeeds :
       IF opts.whole THEN UNCHANGED <<tracing, runErr>>
       ELSE /\ trace' = CASE trace = "idle"      -> IF ok THEN "recording" ELSE "failed"
                          [] trace = "recording" -> EndOf(ok)
                          [] OTHER -> trace
            /\ log' = IF trace' = "recording" THEN <<Seed(Head(todo).id)>> ELSE log
            /\ startedAt' = IF trace' = "recording" THEN lastRead ELSE startedAt
            /\ runErr' = IF trace' = "failed" /\ trace # "failed" THEN Fails("trace") ELSE runErr
  /\ UNCHANGED <<kernel, runner, feeders, events, pc, decoder, scripting, waits, stopping,
                 ptyDone, result, given>>

PartialStart == active

ToggleScript ==
  /\ Handle("s") /\ marker = "off" /\ Redraw
  /\ \E ok \in Succeeds :
       /\ script' = CASE script = "idle"      -> IF ok THEN "recording" ELSE "failed"
                      [] script = "recording" -> EndOf(ok)
                      [] OTHER -> script
       /\ runErr' = IF script' = "failed" /\ script # "failed" THEN Fails("script") ELSE runErr
  /\ IF script = "recording" THEN ops' = WithPendingWait /\ ClearQuiet
     ELSE UNCHANGED waits /\ ops' = IF script' = "recording" THEN <<Resized>> ELSE ops
  /\ partial' = IF script = "idle" THEN PartialStart ELSE partial
  /\ UNCHANGED <<kernel, runner, feeders, events, pc, decoder, tracing, active, stopping,
                 ptyDone, result, given>>

(* Anything else is forwarded: the write blocks while the PTY is full.      *)
Forward ==
  /\ pc = "handle" /\ todo # <<>> /\ marker = "off"
  /\ Head(todo).k \in {"text", "enter", "esc", "unknown"} /\ pc' = "record"
  /\ \/ ~Forwards /\ UNCHANGED <<inq, given, runErr>>
     \/ Forwards /\ WriteFails /\ runErr' = Fails("write") /\ UNCHANGED <<inq, given>>
     \/ /\ Forwards /\ ~WriteFails /\ Len(inq) < InCap
        /\ inq' = Append(inq, Head(todo).id) /\ given' = given \cup {Head(todo)}
        /\ UNCHANGED runErr
  /\ UNCHANGED <<opts, env, child, slave, outq, seen, emitted, runner, feeders, events, todo, decoder,
                 recorders, screen, stopping, ptyDone, result>>

RecordForwarded ==
  /\ pc = "record" /\ pc' = "handle" /\ todo' = Tail(todo)
  /\ log' = IF Forwards THEN RecordedInput(Head(todo)) ELSE log
  /\ ops' = Scripted(Head(todo))
  /\ IF Head(todo).k = "unknown" THEN UNCHANGED waits ELSE ArmAfterAction
  /\ active' = TRUE
  /\ UNCHANGED <<kernel, runner, feeders, events, decoder, trace, startedAt, script, partial,
                 screen, outcome, given>>

(* All inputs of the chunk are handled.                                     *)
Handled ==
  /\ pc = "handle" /\ todo = <<>> /\ ~ptyDone /\ pc' = "select"
  /\ escape' = (marker # "off" /\ pendingEsc # 0)
  /\ UNCHANGED <<kernel, runner, feeders, events, todo, pendingEsc, marker, recorders, screen,
                 outcome, given>>

-----------------------------------------------------------------------------
(* After the loop.                                                          *)

(* Wait for the child's status, then flush the decoder.                     *)
LoopEnds ==
  /\ pc = "select" /\ ptyDone /\ exitPub /\ pc' = "handle"
  /\ todo' = IF pendingEsc # 0 THEN <<[k |-> "esc", id |-> pendingEsc]>> ELSE <<>>
  /\ pendingEsc' = 0
  /\ UNCHANGED <<kernel, runner, feeders, events, escape, marker, recorders, screen, outcome,
                 given>>

(* The last wait, the last frame, the exit; then both recorders close.  A   *)
(* network capture that cannot be attached aborts the trace.                *)
Finalize ==
  /\ pc = "handle" /\ todo = <<>> /\ ptyDone /\ pc' = "close"
  /\ ops' = WithPendingWait /\ ClearQuiet
  /\ IF redraw THEN Redraw ELSE UNCHANGED screen
  /\ log' = Recorded([k |-> "exit"])
  /\ \E okScript \in Succeeds, okTrace \in Succeeds :
       /\ script' = IF script = "recording" THEN EndOf(okScript) ELSE script
       /\ trace' = IF trace = "recording" THEN EndOf(okTrace) ELSE trace
       /\ runErr' = IF okScript /\ okTrace THEN runErr ELSE Fails("finalize")
  /\ closer' = IF closer = "none" THEN "kill" ELSE closer
  /\ UNCHANGED <<kernel, others, feeders, events, todo, decoder, startedAt, partial, active,
                 stopping, ptyDone, result, given>>

(* runner.Close returns; a natural exit is reported as the status.          *)
Return ==
  /\ pc = "close" /\ closer = "done" /\ pc' = "done"
  /\ result' = IF runErr # "none" THEN "error" ELSE IF stopping THEN "ok" ELSE "status"
  /\ UNCHANGED <<kernel, runner, feeders, events, todo, decoder, recorders, screen, runErr,
                 stopping, ptyDone, given>>

Over == pc = "done" /\ UNCHANGED vars

Loop ==
  \/ TakeOutput \/ WriteReply \/ TakeInput \/ TakeResize \/ TakeFatal \/ TakeDone
  \/ RedrawFires \/ QuietFires \/ EscapeFires \/ ContextDone
  \/ Prompt \/ Quit \/ StartMarker \/ ToggleTrace \/ ToggleScript \/ Forward
  \/ RecordForwarded \/ Handled
  \/ LoopEnds \/ Finalize \/ Return

Next ==
  \/ ChildWrites \/ ChildReads \/ ChildExits \/ SlaveCloses \/ Cancel \/ KillByContext
  \/ PublishExit \/ CloserKills \/ CloserCloses
  \/ ReadChunk \/ ReadEnd \/ SendEvent \/ HostResizes \/ \E k \in env.kinds : Type(k)
  \/ Loop \/ Over

(* Goroutines and timers run.  The child owes nothing; once it is killed,   *)
(* its group is gone and the slave side closes.                             *)
Fairness ==
  /\ WF_vars(Loop) /\ WF_vars(ContextDone \/ TakeDone \/ TakeFatal)
  /\ WF_vars(ReadChunk) /\ WF_vars(ReadEnd) /\ WF_vars(SendEvent)
  /\ WF_vars(PublishExit) /\ WF_vars(CloserKills) /\ WF_vars(CloserCloses)
  /\ WF_vars(KillByContext)
  /\ WF_vars((cancelled \/ closer # "none") /\ child = "exited" /\ SlaveCloses)

Spec == Init /\ [][Next]_vars /\ Fairness

-----------------------------------------------------------------------------
(* Properties.                                                              *)

Ids == 1..env.typed

TypeOK ==
  /\ opts \in AllOptions /\ child \in {"running", "exited"}
  /\ {slave, exitPub, master, cancelled, escape, waiting, outputSince, quiet, redraw, stopping,
      ptyDone} \subseteq BOOLEAN
  /\ Len(inq) <= InCap /\ Len(outq) <= OutCap /\ Len(events) <= QueueCap
  /\ pc \in {"select", "handle", "record", "reply", "close", "done"}
  /\ pendingEsc \in Ids \cup {0}
  /\ seen \subseteq {g.id : g \in given}
  /\ trace \in {"idle", "recording", "finalized", "failed"}
  /\ script \in {"idle", "recording", "finalized", "failed"}
  /\ result \in {"none", "ok", "status", "error"}
  /\ closer \in {"none", "kill", "close", "done"}

Recorders == pc # "record"  \* no input is between the PTY and the recorders

(* What a recording trace holds of the user's input is exactly what the     *)
(* child was sent since the trace started, bytes the decoder does not know  *)
(* and a flushed escape key included; more only when a write failed.        *)
InputsRecorded ==
  (Recorders /\ trace = "recording") =>
    LET start == Head(log).id
        kept  == {log[i].id : i \in {j \in 1..Len(log) : log[j].k = "input"}}
        sent  == {i \in {g.id : g \in given} : i > start}
    IN  sent \subseteq kept /\ (runErr = "none" => kept = sent)

(* A script that does not say it is partial repeats the whole session up to *)
(* now: nothing came from the child and nothing was sent to it before the   *)
(* script began, and it holds every input sent but those it cannot express. *)
ScriptWholeUnlessPartial ==
  (Recorders /\ ~ptyDone /\ script = "recording" /\ ~partial) =>
    LET kept == UNION {ops[i].ids : i \in 1..Len(ops)}
        sent == {g.id : g \in {h \in given : h.k # "unknown"}}
    IN  Head(ops).fed = 0 /\ sent \subseteq kept /\ (runErr = "none" => kept = sent)

(* The trace never shows an effect before its cause: output the child wrote *)
(* after it had read an input comes after the record of that input, in      *)
(* whatever order the goroutines deliver their events.                      *)
CauseBeforeEffect ==
  \A j \in 1..Len(log) : log[j].k = "output" =>
    \A i \in log[j].seen : i > Head(log).id =>
      \E k \in 1..(j - 1) : log[k].k = "input" /\ log[k].id = i

(* A recorded wait has something to wait for: an action came before it, and *)
(* output came after that action.  No wait follows a wait.                  *)
WaitsAreEarned ==
  \A j \in 1..Len(ops) : ops[j].k = "wait" =>
    j > 1 /\ ops[j - 1].k # "wait" /\ ops[j].fed > ops[j].acted

(* Whatever was fed is on the user's screen or a redraw is due; wrap does   *)
(* not return before the last output of the child was painted.              *)
ScreenCatchesUp == shown = fed \/ (redraw /\ pc \notin {"close", "done"})

(* A trace that was recorded from the start and saved holds all the child   *)
(* wrote, in order, and then its exit, when the session ended by itself.    *)
WholeTraceComplete ==
  (pc = "done" /\ opts.trace /\ trace = "finalized" /\ runErr = "none" /\ ~stopping
     /\ \E i \in 1..Len(log) : log[i].k = "exit") =>
    /\ Last(log).k = "exit"
    /\ LET outputs == {j \in 1..Len(log) : log[j].k = "output"}
       IN  /\ {log[j].n : j \in outputs} = 1..emitted
           /\ \A i, j \in outputs : i < j => log[i].n < log[j].n

(* The PTY is drained whatever else happens: the loop never waits for the   *)
(* child to read while the child cannot write, with every buffer between    *)
(* them full.  design.md: "Avoid deadlocks from full PTY buffers."          *)
BuffersNeverAllFull ==
  ~(/\ pc \in {"handle", "reply"} /\ Len(inq) = InCap /\ ~WriteFails
    /\ pc = "handle" => todo # <<>> /\ marker = "off" /\ Head(todo).k \in {"text", "enter"}
    /\ reader = "send" /\ Len(events) = QueueCap /\ Len(outq) = OutCap)

(* What twee wrap records is true: trace and script hold what was sent and  *)
(* fed, in an order of causes, and are whole where they say so.             *)
RecordingsAreTrue ==
  /\ TypeOK /\ InputsRecorded /\ ScriptWholeUnlessPartial
  /\ CauseBeforeEffect /\ WaitsAreEarned /\ WholeTraceComplete

(* Once the user asked to quit or the context is cancelled, wrap returns.   *)
QuitEnds == (stopping \/ cancelled) ~> pc = "done"
=============================================================================
