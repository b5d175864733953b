---------------------------- MODULE TermSession ----------------------------
(***************************************************************************)
(* One engine.Term session: the goroutines that call it (RPC handlers, the *)
(* daemon's exit watcher, the library API), the output pump, the child     *)
(* behind the PTY and the trace recorder, interleaved between every lock   *)
(* operation of internal/engine, internal/pump and internal/trace.         *)
(*                                                                         *)
(* Locks, outermost first: Term.inputMu, Term.cfgMu, Pump.eventMu.  The    *)
(* innermost Pump.mu guards sections that take no other modelled lock and  *)
(* do not block, so each of them is one step here.                         *)
(*                                                                         *)
(* Data is abstracted to what the properties tell apart.  An output chunk  *)
(* is the version of the PTY window size its writer had; the terminal      *)
(* model is the sequence of operations applied to it; an event in a trace  *)
(* names the operation or the input it records by its position.            *)
(***************************************************************************)
EXTENDS Naturals, Sequences, FiniteSets

CONSTANTS
  Callers,       \* goroutines that call Term methods
  PumpThread,    \* the goroutine of Pump.Run
  NoOne,         \* owner of a free mutex
  WholeSession,  \* TRUE: Config.WholeSessionTrace is set
  ReapTimesOut,  \* TRUE: reaping the child may take longer than two seconds
  MaxChunks,     \* bound: output chunks the child writes
  MaxOps,        \* bound: operations the callers begin
  InputCap       \* inputs the PTY buffers before a write blocks

ASSUME SessionAssumption ==
  /\ PumpThread \notin Callers
  /\ NoOne \notin Callers \cup {PumpThread}
  /\ WholeSession \in BOOLEAN /\ ReapTimesOut \in BOOLEAN
  /\ MaxChunks \in Nat /\ MaxOps \in Nat /\ InputCap \in Nat \ {0}

VARIABLES
  inputMu, cfgMu, eventMu,  \* owner of each mutex
  op, pc, held,             \* per caller: operation, next step, trace it read
  opsBegun,                 \* operations begun so far
  child,                    \* "alive", "exited", "published" (ExitedCh closed)
  emitted,                  \* chunks the child has written so far
  ptyOut, ptyIn,            \* unread output chunks, number of unread inputs
  winsize,                  \* version of the PTY window size
  master,                   \* TRUE until the PTY master is closed
  pump, chunk, chunkHook,   \* pump step, the chunk it read, the hook it loaded
  screen,                   \* operations applied to the VT model, in order
  traces,                   \* every trace ever created
  tr, hook,                 \* Term.tr and Pump.onOutput (0 is nil)
  finalizedTrace,           \* trace behind Term.finalizedTracePath (0 is "")
  finalized,                \* Term.finalized
  drainOnce, finalizeOnce,  \* "idle", "running", "done"
  sent                      \* history: Term.tr when each input was written

locks   == <<inputMu, cfgMu, eventMu>>
callers == <<op, pc, held, opsBegun>>
childVs == <<child, emitted, ptyOut, ptyIn, winsize, master>>
pumpVs  == <<pump, chunk, chunkHook, screen>>
recVs   == <<traces, tr, hook, finalizedTrace, sent>>
onces   == <<finalized, drainOnce, finalizeOnce>>
vars    == <<locks, callers, childVs, pumpVs, recVs, onces>>

-----------------------------------------------------------------------------
Ops    == {"none", "input", "resize", "mark", "enable", "disable",
           "finalize", "watch"}
Steps  == {"idle", "write", "readTr", "log", "commit", "logResize", "mark",
           "lockInput", "lockCfg", "closeExit", "closePublish", "closeHook",
           "newTrace", "setHook", "beginFinalize", "drain", "kill", "reap",
           "joinPump"}
Events == [ev : {"out", "resize", "in", "marker", "exit"}, at : Nat]
ModelOps == [ev : {"out", "resize"}, size : Nat]
Traces == [seed : Nat, hooked : Nat, log : Seq(Events),
           state : {"open", "published", "failed"}, closer : Ops]

(* trace.New, then the seed written from a snapshot of the model.           *)
NewTrace == [seed |-> Len(screen), hooked |-> Len(screen),
             log |-> <<>>, state |-> "open", closer |-> "none"]

(* Variant: the closed flag is not looked at.                               *)
RecordAfterClose(i, e) ==
  IF i # 0 THEN [traces EXCEPT ![i].log = Append(@, e)] ELSE traces

(* Trace.WriteOutput, WriteInput, ...: nothing is written to a nil trace or *)
(* to a closed one.                                                         *)
Record(i, e) ==
  IF i # 0 /\ traces[i].state = "open"
  THEN [traces EXCEPT ![i].log = Append(@, e)]
  ELSE traces

Goto(c, step) == pc' = [pc EXCEPT ![c] = step]

Return(c) == /\ pc' = [pc EXCEPT ![c] = "idle"]
             /\ op' = [op EXCEPT ![c] = "none"]
             /\ held' = [held EXCEPT ![c] = 0]

Begin(c, name, step) ==
  /\ pc[c] = "idle" /\ opsBegun < MaxOps
  /\ opsBegun' = opsBegun + 1
  /\ op' = [op EXCEPT ![c] = name]
  /\ Goto(c, step)
  /\ held' = held

Init ==
  /\ inputMu = NoOne /\ cfgMu = NoOne /\ eventMu = NoOne
  /\ op = [c \in Callers |-> "none"]
  /\ pc = [c \in Callers |-> "idle"]
  /\ held = [c \in Callers |-> 0]
  /\ opsBegun = 0
  /\ child = "alive" /\ emitted = 0 /\ ptyOut = <<>> /\ ptyIn = 0
  /\ winsize = 0 /\ master = TRUE
  /\ pump = "read" /\ chunk = 0 /\ chunkHook = 0 /\ screen = <<>>
  /\ traces = IF WholeSession THEN <<NewTrace>> ELSE <<>>
  /\ tr = Len(traces) /\ hook = Len(traces) /\ finalizedTrace = 0
  /\ finalized = FALSE /\ drainOnce = "idle" /\ finalizeOnce = "idle"
  /\ sent = <<>>

-----------------------------------------------------------------------------
(* The child and the kernel's side of the PTY.                              *)

ChildEmit ==
  /\ child = "alive" /\ emitted < MaxChunks
  /\ emitted' = emitted + 1
  /\ ptyOut' = Append(ptyOut, winsize)
  /\ UNCHANGED <<locks, callers, child, ptyIn, winsize, master, pumpVs, recVs, onces>>

ChildRead ==
  /\ child = "alive" /\ ptyIn > 0
  /\ ptyIn' = ptyIn - 1
  /\ UNCHANGED <<locks, callers, child, emitted, ptyOut, winsize, master, pumpVs,
                 recVs, onces>>

ChildExit ==
  /\ child = "alive"
  /\ child' = "exited"
  /\ UNCHANGED <<locks, callers, emitted, ptyOut, ptyIn, winsize, master, pumpVs,
                 recVs, onces>>

(* The goroutine of localBackend.wait closes ExitedCh.                      *)
PublishExit ==
  /\ child = "exited"
  /\ child' = "published"
  /\ UNCHANGED <<locks, callers, emitted, ptyOut, ptyIn, winsize, master, pumpVs,
                 recVs, onces>>

-----------------------------------------------------------------------------
(* Pump.Run.                                                                *)

PumpRead ==
  /\ pump = "read" /\ master /\ ptyOut # <<>>
  /\ chunk' = Head(ptyOut) /\ ptyOut' = Tail(ptyOut)
  /\ pump' = "admit"
  /\ UNCHANGED <<locks, callers, child, emitted, ptyIn, winsize, master, chunkHook,
                 screen, recVs, onces>>

(* A closed master fails the read even when the PTY still buffers output.   *)
PumpEOF ==
  /\ pump = "read"
  /\ ~master \/ (child # "alive" /\ ptyOut = <<>>)
  /\ pump' = "done"
  /\ UNCHANGED <<locks, callers, childVs, chunk, chunkHook, screen, recVs, onces>>

(* Variant: output is admitted without eventMu.                             *)
PumpFeedUnordered ==
  /\ pump = "admit"
  /\ screen' = Append(screen, [ev |-> "out", size |-> chunk])
  /\ chunkHook' = hook
  /\ pump' = "hook"
  /\ UNCHANGED <<locks, callers, childVs, chunk, recVs, onces>>

PumpFeed ==
  /\ pump = "admit" /\ eventMu = NoOne
  /\ eventMu' = PumpThread
  /\ screen' = Append(screen, [ev |-> "out", size |-> chunk])
  /\ chunkHook' = hook
  /\ pump' = "hook"
  /\ UNCHANGED <<inputMu, cfgMu, callers, childVs, chunk, recVs, onces>>

PumpHook ==
  /\ pump = "hook"
  /\ traces' = Record(chunkHook, [ev |-> "out", at |-> Len(screen)])
  /\ eventMu' = NoOne
  /\ chunkHook' = 0 /\ chunk' = 0
  /\ pump' = "read"
  /\ UNCHANGED <<inputMu, cfgMu, callers, childVs, screen, tr, hook, finalizedTrace,
                 sent, onces>>

PumpNext == PumpRead \/ PumpEOF \/ PumpFeed \/ PumpHook

-----------------------------------------------------------------------------
(* Type, Key and Paste: write to the PTY, then book the input.  An input    *)
(* that cannot be encoded returns before it changes anything.               *)

BeginLocked(c, name, step) ==
  /\ Begin(c, name, step)
  /\ inputMu = NoOne /\ inputMu' = c
  /\ UNCHANGED <<cfgMu, eventMu, childVs, pumpVs, recVs, onces>>

BeginInput(c)  == BeginLocked(c, "input", "write")
BeginResize(c) == BeginLocked(c, "resize", "readTr")
BeginMark(c)   == BeginLocked(c, "mark", "readTr")

(* writeAll blocks while the PTY's input buffer is full.                    *)
WriteInput(c) ==
  /\ pc[c] = "write" /\ master /\ ptyIn < InputCap
  /\ ptyIn' = ptyIn + 1
  /\ sent' = Append(sent, tr)
  /\ Goto(c, "readTr")
  /\ UNCHANGED <<locks, op, held, opsBegun, child, emitted, ptyOut, winsize, master,
                 pumpVs, traces, tr, hook, finalizedTrace, onces>>

WriteFails(c) ==
  /\ pc[c] = "write"
  /\ ~master \/ child # "alive"
  /\ Return(c) /\ inputMu' = NoOne
  /\ UNCHANGED <<cfgMu, eventMu, opsBegun, childVs, pumpVs, recVs, onces>>

(* tr := t.tr under cfgMu.  A marker needs an active trace.                 *)
ReadTr(c) ==
  /\ pc[c] = "readTr" /\ cfgMu = NoOne
  /\ IF op[c] = "mark" /\ tr = 0
     THEN Return(c) /\ inputMu' = NoOne
     ELSE /\ held' = [held EXCEPT ![c] = tr]
          /\ Goto(c, CASE op[c] = "resize" -> "commit"
                       [] op[c] = "mark"   -> "mark"
                       [] OTHER            -> "log")
          /\ UNCHANGED <<op, inputMu>>
  /\ UNCHANGED <<cfgMu, eventMu, opsBegun, childVs, pumpVs, recVs, onces>>

LogInput(c) ==
  /\ pc[c] = "log"
  /\ traces' = Record(held[c], [ev |-> "in", at |-> Len(sent)])
  /\ Return(c) /\ inputMu' = NoOne
  /\ UNCHANGED <<cfgMu, eventMu, opsBegun, childVs, pumpVs, tr, hook, finalizedTrace,
                 sent, onces>>

-----------------------------------------------------------------------------
(* Resize through Pump.CommitResize.                                        *)

(* The size the model has after the operations s.                           *)
SizeAfter(s) ==
  LET resizes == SelectSeq(s, LAMBDA o : o.ev = "resize")
  IN IF resizes = <<>> THEN 0 ELSE resizes[Len(resizes)].size

(* Variant: the child learns the size before the model is locked.           *)
CommitResizeEarly(c) ==
  /\ pc[c] = "commit" /\ child = "alive" /\ master
  /\ \/ /\ winsize = SizeAfter(screen)
        /\ winsize' = winsize + 1
        /\ UNCHANGED <<eventMu, screen, pc>>
     \/ /\ winsize > SizeAfter(screen) /\ eventMu = NoOne /\ eventMu' = c
        /\ screen' = Append(screen, [ev |-> "resize", size |-> winsize])
        /\ Goto(c, "logResize")
        /\ UNCHANGED winsize
  /\ UNCHANGED <<inputMu, cfgMu, op, held, opsBegun, child, emitted, ptyOut, ptyIn,
                 master, pump, chunk, chunkHook, recVs, onces>>

(* Variant: eventMu is released before the resize is recorded.              *)
CommitResizeUnordered(c) ==
  /\ pc[c] = "commit" /\ eventMu = NoOne
  /\ child = "alive" /\ master
  /\ winsize' = winsize + 1
  /\ screen' = Append(screen, [ev |-> "resize", size |-> winsize + 1])
  /\ Goto(c, "logResize")
  /\ UNCHANGED <<locks, op, held, opsBegun, child, emitted, ptyOut, ptyIn,
                 master, pump, chunk, chunkHook, recVs, onces>>

(* PTY size, SIGWINCH and model size change in one section of Pump.mu.      *)
CommitResize(c) ==
  /\ pc[c] = "commit" /\ eventMu = NoOne
  /\ child = "alive" /\ master
  /\ eventMu' = c
  /\ winsize' = winsize + 1
  /\ screen' = Append(screen, [ev |-> "resize", size |-> winsize + 1])
  /\ Goto(c, "logResize")
  /\ UNCHANGED <<inputMu, cfgMu, op, held, opsBegun, child, emitted, ptyOut, ptyIn,
                 master, pump, chunk, chunkHook, recVs, onces>>

(* The exit is published, the master is closed, or Setsize succeeds and the *)
(* signal then finds that the leader has exited.                            *)
ResizeFails(c) ==
  /\ pc[c] = "commit" /\ eventMu = NoOne
  /\ child # "alive" \/ ~master
  /\ winsize' \in {winsize, IF child = "exited" /\ master THEN winsize + 1 ELSE winsize}
  /\ Return(c) /\ inputMu' = NoOne
  /\ UNCHANGED <<cfgMu, eventMu, opsBegun, child, emitted, ptyOut, ptyIn, master,
                 pumpVs, recVs, onces>>

LogResize(c) ==
  /\ pc[c] = "logResize"
  /\ traces' = Record(held[c], [ev |-> "resize", at |-> Len(screen)])
  /\ Return(c) /\ inputMu' = NoOne /\ eventMu' = NoOne
  /\ UNCHANGED <<cfgMu, opsBegun, childVs, pumpVs, tr, hook, finalizedTrace, sent, onces>>

(* MarkTrace writes inside Pump.Ordered.                                    *)
MarkTrace(c) ==
  /\ pc[c] = "mark" /\ eventMu = NoOne
  /\ traces' = Record(held[c], [ev |-> "marker", at |-> Len(screen)])
  /\ Return(c) /\ inputMu' = NoOne
  /\ UNCHANGED <<cfgMu, eventMu, opsBegun, childVs, pumpVs, tr, hook, finalizedTrace,
                 sent, onces>>

-----------------------------------------------------------------------------
(* The trace_start and trace_stop handlers and EnableTrace, DisableTrace.   *)

(* A handler first reads TracePath under cfgMu alone.  trace_start answers  *)
(* ALREADY_RUNNING, trace_stop answers from finalizedTracePath, when the    *)
(* path says so; neither changes any state.                                 *)
HandleTraceStart(c) ==
  /\ cfgMu = NoOne /\ tr = 0
  /\ Begin(c, "enable", "lockInput")
  /\ UNCHANGED <<locks, childVs, pumpVs, recVs, onces>>

HandleTraceStop(c) ==
  /\ cfgMu = NoOne /\ tr # 0
  /\ Begin(c, "disable", "lockInput")
  /\ UNCHANGED <<locks, childVs, pumpVs, recVs, onces>>

(* Variant: finalization does not take the input boundary.                  *)
LockInputToRecord(c) ==
  /\ pc[c] = "lockInput" /\ (inputMu = NoOne \/ op[c] = "finalize")
  /\ inputMu' = IF op[c] = "finalize" THEN inputMu ELSE c
  /\ Goto(c, "lockCfg")
  /\ UNCHANGED <<cfgMu, eventMu, op, held, opsBegun, childVs, pumpVs, recVs, onces>>

LockInput(c) ==
  /\ pc[c] = "lockInput" /\ inputMu = NoOne
  /\ inputMu' = c
  /\ Goto(c, "lockCfg")
  /\ UNCHANGED <<cfgMu, eventMu, op, held, opsBegun, childVs, pumpVs, recVs, onces>>

Unlock(c) == /\ Return(c) /\ inputMu' = NoOne /\ cfgMu' = NoOne

(* Variant: EnableTrace forgets that artifacts are final.                   *)
RejectedIfExited(c) ==
  \/ WholeSession
  \/ op[c] = "enable" /\ child = "published"
  \/ op[c] = "disable" /\ tr = 0

(* EnableTrace and DisableTrace once both locks are held.                   *)
Rejected(c) ==
  \/ WholeSession
  \/ op[c] = "enable" /\ (finalized \/ child = "published")
  \/ op[c] = "disable" /\ tr = 0

LockCfgToRecord(c) ==
  /\ pc[c] = "lockCfg" /\ cfgMu = NoOne
  /\ op[c] \in {"enable", "disable"}
  /\ IF Rejected(c)
     THEN Unlock(c)
     ELSE /\ cfgMu' = c
          /\ Goto(c, IF tr # 0 THEN "closeExit" ELSE "newTrace")
          /\ UNCHANGED <<inputMu, op, held>>
  /\ UNCHANGED <<eventMu, opsBegun, childVs, pumpVs, recVs, onces>>

(* closeTraceLocked, in three steps: the exit event, Trace.Close, the hook. *)
CloseExit(c) ==
  /\ pc[c] = "closeExit"
  /\ traces' = IF child = "published" /\ ~finalized
               THEN Record(tr, [ev |-> "exit", at |-> Len(screen)])
               ELSE traces
  /\ Goto(c, "closePublish")
  /\ UNCHANGED <<locks, op, held, opsBegun, childVs, pumpVs, tr, hook, finalizedTrace,
                 sent, onces>>

(* Variant: the closed trace stays the active one.                          *)
ClosePublishKeepsTr(c) ==
  /\ pc[c] = "closePublish"
  /\ \E outcome \in {"published", "failed"} :
       /\ traces' = [traces EXCEPT ![tr] = [@ EXCEPT !.state = outcome, !.closer = op[c]]]
       /\ finalizedTrace' = IF outcome = "published" THEN tr ELSE finalizedTrace
       /\ held' = [held EXCEPT ![c] = tr]
  /\ Goto(c, "closeHook")
  /\ UNCHANGED <<locks, op, opsBegun, childVs, pumpVs, tr, hook, sent, onces>>

(* Trace.Close publishes the bundle by a rename or, after any write error   *)
(* or a network capture that Abort refused, publishes nothing.              *)
ClosePublish(c) ==
  /\ pc[c] = "closePublish"
  /\ \E outcome \in {"published", "failed"} :
       /\ traces' = [traces EXCEPT ![tr] = [@ EXCEPT !.state = outcome, !.closer = op[c]]]
       /\ finalizedTrace' = IF outcome = "published" THEN tr ELSE finalizedTrace
       /\ held' = [held EXCEPT ![c] = tr]
  /\ tr' = 0
  /\ Goto(c, "closeHook")
  /\ UNCHANGED <<locks, op, opsBegun, childVs, pumpVs, hook, sent, onces>>

CloseHook(c) ==
  /\ pc[c] = "closeHook" /\ eventMu = NoOne
  /\ hook' = 0
  /\ IF op[c] = "enable" /\ traces[held[c]].state = "published"
     THEN Goto(c, "newTrace") /\ UNCHANGED <<op, held, inputMu, cfgMu>>
     ELSE Unlock(c)
  /\ finalizeOnce' = IF op[c] = "finalize" THEN "done" ELSE finalizeOnce
  /\ UNCHANGED <<eventMu, opsBegun, childVs, pumpVs, traces, tr, finalizedTrace, sent,
                 finalized, drainOnce>>

(* startTraceLocked: create and seed the trace, then install the hook.      *)
CreateTrace(c) ==
  /\ pc[c] = "newTrace"
  /\ \/ /\ traces' = Append(traces, NewTrace)
        /\ Goto(c, "setHook")
        /\ UNCHANGED <<op, held, inputMu, cfgMu>>
     \/ /\ Unlock(c)
        /\ UNCHANGED traces
  /\ UNCHANGED <<eventMu, opsBegun, childVs, pumpVs, tr, hook, finalizedTrace, sent, onces>>

InstallHook(c) ==
  /\ pc[c] = "setHook" /\ eventMu = NoOne
  /\ tr' = Len(traces) /\ hook' = Len(traces)
  /\ traces' = [traces EXCEPT ![Len(traces)].hooked = Len(screen)]
  /\ Unlock(c)
  /\ UNCHANGED <<eventMu, opsBegun, childVs, pumpVs, finalizedTrace, sent, onces>>

-----------------------------------------------------------------------------
(* Close, CloseWithGrace (the stop handler) and the daemon's exit watcher.  *)

BeginClose(c) ==
  /\ Begin(c, "finalize", "beginFinalize")
  /\ UNCHANGED <<locks, childVs, pumpVs, recVs, onces>>

(* daemon.FinalizeArtifacts: DrainOutput first, then FinalizeArtifacts.     *)
BeginWatch(c) ==
  /\ child = "published"
  /\ Begin(c, "watch", "drain")
  /\ UNCHANGED <<locks, childVs, pumpVs, recVs, onces>>

(* finalizeOnce.Do: the first caller runs it, the others wait for the end.  *)
FinalizeOnce(c) ==
  /\ pc[c] = "beginFinalize" /\ finalizeOnce # "running"
  /\ IF finalizeOnce = "done"
     THEN Return(c) /\ UNCHANGED finalizeOnce
     ELSE /\ finalizeOnce' = "running"
          /\ op' = [op EXCEPT ![c] = "finalize"]
          /\ Goto(c, "drain")
          /\ UNCHANGED held
  /\ UNCHANGED <<locks, opsBegun, childVs, pumpVs, recVs, finalized, drainOnce>>

(* The watcher still has to enter finalizeOnce; a finalizer goes on to the  *)
(* input boundary.                                                          *)
AfterDrain(c) == IF op[c] = "watch" THEN "beginFinalize" ELSE "lockInput"

(* Variant: the drain waits for the input boundary.                         *)
DrainOnceBehindInput(c) ==
  /\ pc[c] = "drain" /\ drainOnce # "running" /\ inputMu = NoOne
  /\ Goto(c, IF drainOnce = "done" THEN AfterDrain(c) ELSE "kill")
  /\ drainOnce' = IF drainOnce = "done" THEN "done" ELSE "running"
  /\ UNCHANGED <<locks, op, held, opsBegun, childVs, pumpVs, recVs, finalized,
                 finalizeOnce>>

(* drainOnce.Do.                                                            *)
DrainOnce(c) ==
  /\ pc[c] = "drain" /\ drainOnce # "running"
  /\ Goto(c, IF drainOnce = "done" THEN AfterDrain(c) ELSE "kill")
  /\ drainOnce' = IF drainOnce = "done" THEN "done" ELSE "running"
  /\ UNCHANGED <<locks, op, held, opsBegun, childVs, pumpVs, recVs, finalized,
                 finalizeOnce>>

(* Runner.CloseWithGrace: SIGTERM, the grace window, SIGKILL.               *)
KillChild(c) ==
  /\ pc[c] = "kill"
  /\ child' = IF child = "alive" THEN "exited" ELSE child
  /\ Goto(c, "reap")
  /\ UNCHANGED <<locks, op, held, opsBegun, emitted, ptyOut, ptyIn, winsize, master,
                 pumpVs, recVs, onces>>

(* The child is reaped after its exit is published; the wait for that gives *)
(* up after two seconds.  Either way the master is closed at once.          *)
CloseMaster(c) ==
  /\ pc[c] = "reap"
  /\ child = "published" \/ ReapTimesOut
  /\ master' = FALSE
  /\ Goto(c, "joinPump")
  /\ UNCHANGED <<locks, op, held, opsBegun, child, emitted, ptyOut, ptyIn, winsize,
                 pumpVs, recVs, onces>>

(* Variant: the drain does not wait for the pump.                           *)
JoinPumpNoWait(c) ==
  /\ pc[c] = "joinPump"
  /\ drainOnce' = "done"
  /\ Goto(c, AfterDrain(c))
  /\ UNCHANGED <<locks, op, held, opsBegun, childVs, pumpVs, recVs, finalized,
                 finalizeOnce>>

(* <-pumpDone *)
JoinPump(c) ==
  /\ pc[c] = "joinPump" /\ pump = "done"
  /\ drainOnce' = "done"
  /\ Goto(c, AfterDrain(c))
  /\ UNCHANGED <<locks, op, held, opsBegun, childVs, pumpVs, recVs, finalized,
                 finalizeOnce>>

(* Finalize under both locks: the exit event, then closeTraceLocked.        *)
LockCfgToFinalize(c) ==
  /\ pc[c] = "lockCfg" /\ op[c] = "finalize" /\ cfgMu = NoOne
  /\ finalized' = TRUE
  /\ IF tr # 0
     THEN /\ cfgMu' = c
          /\ traces' = Record(tr, [ev |-> "exit", at |-> Len(screen)])
          /\ Goto(c, "closeExit")
          /\ UNCHANGED <<op, held, inputMu, finalizeOnce>>
     ELSE /\ Unlock(c)
          /\ finalizeOnce' = "done"
          /\ UNCHANGED traces
  /\ UNCHANGED <<eventMu, opsBegun, childVs, pumpVs, tr, hook, finalizedTrace, sent,
                 drainOnce>>

-----------------------------------------------------------------------------
BeginOp(c) == \/ BeginInput(c) \/ BeginResize(c) \/ BeginMark(c)
              \/ HandleTraceStart(c) \/ HandleTraceStop(c)
              \/ BeginClose(c) \/ BeginWatch(c)

(* The steps a caller takes without waiting for the child to read.          *)
Advance(c) == \/ WriteInput(c) \/ WriteFails(c) \/ ReadTr(c) \/ LogInput(c)
              \/ CommitResize(c) \/ ResizeFails(c) \/ LogResize(c) \/ MarkTrace(c)
              \/ LockInput(c) \/ LockCfgToRecord(c) \/ LockCfgToFinalize(c)
              \/ CloseExit(c) \/ ClosePublish(c) \/ CloseHook(c)
              \/ CreateTrace(c) \/ InstallHook(c)
              \/ FinalizeOnce(c) \/ DrainOnce(c) \/ KillChild(c)
              \/ CloseMaster(c) \/ JoinPump(c)

ChildNext == ChildEmit \/ ChildRead \/ ChildExit \/ PublishExit

(* The session is over: every caller has returned and the pump has stopped. *)
Over == /\ \A c \in Callers : pc[c] = "idle"
        /\ pump = "done" /\ child = "published"
        /\ UNCHANGED vars

Next == ChildNext \/ PumpNext \/ (\E c \in Callers : BeginOp(c) \/ Advance(c)) \/ Over

(* Goroutines that can run do run, and sync.Mutex hands a starving waiter   *)
(* the lock; the child owes nothing.                                        *)
Fairness == /\ WF_vars(PumpNext) /\ WF_vars(PublishExit)
            /\ \A c \in Callers : WF_vars(Advance(c))

Spec == Init /\ [][Next]_vars
FairSpec == Spec /\ Fairness

-----------------------------------------------------------------------------
CallerType ==
  /\ inputMu \in Callers \cup {NoOne}
  /\ cfgMu \in Callers \cup {NoOne}
  /\ eventMu \in Callers \cup {PumpThread, NoOne}
  /\ op \in [Callers -> Ops] /\ pc \in [Callers -> Steps]
  /\ held \in [Callers -> 0..Len(traces)] /\ opsBegun \in Nat
  /\ finalized \in BOOLEAN
  /\ drainOnce \in {"idle", "running", "done"}
  /\ finalizeOnce \in {"idle", "running", "done"}

PtyType ==
  /\ child \in {"alive", "exited", "published"} /\ emitted \in Nat
  /\ ptyOut \in Seq(Nat) /\ ptyIn \in 0..InputCap /\ winsize \in Nat
  /\ master \in BOOLEAN
  /\ pump \in {"read", "admit", "hook", "done"} /\ chunk \in Nat
  /\ screen \in Seq(ModelOps)

RecorderType ==
  /\ traces \in Seq(Traces)
  /\ tr \in 0..Len(traces) /\ hook \in 0..Len(traces)
  /\ chunkHook \in 0..Len(traces) /\ finalizedTrace \in 0..Len(traces)
  /\ sent \in Seq(Nat)

TypeOK == CallerType /\ PtyType /\ RecorderType

(* Where a log has model operations, and the last one a trace has recorded  *)
(* if it has them all from its hook on.                                     *)
OpsIn(log) == {k \in DOMAIN log : log[k].ev \in {"out", "resize"}}
RecordedTo(t) == t.hooked + Cardinality(OpsIn(t.log))

(* Every operation from the hook on, each once and in order.                *)
IsUnbroken(t) ==
  /\ {t.log[k].at : k \in OpsIn(t.log)} = t.hooked + 1 .. RecordedTo(t)
  /\ \A j, k \in OpsIn(t.log) : j < k => t.log[j].at < t.log[k].at

(* Pump.eventMu keeps the recorder in step with the model: what a trace has *)
(* recorded is an unbroken run of model operations from the point its hook  *)
(* was installed, and a live trace lags by nothing once eventMu is free.    *)
(* (term.go closes and opens traces, pump.go feeds and resizes.)            *)
RecordingUnbroken ==
  \A i \in DOMAIN traces :
    /\ IsUnbroken(traces[i])
    /\ i = hook /\ i = tr /\ eventMu = NoOne => RecordedTo(traces[i]) = Len(screen)

(* CommitResize's promise (pump.go:271-273): output the child drew for a new*)
(* window size reaches the model after the model has that size.             *)
RepaintAfterResize ==
  \A k \in DOMAIN screen : screen[k].ev = "out" =>
    screen[k].size = 0
      \/ \E j \in 1..(k-1) : screen[j] = [ev |-> "resize", size |-> screen[k].size]

(* The input boundary (term.go:202-206): a trace that is no longer open     *)
(* holds every input written while it was the active trace.                 *)
ClosedTraceHasInputs ==
  \A i \in DOMAIN traces : traces[i].state # "open" =>
    \A s \in DOMAIN sent : sent[s] = i =>
      \E k \in DOMAIN traces[i].log : traces[i].log[k] = [ev |-> "in", at |-> s]

(* The exit event: recorded at most once, and in a trace that finalization  *)
(* closes, exactly once and last.                                           *)
ExitRecordedLast ==
  \A i \in DOMAIN traces :
    LET log == traces[i].log
        exits == {k \in DOMAIN log : log[k].ev = "exit"}
    IN /\ \A j, k \in exits : j = k
       /\ traces[i].closer = "finalize" => Len(log) \in exits

(* Once artifacts are final (ArtifactsDone), no trace is open or can open.  *)
NothingOpenWhenFinal ==
  finalizeOnce = "done" => tr = 0 /\ hook = 0
                           /\ \A i \in DOMAIN traces : traces[i].state # "open"

(* A closed trace's content never changes, whoever still holds its hook.    *)
ClosedTraceFrozen ==
  [][\A i \in DOMAIN traces : traces[i].state # "open" =>
       traces'[i] = traces[i]]_vars

(* A bundle of a whole-session recording holds every operation the model    *)
(* ever applied: Finalize drains the pump before it closes the trace.       *)
WholeSessionComplete ==
  \A i \in DOMAIN traces :
    WholeSession /\ traces[i].state # "open"
      => Cardinality(OpsIn(traces[i].log)) = Len(screen)

(* Finalization ends, even when an input is stuck in a write that only the  *)
(* closing of the PTY can release (term.go:202-203).                        *)
FinalizeEnds == finalizeOnce = "running" ~> finalizeOnce = "done"

(* After finalization no caller stays inside an operation.                  *)
CallersReturn == finalizeOnce = "done" ~> \A c \in Callers : pc[c] = "idle"

(* A closed trace is whole at both ends: it has every input that was sent   *)
(* while it was open, and the exit once and last.                           *)
ClosedTraceWhole == ClosedTraceHasInputs /\ ExitRecordedLast

(* The session ends for everybody: finalization and all who meet it.        *)
SessionEnds == FinalizeEnds /\ CallersReturn

-----------------------------------------------------------------------------
(* What the locks protect, strong enough to be preserved by every step.     *)

CfgSteps   == {"closeExit", "closePublish", "closeHook", "newTrace", "setHook"}
InputSteps == CfgSteps \cup {"write", "readTr", "log", "commit", "logResize",
                             "mark", "lockCfg"}

(* A caller is inside a section exactly while it owns the section's mutex.  *)
InputOwner == \A c \in Callers : pc[c] \in InputSteps <=> inputMu = c
CfgOwner   == \A c \in Callers : pc[c] \in CfgSteps <=> cfgMu = c

(* The active trace is open, and the steps of closing and starting a trace  *)
(* find it where they expect it.                                            *)
ActiveTrace ==
  /\ tr # 0 => traces[tr].state = "open"
  /\ \A c \in Callers :
       /\ pc[c] \in {"closeExit", "closePublish"} => tr # 0
       /\ pc[c] \in {"closeHook", "newTrace", "setHook"} => tr = 0
       /\ pc[c] = "setHook" => Len(traces) # 0 /\ traces[Len(traces)].state = "open"

(* Only the active trace is open, or the one about to become active.        *)
OneOpenTrace ==
  \A i \in DOMAIN traces : traces[i].state = "open" =>
    i = tr \/ (i = Len(traces) /\ \E c \in Callers : pc[c] = "setHook")

(* The pump's hook trails the active trace only while a caller closes it.   *)
HookFollowsTrace == hook # tr => \E c \in Callers : pc[c] = "closeHook"

(* Finalization leaves the recorder empty and cfgMu free for good.          *)
FinalIsQuiet ==
  /\ finalizeOnce = "done" => finalized /\ tr = 0 /\ hook = 0 /\ cfgMu = NoOne
  /\ \A c \in Callers : pc[c] \in CfgSteps /\ op[c] = "finalize" => finalized

(* The inductive invariant behind NothingOpenWhenFinal and                  *)
(* ClosedTraceFrozen (term.go closes and opens traces under both locks).    *)
RecorderInv == /\ InputOwner /\ CfgOwner /\ ActiveTrace /\ OneOpenTrace
               /\ HookFollowsTrace /\ FinalIsQuiet

-----------------------------------------------------------------------------
(* A trace counts as a bundle from the moment its hook is installed.        *)
Installed == IF \E c \in Callers : pc[c] = "setHook" THEN Len(traces) - 1
             ELSE Len(traces)

Recorder == INSTANCE SessionRecorder WITH
  admitted <- Len(screen),
  bundles  <- [i \in 1 .. Installed |->
                [from |-> traces[i].hooked, upto |-> RecordedTo(traces[i]),
                 open |-> traces[i].state = "open"]]

(* The session implements the recorder: the locks of engine and pump give   *)
(* what SessionRecorder promises.                                           *)
ImplementsRecorder == Recorder!Spec

-----------------------------------------------------------------------------
(* What comments and documents of the repository say and the code does not. *)

(* term.go:170-173 and docs/trace-lifecycle-proposal.md:85-87: once the     *)
(* output is drained, the screen has all the output the child emitted.      *)
DrainDeliversOutput ==
  drainOnce = "done" =>
    Len(SelectSeq(screen, LAMBDA o : o.ev = "out")) = emitted

(* handlers_trace.go:37-39: the trace_start handler never lets EnableTrace  *)
(* finalize another recording.                                              *)
TraceStartTruncatesNothing ==
  \A i \in DOMAIN traces : traces[i].closer # "enable"

(* inspect/replay.go:64, "Replay reconstructs the final semantic terminal   *)
(* state": no operation falls between a trace's seed and its hook.          *)
SeedMeetsHook == \A i \in DOMAIN traces : traces[i].seed = traces[i].hooked
=============================================================================
