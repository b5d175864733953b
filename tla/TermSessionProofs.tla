------------------------- MODULE TermSessionProofs -------------------------
(***************************************************************************)
(* Theorems about TermSession for every set of callers and every bound:    *)
(* its types, and the safety of its recorder.  Once artifacts are final    *)
(* nothing records any more, and a closed trace is never written again.    *)
(*                                                                         *)
(* The second part is about what the traces contain: recordings are        *)
(* unbroken and complete, and the session implements SessionRecorder.      *)
(* RecorderInv says which trace is open.  The invariants of that part add  *)
(* who owns eventMu, which trace a goroutine that is about to record       *)
(* writes to, and what is recorded so far; each needs only those before it.*)
(*                                                                         *)
(* The third part is about the waits of the session's pump, PumpWait.      *)
(***************************************************************************)
EXTENDS TermSession, PumpWait, TLAPS, FiniteSetTheorems

(* Recording an event keeps the traces well typed and creates none.         *)
LEMMA RecordType ==
  ASSUME traces \in Seq(Traces), NEW i \in 0..Len(traces), NEW e \in Events
  PROVE  /\ Record(i, e) \in Seq(Traces)
         /\ Len(Record(i, e)) = Len(traces)
<1>1. CASE i # 0 /\ traces[i].state = "open"
  <2>1. i \in DOMAIN traces /\ traces[i] \in Traces
    BY <1>1
  <2>2. [traces[i] EXCEPT !.log = Append(@, e)] \in Traces
    <3>1. traces[i].log \in Seq(Events)
      BY <2>1 DEF Traces
    <3>2. Append(traces[i].log, e) \in Seq(Events)
      BY <3>1
    <3>. QED
      BY <2>1, <3>2 DEF Traces
  <2>. QED
    BY <1>1, <2>1, <2>2 DEF Record
<1>2. CASE ~(i # 0 /\ traces[i].state = "open")
  BY <1>2 DEF Record
<1>. QED
  BY <1>1, <1>2

(* Replacing one trace keeps the traces well typed and creates none.        *)
LEMMA ReplaceType ==
  ASSUME traces \in Seq(Traces), NEW i \in 0..Len(traces), NEW t,
         i # 0 => t \in Traces
  PROVE  /\ [traces EXCEPT ![i] = t] \in Seq(Traces)
         /\ Len([traces EXCEPT ![i] = t]) = Len(traces)
<1>1. CASE i = 0
  <2>1. [traces EXCEPT ![i] = t] = traces
    BY <1>1
  <2>. QED
    BY <2>1
<1>2. CASE i # 0
  BY <1>2
<1>. QED
  BY <1>1, <1>2

(* A new trace is well typed.                                               *)
LEMMA NewTraceType ==
  ASSUME screen \in Seq(ModelOps)
  PROVE  NewTrace \in Traces
<1>1. Len(screen) \in Nat /\ <<>> \in Seq(Events)
  OBVIOUS
<1>. QED
  BY <1>1 DEF NewTrace, Traces, Ops

(* Init satisfies TypeOK.                                                   *)
LEMMA InitType == Init => TypeOK
<1>. SUFFICES ASSUME Init PROVE TypeOK
  OBVIOUS
<1>. USE SessionAssumption DEF Init
<1>1. screen \in Seq(ModelOps)
  OBVIOUS
<1>2. traces \in Seq(Traces) /\ Len(traces) \in Nat
  BY <1>1, NewTraceType
<1>3. op \in [Callers -> Ops] /\ pc \in [Callers -> Steps] /\ held \in [Callers -> 0..Len(traces)]
  BY <1>2 DEF Ops, Steps
<1>4. /\ tr \in 0..Len(traces) /\ hook \in 0..Len(traces)
      /\ chunkHook \in 0..Len(traces) /\ finalizedTrace \in 0..Len(traces)
  BY <1>2
<1>5. ptyOut \in Seq(Nat) /\ sent \in Seq(Nat) /\ ptyIn \in 0..InputCap
  OBVIOUS
<1>. QED
  BY <1>1, <1>2, <1>3, <1>4, <1>5 DEF TypeOK, CallerType, PtyType, RecorderType

(* Every step preserves TypeOK.                                             *)
LEMMA StepType == TypeOK /\ [Next]_vars => TypeOK'
<1>. SUFFICES ASSUME TypeOK, [Next]_vars PROVE TypeOK'
  OBVIOUS
<1>. USE SessionAssumption
<1>. USE DEF vars, locks, callers, childVs, pumpVs, recVs, onces, Goto, Return, Begin,
             BeginLocked, Unlock, Ops, Steps
<1>1. CASE ChildEmit
  <2>1. CallerType'
    BY <1>1 DEF ChildEmit, TypeOK, CallerType, RecorderType
  <2>2. PtyType'
    BY <1>1 DEF ChildEmit, TypeOK, PtyType
  <2>3. RecorderType'
    BY <1>1 DEF ChildEmit, TypeOK, CallerType, RecorderType
  <2>. QED
    BY <2>1, <2>2, <2>3 DEF TypeOK
<1>2. CASE ChildRead
  <2>1. CallerType'
    BY <1>2 DEF ChildRead, TypeOK, CallerType, RecorderType
  <2>2. PtyType'
    BY <1>2 DEF ChildRead, TypeOK, PtyType
  <2>3. RecorderType'
    BY <1>2 DEF ChildRead, TypeOK, CallerType, RecorderType
  <2>. QED
    BY <2>1, <2>2, <2>3 DEF TypeOK
<1>3. CASE ChildExit
  <2>1. CallerType'
    BY <1>3 DEF ChildExit, TypeOK, CallerType, RecorderType
  <2>2. PtyType'
    BY <1>3 DEF ChildExit, TypeOK, PtyType
  <2>3. RecorderType'
    BY <1>3 DEF ChildExit, TypeOK, CallerType, RecorderType
  <2>. QED
    BY <2>1, <2>2, <2>3 DEF TypeOK
<1>4. CASE PublishExit
  <2>1. CallerType'
    BY <1>4 DEF PublishExit, TypeOK, CallerType, RecorderType
  <2>2. PtyType'
    BY <1>4 DEF PublishExit, TypeOK, PtyType
  <2>3. RecorderType'
    BY <1>4 DEF PublishExit, TypeOK, CallerType, RecorderType
  <2>. QED
    BY <2>1, <2>2, <2>3 DEF TypeOK
<1>5. CASE PumpRead
  <2>1. CallerType'
    BY <1>5 DEF PumpRead, TypeOK, CallerType, RecorderType
  <2>2. PtyType'
    BY <1>5 DEF PumpRead, TypeOK, PtyType
  <2>3. RecorderType'
    BY <1>5 DEF PumpRead, TypeOK, CallerType, RecorderType
  <2>. QED
    BY <2>1, <2>2, <2>3 DEF TypeOK
<1>6. CASE PumpEOF
  <2>1. CallerType'
    BY <1>6 DEF PumpEOF, TypeOK, CallerType, RecorderType
  <2>2. PtyType'
    BY <1>6 DEF PumpEOF, TypeOK, PtyType
  <2>3. RecorderType'
    BY <1>6 DEF PumpEOF, TypeOK, CallerType, RecorderType
  <2>. QED
    BY <2>1, <2>2, <2>3 DEF TypeOK
<1>7. CASE PumpFeed
  <2>1. CallerType'
    BY <1>7 DEF PumpFeed, ModelOps, TypeOK, CallerType, RecorderType
  <2>2. PtyType'
    BY <1>7 DEF PumpFeed, ModelOps, TypeOK, PtyType
  <2>3. RecorderType'
    BY <1>7 DEF PumpFeed, ModelOps, TypeOK, CallerType, RecorderType
  <2>. QED
    BY <2>1, <2>2, <2>3 DEF TypeOK
<1>8. CASE PumpHook
  <2>1. /\ Record(chunkHook, [ev |-> "out", at |-> Len(screen)]) \in Seq(Traces)
         /\ Len(Record(chunkHook, [ev |-> "out", at |-> Len(screen)])) = Len(traces)
    <3>1. chunkHook \in 0..Len(traces) /\ [ev |-> "out", at |-> Len(screen)] \in Events
      BY DEF TypeOK, CallerType, PtyType, RecorderType, Events
    <3>. QED
      BY <3>1, RecordType DEF TypeOK, RecorderType
  <2>2. traces' \in Seq(Traces) /\ Len(traces') = Len(traces) /\ Len(traces) \in Nat
    BY <1>8, <2>1 DEF PumpHook, TypeOK, RecorderType
  <2>3. CallerType'
    BY <1>8, <2>2 DEF PumpHook, TypeOK, CallerType, RecorderType
  <2>4. PtyType'
    BY <1>8, <2>2 DEF PumpHook, TypeOK, PtyType
  <2>5. RecorderType'
    BY <1>8, <2>2 DEF PumpHook, TypeOK, CallerType, RecorderType
  <2>. QED
    BY <2>3, <2>4, <2>5 DEF TypeOK
<1>9. ASSUME NEW c \in Callers, BeginInput(c) PROVE TypeOK'
  <2>1. CallerType'
    BY <1>9 DEF BeginInput, TypeOK, CallerType, RecorderType
  <2>2. PtyType'
    BY <1>9 DEF BeginInput, TypeOK, PtyType
  <2>3. RecorderType'
    BY <1>9 DEF BeginInput, TypeOK, CallerType, RecorderType
  <2>. QED
    BY <2>1, <2>2, <2>3 DEF TypeOK
<1>10. ASSUME NEW c \in Callers, BeginResize(c) PROVE TypeOK'
  <2>1. CallerType'
    BY <1>10 DEF BeginResize, TypeOK, CallerType, RecorderType
  <2>2. PtyType'
    BY <1>10 DEF BeginResize, TypeOK, PtyType
  <2>3. RecorderType'
    BY <1>10 DEF BeginResize, TypeOK, CallerType, RecorderType
  <2>. QED
    BY <2>1, <2>2, <2>3 DEF TypeOK
<1>11. ASSUME NEW c \in Callers, BeginMark(c) PROVE TypeOK'
  <2>1. CallerType'
    BY <1>11 DEF BeginMark, TypeOK, CallerType, RecorderType
  <2>2. PtyType'
    BY <1>11 DEF BeginMark, TypeOK, PtyType
  <2>3. RecorderType'
    BY <1>11 DEF BeginMark, TypeOK, CallerType, RecorderType
  <2>. QED
    BY <2>1, <2>2, <2>3 DEF TypeOK
<1>12. ASSUME NEW c \in Callers, HandleTraceStart(c) PROVE TypeOK'
  <2>1. CallerType'
    BY <1>12 DEF HandleTraceStart, TypeOK, CallerType, RecorderType
  <2>2. PtyType'
    BY <1>12 DEF HandleTraceStart, TypeOK, PtyType
  <2>3. RecorderType'
    BY <1>12 DEF HandleTraceStart, TypeOK, CallerType, RecorderType
  <2>. QED
    BY <2>1, <2>2, <2>3 DEF TypeOK
<1>13. ASSUME NEW c \in Callers, HandleTraceStop(c) PROVE TypeOK'
  <2>1. CallerType'
    BY <1>13 DEF HandleTraceStop, TypeOK, CallerType, RecorderType
  <2>2. PtyType'
    BY <1>13 DEF HandleTraceStop, TypeOK, PtyType
  <2>3. RecorderType'
    BY <1>13 DEF HandleTraceStop, TypeOK, CallerType, RecorderType
  <2>. QED
    BY <2>1, <2>2, <2>3 DEF TypeOK
<1>14. ASSUME NEW c \in Callers, BeginClose(c) PROVE TypeOK'
  <2>1. CallerType'
    BY <1>14 DEF BeginClose, TypeOK, CallerType, RecorderType
  <2>2. PtyType'
    BY <1>14 DEF BeginClose, TypeOK, PtyType
  <2>3. RecorderType'
    BY <1>14 DEF BeginClose, TypeOK, CallerType, RecorderType
  <2>. QED
    BY <2>1, <2>2, <2>3 DEF TypeOK
<1>15. ASSUME NEW c \in Callers, BeginWatch(c) PROVE TypeOK'
  <2>1. CallerType'
    BY <1>15 DEF BeginWatch, TypeOK, CallerType, RecorderType
  <2>2. PtyType'
    BY <1>15 DEF BeginWatch, TypeOK, PtyType
  <2>3. RecorderType'
    BY <1>15 DEF BeginWatch, TypeOK, CallerType, RecorderType
  <2>. QED
    BY <2>1, <2>2, <2>3 DEF TypeOK
<1>16. ASSUME NEW c \in Callers, WriteInput(c) PROVE TypeOK'
  <2>1. CallerType'
    BY <1>16 DEF WriteInput, TypeOK, CallerType, RecorderType
  <2>2. PtyType'
    BY <1>16 DEF WriteInput, TypeOK, PtyType
  <2>3. RecorderType'
    BY <1>16 DEF WriteInput, TypeOK, CallerType, RecorderType
  <2>. QED
    BY <2>1, <2>2, <2>3 DEF TypeOK
<1>17. ASSUME NEW c \in Callers, WriteFails(c) PROVE TypeOK'
  <2>1. CallerType'
    BY <1>17 DEF WriteFails, TypeOK, CallerType, RecorderType
  <2>2. PtyType'
    BY <1>17 DEF WriteFails, TypeOK, PtyType
  <2>3. RecorderType'
    BY <1>17 DEF WriteFails, TypeOK, CallerType, RecorderType
  <2>. QED
    BY <2>1, <2>2, <2>3 DEF TypeOK
<1>18. ASSUME NEW c \in Callers, ReadTr(c) PROVE TypeOK'
  <2>1. CallerType'
    <3>1. CASE op[c] = "mark" /\ tr = 0
      <4>1. op' \in [Callers -> Ops] /\ pc' \in [Callers -> Steps]
        BY <1>18, <3>1 DEF ReadTr, TypeOK, CallerType
      <4>2. held' \in [Callers -> 0..Len(traces')]
        BY <1>18, <3>1 DEF ReadTr, TypeOK, CallerType, RecorderType
      <4>. QED
        BY <1>18, <3>1, <4>1, <4>2 DEF ReadTr, TypeOK, CallerType
    <3>2. CASE ~(op[c] = "mark" /\ tr = 0)
      <4>1. op' \in [Callers -> Ops] /\ pc' \in [Callers -> Steps]
        BY <1>18, <3>2 DEF ReadTr, TypeOK, CallerType
      <4>2. held' \in [Callers -> 0..Len(traces')]
        BY <1>18, <3>2 DEF ReadTr, TypeOK, CallerType, RecorderType
      <4>. QED
        BY <1>18, <3>2, <4>1, <4>2 DEF ReadTr, TypeOK, CallerType
    <3>. QED
      BY <1>18, <3>1, <3>2 DEF ReadTr
  <2>2. PtyType'
    BY <1>18 DEF ReadTr, TypeOK, PtyType
  <2>3. RecorderType'
    BY <1>18 DEF ReadTr, TypeOK, CallerType, RecorderType
  <2>. QED
    BY <2>1, <2>2, <2>3 DEF TypeOK
<1>19. ASSUME NEW c \in Callers, LogInput(c) PROVE TypeOK'
  <2>1. /\ Record(held[c], [ev |-> "in", at |-> Len(sent)]) \in Seq(Traces)
         /\ Len(Record(held[c], [ev |-> "in", at |-> Len(sent)])) = Len(traces)
    <3>1. held[c] \in 0..Len(traces) /\ [ev |-> "in", at |-> Len(sent)] \in Events
      BY DEF TypeOK, CallerType, PtyType, RecorderType, Events
    <3>. QED
      BY <3>1, RecordType DEF TypeOK, RecorderType
  <2>2. traces' \in Seq(Traces) /\ Len(traces') = Len(traces) /\ Len(traces) \in Nat
    BY <1>19, <2>1 DEF LogInput, TypeOK, RecorderType
  <2>3. CallerType'
    BY <1>19, <2>2 DEF LogInput, TypeOK, CallerType, RecorderType
  <2>4. PtyType'
    BY <1>19, <2>2 DEF LogInput, TypeOK, PtyType
  <2>5. RecorderType'
    BY <1>19, <2>2 DEF LogInput, TypeOK, CallerType, RecorderType
  <2>. QED
    BY <2>3, <2>4, <2>5 DEF TypeOK
<1>20. ASSUME NEW c \in Callers, CommitResize(c) PROVE TypeOK'
  <2>1. CallerType'
    BY <1>20 DEF CommitResize, ModelOps, TypeOK, CallerType, RecorderType
  <2>2. PtyType'
    BY <1>20 DEF CommitResize, ModelOps, TypeOK, PtyType
  <2>3. RecorderType'
    BY <1>20 DEF CommitResize, ModelOps, TypeOK, CallerType, RecorderType
  <2>. QED
    BY <2>1, <2>2, <2>3 DEF TypeOK
<1>21. ASSUME NEW c \in Callers, ResizeFails(c) PROVE TypeOK'
  <2>1. CallerType'
    BY <1>21 DEF ResizeFails, TypeOK, CallerType, RecorderType
  <2>2. PtyType'
    BY <1>21 DEF ResizeFails, TypeOK, PtyType
  <2>3. RecorderType'
    BY <1>21 DEF ResizeFails, TypeOK, CallerType, RecorderType
  <2>. QED
    BY <2>1, <2>2, <2>3 DEF TypeOK
<1>22. ASSUME NEW c \in Callers, LogResize(c) PROVE TypeOK'
  <2>1. /\ Record(held[c], [ev |-> "resize", at |-> Len(screen)]) \in Seq(Traces)
         /\ Len(Record(held[c], [ev |-> "resize", at |-> Len(screen)])) = Len(traces)
    <3>1. held[c] \in 0..Len(traces) /\ [ev |-> "resize", at |-> Len(screen)] \in Events
      BY DEF TypeOK, CallerType, PtyType, RecorderType, Events
    <3>. QED
      BY <3>1, RecordType DEF TypeOK, RecorderType
  <2>2. traces' \in Seq(Traces) /\ Len(traces') = Len(traces) /\ Len(traces) \in Nat
    BY <1>22, <2>1 DEF LogResize, TypeOK, RecorderType
  <2>3. CallerType'
    BY <1>22, <2>2 DEF LogResize, TypeOK, CallerType, RecorderType
  <2>4. PtyType'
    BY <1>22, <2>2 DEF LogResize, TypeOK, PtyType
  <2>5. RecorderType'
    BY <1>22, <2>2 DEF LogResize, TypeOK, CallerType, RecorderType
  <2>. QED
    BY <2>3, <2>4, <2>5 DEF TypeOK
<1>23. ASSUME NEW c \in Callers, MarkTrace(c) PROVE TypeOK'
  <2>1. /\ Record(held[c], [ev |-> "marker", at |-> Len(screen)]) \in Seq(Traces)
         /\ Len(Record(held[c], [ev |-> "marker", at |-> Len(screen)])) = Len(traces)
    <3>1. held[c] \in 0..Len(traces) /\ [ev |-> "marker", at |-> Len(screen)] \in Events
      BY DEF TypeOK, CallerType, PtyType, RecorderType, Events
    <3>. QED
      BY <3>1, RecordType DEF TypeOK, RecorderType
  <2>2. traces' \in Seq(Traces) /\ Len(traces') = Len(traces) /\ Len(traces) \in Nat
    BY <1>23, <2>1 DEF MarkTrace, TypeOK, RecorderType
  <2>3. CallerType'
    BY <1>23, <2>2 DEF MarkTrace, TypeOK, CallerType, RecorderType
  <2>4. PtyType'
    BY <1>23, <2>2 DEF MarkTrace, TypeOK, PtyType
  <2>5. RecorderType'
    BY <1>23, <2>2 DEF MarkTrace, TypeOK, CallerType, RecorderType
  <2>. QED
    BY <2>3, <2>4, <2>5 DEF TypeOK
<1>24. ASSUME NEW c \in Callers, LockInput(c) PROVE TypeOK'
  <2>1. CallerType'
    BY <1>24 DEF LockInput, TypeOK, CallerType, RecorderType
  <2>2. PtyType'
    BY <1>24 DEF LockInput, TypeOK, PtyType
  <2>3. RecorderType'
    BY <1>24 DEF LockInput, TypeOK, CallerType, RecorderType
  <2>. QED
    BY <2>1, <2>2, <2>3 DEF TypeOK
<1>25. ASSUME NEW c \in Callers, LockCfgToRecord(c) PROVE TypeOK'
  <2>1. CallerType'
    <3>1. CASE Rejected(c)
      <4>1. op' \in [Callers -> Ops] /\ pc' \in [Callers -> Steps]
        BY <1>25, <3>1 DEF LockCfgToRecord, TypeOK, CallerType
      <4>2. held' \in [Callers -> 0..Len(traces')]
        BY <1>25, <3>1 DEF LockCfgToRecord, TypeOK, CallerType, RecorderType
      <4>. QED
        BY <1>25, <3>1, <4>1, <4>2 DEF LockCfgToRecord, TypeOK, CallerType
    <3>2. CASE ~Rejected(c)
      <4>1. op' \in [Callers -> Ops] /\ pc' \in [Callers -> Steps]
        BY <1>25, <3>2 DEF LockCfgToRecord, TypeOK, CallerType
      <4>2. held' \in [Callers -> 0..Len(traces')]
        BY <1>25, <3>2 DEF LockCfgToRecord, TypeOK, CallerType, RecorderType
      <4>. QED
        BY <1>25, <3>2, <4>1, <4>2 DEF LockCfgToRecord, TypeOK, CallerType
    <3>. QED
      BY <1>25, <3>1, <3>2 DEF LockCfgToRecord
  <2>2. PtyType'
    BY <1>25 DEF LockCfgToRecord, TypeOK, PtyType
  <2>3. RecorderType'
    BY <1>25 DEF LockCfgToRecord, TypeOK, CallerType, RecorderType
  <2>. QED
    BY <2>1, <2>2, <2>3 DEF TypeOK
<1>26. ASSUME NEW c \in Callers, LockCfgToFinalize(c) PROVE TypeOK'
  <2>1. /\ Record(tr, [ev |-> "exit", at |-> Len(screen)]) \in Seq(Traces)
         /\ Len(Record(tr, [ev |-> "exit", at |-> Len(screen)])) = Len(traces)
    <3>1. tr \in 0..Len(traces) /\ [ev |-> "exit", at |-> Len(screen)] \in Events
      BY DEF TypeOK, CallerType, PtyType, RecorderType, Events
    <3>. QED
      BY <3>1, RecordType DEF TypeOK, RecorderType
  <2>2. traces' \in Seq(Traces) /\ Len(traces') = Len(traces) /\ Len(traces) \in Nat
    BY <1>26, <2>1 DEF LockCfgToFinalize, TypeOK, RecorderType
  <2>3. CallerType'
    <3>1. CASE tr # 0
      <4>1. op' \in [Callers -> Ops] /\ pc' \in [Callers -> Steps]
        BY <1>26, <2>2, <3>1 DEF LockCfgToFinalize, TypeOK, CallerType
      <4>2. held' \in [Callers -> 0..Len(traces')]
        BY <1>26, <2>2, <3>1 DEF LockCfgToFinalize, TypeOK, CallerType, RecorderType
      <4>. QED
        BY <1>26, <2>2, <3>1, <4>1, <4>2 DEF LockCfgToFinalize, TypeOK, CallerType
    <3>2. CASE tr = 0
      <4>1. op' \in [Callers -> Ops] /\ pc' \in [Callers -> Steps]
        BY <1>26, <2>2, <3>2 DEF LockCfgToFinalize, TypeOK, CallerType
      <4>2. held' \in [Callers -> 0..Len(traces')]
        BY <1>26, <2>2, <3>2 DEF LockCfgToFinalize, TypeOK, CallerType, RecorderType
      <4>. QED
        BY <1>26, <2>2, <3>2, <4>1, <4>2 DEF LockCfgToFinalize, TypeOK, CallerType
    <3>. QED
      BY <1>26, <2>2, <3>1, <3>2 DEF LockCfgToFinalize
  <2>4. PtyType'
    BY <1>26, <2>2 DEF LockCfgToFinalize, TypeOK, PtyType
  <2>5. RecorderType'
    BY <1>26, <2>2 DEF LockCfgToFinalize, TypeOK, CallerType, RecorderType
  <2>. QED
    BY <2>3, <2>4, <2>5 DEF TypeOK
<1>27. ASSUME NEW c \in Callers, CloseExit(c) PROVE TypeOK'
  <2>1. /\ Record(tr, [ev |-> "exit", at |-> Len(screen)]) \in Seq(Traces)
         /\ Len(Record(tr, [ev |-> "exit", at |-> Len(screen)])) = Len(traces)
    <3>1. tr \in 0..Len(traces) /\ [ev |-> "exit", at |-> Len(screen)] \in Events
      BY DEF TypeOK, CallerType, PtyType, RecorderType, Events
    <3>. QED
      BY <3>1, RecordType DEF TypeOK, RecorderType
  <2>2. traces' \in Seq(Traces) /\ Len(traces') = Len(traces) /\ Len(traces) \in Nat
    BY <1>27, <2>1 DEF CloseExit, TypeOK, RecorderType
  <2>3. CallerType'
    BY <1>27, <2>2 DEF CloseExit, TypeOK, CallerType, RecorderType
  <2>4. PtyType'
    BY <1>27, <2>2 DEF CloseExit, TypeOK, PtyType
  <2>5. RecorderType'
    BY <1>27, <2>2 DEF CloseExit, TypeOK, CallerType, RecorderType
  <2>. QED
    BY <2>3, <2>4, <2>5 DEF TypeOK
<1>28. ASSUME NEW c \in Callers, ClosePublish(c) PROVE TypeOK'
  <2>1. /\ Len(traces) \in Nat /\ op[c] \in Ops
        /\ tr # 0 => traces[tr] \in Traces
    BY DEF TypeOK, CallerType, RecorderType
  <2>2. ASSUME NEW outcome \in {"published", "failed"}
        PROVE  LET t == [traces[tr] EXCEPT !.state = outcome, !.closer = op[c]]
               IN  /\ [traces EXCEPT ![tr] = t] \in Seq(Traces)
                   /\ Len([traces EXCEPT ![tr] = t]) = Len(traces)
    <3>1. tr # 0 => [traces[tr] EXCEPT !.state = outcome, !.closer = op[c]] \in Traces
      BY <2>1 DEF Traces
    <3>. QED
      BY <3>1, ReplaceType DEF TypeOK, RecorderType
  <2>3. traces' \in Seq(Traces) /\ Len(traces') = Len(traces) /\ Len(traces) \in Nat
    BY <1>28, <2>1, <2>2 DEF ClosePublish, TypeOK, RecorderType
  <2>4. CallerType'
    <3>1. op' \in [Callers -> Ops] /\ pc' \in [Callers -> Steps]
      BY <1>28 DEF ClosePublish, Goto, TypeOK, CallerType
    <3>2. held' \in [Callers -> 0..Len(traces')]
      BY <1>28, <2>3 DEF ClosePublish, TypeOK, CallerType, RecorderType
    <3>. QED
      BY <1>28, <3>1, <3>2 DEF ClosePublish, locks, onces, TypeOK, CallerType
  <2>5. PtyType'
    BY <1>28, <2>3 DEF ClosePublish, TypeOK, PtyType
  <2>6. RecorderType'
    BY <1>28, <2>3 DEF ClosePublish, TypeOK, CallerType, RecorderType
  <2>. QED
    BY <2>4, <2>5, <2>6 DEF TypeOK
<1>29. ASSUME NEW c \in Callers, CloseHook(c) PROVE TypeOK'
  <2>1. CallerType'
    <3>1. CASE op[c] = "enable" /\ traces[held[c]].state = "published"
      <4>1. op' \in [Callers -> Ops] /\ pc' \in [Callers -> Steps]
        BY <1>29, <3>1 DEF CloseHook, TypeOK, CallerType
      <4>2. held' \in [Callers -> 0..Len(traces')]
        BY <1>29, <3>1 DEF CloseHook, TypeOK, CallerType, RecorderType
      <4>. QED
        BY <1>29, <3>1, <4>1, <4>2 DEF CloseHook, TypeOK, CallerType
    <3>2. CASE ~(op[c] = "enable" /\ traces[held[c]].state = "published")
      <4>1. op' \in [Callers -> Ops] /\ pc' \in [Callers -> Steps]
        BY <1>29, <3>2 DEF CloseHook, TypeOK, CallerType
      <4>2. held' \in [Callers -> 0..Len(traces')]
        BY <1>29, <3>2 DEF CloseHook, TypeOK, CallerType, RecorderType
      <4>. QED
        BY <1>29, <3>2, <4>1, <4>2 DEF CloseHook, TypeOK, CallerType
    <3>. QED
      BY <1>29, <3>1, <3>2 DEF CloseHook
  <2>2. PtyType'
    BY <1>29 DEF CloseHook, TypeOK, PtyType
  <2>3. RecorderType'
    BY <1>29 DEF CloseHook, TypeOK, CallerType, RecorderType
  <2>. QED
    BY <2>1, <2>2, <2>3 DEF TypeOK
<1>30. ASSUME NEW c \in Callers, CreateTrace(c) PROVE TypeOK'
  <2>1. NewTrace \in Traces
    BY NewTraceType DEF TypeOK, PtyType
  <2>2. /\ Append(traces, NewTrace) \in Seq(Traces) 
        /\ Len(Append(traces, NewTrace)) = Len(traces) + 1
        /\ traces \in Seq(Traces) /\ Len(traces) \in Nat
    BY <2>1 DEF TypeOK, RecorderType
  <2>3. traces' \in Seq(Traces) /\ Len(traces') >= Len(traces) /\ Len(traces) \in Nat
    BY <1>30, <2>2 DEF CreateTrace
  <2>4. CallerType'
    <3>1. CASE traces' = Append(traces, NewTrace) /\ Goto(c, "setHook") /\ UNCHANGED <<op, held, inputMu, cfgMu>>
      <4>1. op' \in [Callers -> Ops] /\ pc' \in [Callers -> Steps]
        BY <1>30, <2>3, <3>1 DEF CreateTrace, TypeOK, CallerType
      <4>2. held' \in [Callers -> 0..Len(traces')]
        BY <1>30, <2>3, <3>1 DEF CreateTrace, TypeOK, CallerType, RecorderType
      <4>. QED
        BY <1>30, <2>3, <3>1, <4>1, <4>2 DEF CreateTrace, TypeOK, CallerType
    <3>2. CASE Unlock(c) /\ UNCHANGED traces
      <4>1. op' \in [Callers -> Ops] /\ pc' \in [Callers -> Steps]
        BY <1>30, <2>3, <3>2 DEF CreateTrace, TypeOK, CallerType
      <4>2. held' \in [Callers -> 0..Len(traces')]
        BY <1>30, <2>3, <3>2 DEF CreateTrace, TypeOK, CallerType, RecorderType
      <4>. QED
        BY <1>30, <2>3, <3>2, <4>1, <4>2 DEF CreateTrace, TypeOK, CallerType
    <3>. QED
      BY <1>30, <2>3, <3>1, <3>2 DEF CreateTrace
  <2>5. PtyType'
    BY <1>30, <2>3 DEF CreateTrace, TypeOK, PtyType
  <2>6. RecorderType'
    BY <1>30, <2>3 DEF CreateTrace, TypeOK, CallerType, RecorderType
  <2>. QED
    BY <2>4, <2>5, <2>6 DEF TypeOK
<1>31. ASSUME NEW c \in Callers, InstallHook(c) PROVE TypeOK'
  <2>1. Len(screen) \in Nat /\ Len(traces) \in Nat
    BY DEF TypeOK, PtyType, RecorderType
  <2>2. LET t == [traces[Len(traces)] EXCEPT !.hooked = Len(screen)]
        IN  /\ [traces EXCEPT ![Len(traces)] = t] \in Seq(Traces)
            /\ Len([traces EXCEPT ![Len(traces)] = t]) = Len(traces)
    <3>1. Len(traces) # 0 => traces[Len(traces)] \in Traces
      BY <2>1 DEF TypeOK, RecorderType
    <3>2. Len(traces) # 0 => [traces[Len(traces)] EXCEPT !.hooked = Len(screen)] \in Traces
      BY <2>1, <3>1 DEF Traces
    <3>. QED
      BY <2>1, <3>2, ReplaceType DEF TypeOK, RecorderType
  <2>3. traces' \in Seq(Traces) /\ Len(traces') = Len(traces) /\ Len(traces) \in Nat
    BY <1>31, <2>1, <2>2 DEF InstallHook, TypeOK, RecorderType
  <2>4. CallerType'
    BY <1>31, <2>3 DEF InstallHook, TypeOK, CallerType, RecorderType
  <2>5. PtyType'
    BY <1>31, <2>3 DEF InstallHook, TypeOK, PtyType
  <2>6. RecorderType'
    BY <1>31, <2>3 DEF InstallHook, TypeOK, CallerType, RecorderType
  <2>. QED
    BY <2>4, <2>5, <2>6 DEF TypeOK
<1>32. ASSUME NEW c \in Callers, FinalizeOnce(c) PROVE TypeOK'
  <2>1. CallerType'
    <3>1. CASE finalizeOnce = "done"
      <4>1. op' \in [Callers -> Ops] /\ pc' \in [Callers -> Steps]
        BY <1>32, <3>1 DEF FinalizeOnce, TypeOK, CallerType
      <4>2. held' \in [Callers -> 0..Len(traces')]
        <5>1. traces' = traces /\ held' = [held EXCEPT ![c] = 0] /\ Len(traces) \in Nat
          BY <1>32, <3>1 DEF FinalizeOnce, Return, recVs, TypeOK, RecorderType
        <5>. QED
          BY <5>1 DEF TypeOK, CallerType
      <4>. QED
        BY <1>32, <3>1, <4>1, <4>2 DEF FinalizeOnce, TypeOK, CallerType
    <3>2. CASE finalizeOnce # "done"
      <4>1. op' \in [Callers -> Ops] /\ pc' \in [Callers -> Steps]
        BY <1>32, <3>2 DEF FinalizeOnce, TypeOK, CallerType
      <4>2. held' \in [Callers -> 0..Len(traces')]
        BY <1>32, <3>2 DEF FinalizeOnce, TypeOK, CallerType, RecorderType
      <4>. QED
        BY <1>32, <3>2, <4>1, <4>2 DEF FinalizeOnce, TypeOK, CallerType
    <3>. QED
      BY <1>32, <3>1, <3>2 DEF FinalizeOnce
  <2>2. PtyType'
    BY <1>32 DEF FinalizeOnce, TypeOK, PtyType
  <2>3. RecorderType'
    BY <1>32 DEF FinalizeOnce, TypeOK, CallerType, RecorderType
  <2>. QED
    BY <2>1, <2>2, <2>3 DEF TypeOK
<1>33. ASSUME NEW c \in Callers, DrainOnce(c) PROVE TypeOK'
  <2>1. CallerType'
    BY <1>33 DEF DrainOnce, AfterDrain, TypeOK, CallerType, RecorderType
  <2>2. PtyType'
    BY <1>33 DEF DrainOnce, AfterDrain, TypeOK, PtyType
  <2>3. RecorderType'
    BY <1>33 DEF DrainOnce, AfterDrain, TypeOK, CallerType, RecorderType
  <2>. QED
    BY <2>1, <2>2, <2>3 DEF TypeOK
<1>34. ASSUME NEW c \in Callers, KillChild(c) PROVE TypeOK'
  <2>1. CallerType'
    BY <1>34 DEF KillChild, TypeOK, CallerType, RecorderType
  <2>2. PtyType'
    BY <1>34 DEF KillChild, TypeOK, PtyType
  <2>3. RecorderType'
    BY <1>34 DEF KillChild, TypeOK, CallerType, RecorderType
  <2>. QED
    BY <2>1, <2>2, <2>3 DEF TypeOK
<1>35. ASSUME NEW c \in Callers, CloseMaster(c) PROVE TypeOK'
  <2>1. CallerType'
    BY <1>35 DEF CloseMaster, TypeOK, CallerType, RecorderType
  <2>2. PtyType'
    BY <1>35 DEF CloseMaster, TypeOK, PtyType
  <2>3. RecorderType'
    BY <1>35 DEF CloseMaster, TypeOK, CallerType, RecorderType
  <2>. QED
    BY <2>1, <2>2, <2>3 DEF TypeOK
<1>36. ASSUME NEW c \in Callers, JoinPump(c) PROVE TypeOK'
  <2>1. CallerType'
    BY <1>36 DEF JoinPump, AfterDrain, TypeOK, CallerType, RecorderType
  <2>2. PtyType'
    BY <1>36 DEF JoinPump, AfterDrain, TypeOK, PtyType
  <2>3. RecorderType'
    BY <1>36 DEF JoinPump, AfterDrain, TypeOK, CallerType, RecorderType
  <2>. QED
    BY <2>1, <2>2, <2>3 DEF TypeOK
<1>37. CASE UNCHANGED vars
  BY <1>37 DEF TypeOK, CallerType, PtyType, RecorderType
<1>. QED
  BY <1>1, <1>2, <1>3, <1>4, <1>5, <1>6, <1>7, <1>8, <1>9, <1>10, <1>11, <1>12, <1>13, <1>14,
     <1>15, <1>16, <1>17, <1>18, <1>19, <1>20, <1>21, <1>22, <1>23, <1>24, <1>25, <1>26, <1>27, <1>28,
     <1>29, <1>30, <1>31, <1>32, <1>33, <1>34, <1>35, <1>36, <1>37
     DEF Next, ChildNext, PumpNext, BeginOp, Advance, Over

(* The type invariant holds in every state of every behaviour.              *)
THEOREM SessionTypeCorrect == Spec => []TypeOK
<1>1. Init => TypeOK
  BY InitType
<1>2. TypeOK /\ [Next]_vars => TypeOK'
  BY StepType
<1>. QED
  BY <1>1, <1>2, PTL DEF Spec

-----------------------------------------------------------------------------
(* The recorder.                                                            *)
(*                                                                          *)
(* RecorderInv is inductive.  Most actions do not touch what it speaks of;  *)
(* QuietStep and OutsideStep say what "does not touch" means for a step     *)
(* that moves no caller and for a step of a caller that does not hold       *)
(* cfgMu.  The other steps, those under cfgMu, are taken one by one.        *)

(* A step that creates no trace, and opens and closes none.                 *)
SameStates == /\ Len(traces') = Len(traces) /\ DOMAIN traces' = DOMAIN traces
              /\ \A i \in DOMAIN traces : traces'[i].state = traces[i].state

(* A step of c to s that takes, keeps or releases inputMu as s requires.    *)
InputMove(c, s) ==
  \/ inputMu = NoOne /\ inputMu' = c /\ s \in InputSteps
  \/ pc[c] \in InputSteps /\ inputMu' = NoOne /\ s \notin InputSteps
  \/ inputMu' = inputMu /\ (pc[c] \in InputSteps <=> s \in InputSteps)

(* A step of c to s outside the sections of cfgMu.                          *)
OutsideCfg(c, s) ==
  /\ pc' = [pc EXCEPT ![c] = s]
  /\ pc[c] \notin CfgSteps /\ s \notin CfgSteps
  /\ \A d \in Callers : d # c => op'[d] = op[d]
  /\ cfgMu' = cfgMu /\ tr' = tr /\ hook' = hook /\ finalized' = finalized
  /\ finalizeOnce' = "done" => finalizeOnce = "done"
  /\ InputMove(c, s)
  /\ SameStates

-----------------------------------------------------------------------------
(* Recording an event opens and closes no trace, and leaves a trace that is *)
(* not open as it is.                                                       *)
LEMMA RecordStates ==
  ASSUME traces \in Seq(Traces), NEW i \in 0..Len(traces), NEW e
  PROVE  /\ Len(Record(i, e)) = Len(traces) /\ DOMAIN Record(i, e) = DOMAIN traces
         /\ \A j \in DOMAIN traces :
              /\ Record(i, e)[j].state = traces[j].state
              /\ traces[j].state # "open" => Record(i, e)[j] = traces[j]
<1>1. CASE i # 0 /\ traces[i].state = "open"
  <2>1. i \in DOMAIN traces /\ traces[i] \in Traces
    BY <1>1
  <2>2. Record(i, e) = [traces EXCEPT ![i].log = Append(@, e)]
    BY <1>1 DEF Record
  <2>3. /\ Len(Record(i, e)) = Len(traces) /\ DOMAIN Record(i, e) = DOMAIN traces
        /\ \A j \in DOMAIN traces : j # i => Record(i, e)[j] = traces[j]
    BY <2>1, <2>2
  <2>4. Record(i, e)[i] = [traces[i] EXCEPT !.log = Append(@, e)]
    BY <2>1, <2>2
  <2>5. Record(i, e)[i].state = traces[i].state
    BY <2>1, <2>4 DEF Traces
  <2>. QED
    BY <1>1, <2>3, <2>5
<1>2. CASE ~(i # 0 /\ traces[i].state = "open")
  BY <1>2 DEF Record
<1>. QED
  BY <1>1, <1>2

(* A step that moves no caller and only records preserves RecorderInv.      *)
LEMMA QuietStep ==
  ASSUME TypeOK, RecorderInv, SameStates,
         UNCHANGED <<pc, op, inputMu, cfgMu, tr, hook, finalized, finalizeOnce>>
  PROVE  RecorderInv'
<1>1. InputOwner' /\ CfgOwner'
  BY DEF RecorderInv, InputOwner, CfgOwner
<1>2. tr \in 0..Len(traces) /\ Len(traces) \in Nat /\ DOMAIN traces = 1..Len(traces)
  BY DEF TypeOK, RecorderType
<1>3. ActiveTrace'
  BY <1>2 DEF RecorderInv, ActiveTrace, SameStates
<1>4. OneOpenTrace'
  BY DEF RecorderInv, OneOpenTrace, SameStates
<1>5. HookFollowsTrace' /\ FinalIsQuiet'
  BY DEF RecorderInv, HookFollowsTrace, FinalIsQuiet
<1>. QED
  BY <1>1, <1>3, <1>4, <1>5 DEF RecorderInv

(* A step of a caller outside the sections of cfgMu preserves RecorderInv.  *)
LEMMA OutsideStep ==
  ASSUME TypeOK, RecorderInv, NEW c \in Callers, NEW s \in Steps, OutsideCfg(c, s)
  PROVE  RecorderInv'
<1>. USE SessionAssumption
<1>1. /\ pc \in [Callers -> Steps] /\ pc'[c] = s
      /\ \A d \in Callers : d # c => pc'[d] = pc[d]
  BY DEF TypeOK, CallerType, OutsideCfg
<1>2. InputOwner'
  BY <1>1 DEF RecorderInv, InputOwner, OutsideCfg, InputMove
<1>3. \A d \in Callers : /\ pc'[d] \in CfgSteps <=> pc[d] \in CfgSteps
                         /\ pc[d] \in CfgSteps => pc'[d] = pc[d] /\ op'[d] = op[d]
  BY <1>1 DEF OutsideCfg
<1>4. CfgOwner'
  BY <1>3 DEF RecorderInv, CfgOwner, OutsideCfg
<1>5. /\ tr \in 0..Len(traces) /\ tr' = tr /\ hook' = hook
      /\ Len(traces) \in Nat /\ DOMAIN traces = 1..Len(traces)
  BY DEF TypeOK, RecorderType, OutsideCfg
<1>6. ActiveTrace'
  <2>1. tr' # 0 => traces'[tr'].state = "open"
    BY <1>5 DEF RecorderInv, ActiveTrace, OutsideCfg, SameStates
  <2>2. ASSUME NEW d \in Callers, pc'[d] \in CfgSteps
        PROVE  /\ pc'[d] \in {"closeExit", "closePublish"} => tr' # 0
               /\ pc'[d] \in {"closeHook", "newTrace", "setHook"} => tr' = 0
    BY <1>3, <1>5, <2>2 DEF RecorderInv, ActiveTrace
  <2>3. ASSUME NEW d \in Callers, pc'[d] = "setHook"
        PROVE  Len(traces') # 0 /\ traces'[Len(traces')].state = "open"
    <3>1. pc[d] = "setHook"
      BY <1>3, <2>3 DEF CfgSteps
    <3>2. Len(traces) # 0 /\ traces[Len(traces)].state = "open"
      BY <3>1 DEF RecorderInv, ActiveTrace
    <3>. QED
      BY <1>5, <3>2 DEF OutsideCfg, SameStates
  <2>. QED
    BY <2>1, <2>2, <2>3 DEF ActiveTrace, CfgSteps
<1>7. \A d \in Callers : \A x \in {"setHook", "closeHook"} : pc[d] = x => pc'[d] = x
  BY <1>3 DEF CfgSteps
<1>8. OneOpenTrace'
  <2>1. SUFFICES ASSUME NEW i \in DOMAIN traces', traces'[i].state = "open"
        PROVE  i = tr' \/ (i = Len(traces') /\ \E d \in Callers : pc'[d] = "setHook")
    BY DEF OneOpenTrace
  <2>2. i \in DOMAIN traces /\ traces[i].state = "open" /\ Len(traces') = Len(traces)
    BY <2>1 DEF OutsideCfg, SameStates
  <2>3. i = tr \/ (i = Len(traces) /\ \E d \in Callers : pc[d] = "setHook")
    BY <2>2 DEF RecorderInv, OneOpenTrace
  <2>. QED
    BY <1>5, <1>7, <2>2, <2>3
<1>9. HookFollowsTrace'
  BY <1>5, <1>7 DEF RecorderInv, HookFollowsTrace
<1>10. FinalIsQuiet'
  <2>1. finalizeOnce' = "done" => finalized' /\ tr' = 0 /\ hook' = 0 /\ cfgMu' = NoOne
    BY DEF RecorderInv, FinalIsQuiet, OutsideCfg
  <2>2. ASSUME NEW d \in Callers, pc'[d] \in CfgSteps, op'[d] = "finalize"
        PROVE  finalized'
    BY <1>3, <2>2 DEF RecorderInv, FinalIsQuiet, OutsideCfg
  <2>. QED
    BY <2>1, <2>2 DEF FinalIsQuiet
<1>. QED
  BY <1>2, <1>4, <1>6, <1>8, <1>9, <1>10 DEF RecorderInv

(* A step that leaves traces alone keeps their states.                      *)
LEMMA UnchangedStates == UNCHANGED traces => SameStates
  BY DEF SameStates

-----------------------------------------------------------------------------
(* Every step of the child, of the pump and of a caller outside cfgMu.      *)
LEMMA EnvironmentRecorder ==
  TypeOK /\ RecorderInv /\ (ChildNext \/ PumpNext) => RecorderInv'
<1>. SUFFICES ASSUME TypeOK, RecorderInv, ChildNext \/ PumpNext PROVE RecorderInv'
  OBVIOUS
<1>. USE DEF locks, callers, childVs, pumpVs, recVs, onces
<1>1. CASE ChildNext
  <2>1. /\ UNCHANGED traces
        /\ UNCHANGED <<pc, op, inputMu, cfgMu, tr, hook, finalized, finalizeOnce>>
    BY <1>1 DEF ChildNext, ChildEmit, ChildRead, ChildExit, PublishExit
  <2>. QED
    BY <2>1, UnchangedStates, QuietStep
<1>2. CASE PumpRead \/ PumpEOF \/ PumpFeed
  <2>1. /\ UNCHANGED traces
        /\ UNCHANGED <<pc, op, inputMu, cfgMu, tr, hook, finalized, finalizeOnce>>
    BY <1>2 DEF PumpRead, PumpEOF, PumpFeed
  <2>. QED
    BY <2>1, UnchangedStates, QuietStep
<1>3. CASE PumpHook
  <2>1. traces' = Record(chunkHook, [ev |-> "out", at |-> Len(screen)])
    BY <1>3 DEF PumpHook
  <2>2. SameStates
    BY <2>1, RecordStates DEF SameStates, TypeOK, RecorderType
  <2>3. UNCHANGED <<pc, op, inputMu, cfgMu, tr, hook, finalized, finalizeOnce>>
    BY <1>3 DEF PumpHook
  <2>. QED
    BY <2>2, <2>3, QuietStep
<1>. QED
  BY <1>1, <1>2, <1>3 DEF PumpNext

(* A caller that begins an operation.                                       *)
LEMMA BeginRecorder ==
  ASSUME TypeOK, RecorderInv, NEW c \in Callers, BeginOp(c)
  PROVE  RecorderInv'
<1>. USE DEF locks, callers, childVs, pumpVs, recVs, onces, Begin, BeginLocked, Goto,
             InputSteps, CfgSteps, InputMove, OutsideCfg, Steps
<1>. SameStates /\ op \in [Callers -> Ops]
  BY UnchangedStates DEF BeginOp, BeginInput, BeginResize, BeginMark, HandleTraceStart,
     HandleTraceStop, BeginClose, BeginWatch, TypeOK, CallerType
<1>1. CASE BeginInput(c)
  <2>1. OutsideCfg(c, "write")
    BY <1>1 DEF BeginInput
  <2>. QED
    BY <2>1, OutsideStep
<1>2. CASE BeginResize(c)
  <2>1. OutsideCfg(c, "readTr")
    BY <1>2 DEF BeginResize
  <2>. QED
    BY <2>1, OutsideStep
<1>3. CASE BeginMark(c)
  <2>1. OutsideCfg(c, "readTr")
    BY <1>3 DEF BeginMark
  <2>. QED
    BY <2>1, OutsideStep
<1>4. CASE HandleTraceStart(c)
  <2>1. OutsideCfg(c, "lockInput")
    BY <1>4 DEF HandleTraceStart
  <2>. QED
    BY <2>1, OutsideStep
<1>5. CASE HandleTraceStop(c)
  <2>1. OutsideCfg(c, "lockInput")
    BY <1>5 DEF HandleTraceStop
  <2>. QED
    BY <2>1, OutsideStep
<1>6. CASE BeginClose(c)
  <2>1. OutsideCfg(c, "beginFinalize")
    BY <1>6 DEF BeginClose
  <2>. QED
    BY <2>1, OutsideStep
<1>7. CASE BeginWatch(c)
  <2>1. OutsideCfg(c, "drain")
    BY <1>7 DEF BeginWatch
  <2>. QED
    BY <2>1, OutsideStep
<1>. QED
  BY <1>1, <1>2, <1>3, <1>4, <1>5, <1>6, <1>7 DEF BeginOp

(* A step of an operation outside the sections of cfgMu.                    *)
OutsideActions(c) ==
  \/ WriteInput(c) \/ WriteFails(c) \/ ReadTr(c) \/ LogInput(c) \/ CommitResize(c)
  \/ ResizeFails(c) \/ LogResize(c) \/ MarkTrace(c) \/ LockInput(c) \/ FinalizeOnce(c)
  \/ DrainOnce(c) \/ KillChild(c) \/ CloseMaster(c) \/ JoinPump(c)

LEMMA OutsideRecorder ==
  ASSUME TypeOK, RecorderInv, NEW c \in Callers, OutsideActions(c)
  PROVE  RecorderInv'
<1>. USE DEF locks, callers, childVs, pumpVs, recVs, onces, Goto, Return,
             InputSteps, CfgSteps, InputMove, OutsideCfg, Steps
<1>. op \in [Callers -> Ops]
  BY DEF TypeOK, CallerType
<1>1. CASE WriteInput(c)
  <2>1. SameStates
    BY <1>1, UnchangedStates DEF WriteInput
  <2>2. OutsideCfg(c, "readTr")
    BY <1>1, <2>1 DEF WriteInput
  <2>. QED
    BY <2>2, OutsideStep
<1>2. CASE WriteFails(c)
  <2>1. SameStates
    BY <1>2, UnchangedStates DEF WriteFails
  <2>2. OutsideCfg(c, "idle")
    BY <1>2, <2>1 DEF WriteFails
  <2>. QED
    BY <2>2, OutsideStep
<1>3. CASE ReadTr(c)
  <2>1. SameStates
    BY <1>3, UnchangedStates DEF ReadTr
  <2>2. CASE op[c] = "mark" /\ tr = 0
    <3>1. OutsideCfg(c, "idle")
      BY <1>3, <2>1, <2>2 DEF ReadTr
    <3>. QED
      BY <3>1, OutsideStep
  <2>3. CASE op[c] = "resize"
    <3>1. OutsideCfg(c, "commit")
      BY <1>3, <2>1, <2>3 DEF ReadTr
    <3>. QED
      BY <3>1, OutsideStep
  <2>4. CASE op[c] = "mark" /\ tr # 0
    <3>1. OutsideCfg(c, "mark")
      BY <1>3, <2>1, <2>4 DEF ReadTr
    <3>. QED
      BY <3>1, OutsideStep
  <2>5. CASE op[c] \notin {"mark", "resize"}
    <3>1. OutsideCfg(c, "log")
      BY <1>3, <2>1, <2>5 DEF ReadTr
    <3>. QED
      BY <3>1, OutsideStep
  <2>. QED
    BY <2>2, <2>3, <2>4, <2>5
<1>4. CASE LogInput(c)
  <2>1. traces' = Record(held[c], [ev |-> "in", at |-> Len(sent)])
    BY <1>4 DEF LogInput
  <2>2. held[c] \in 0..Len(traces) /\ traces \in Seq(Traces)
    BY DEF TypeOK, CallerType, RecorderType
  <2>3. SameStates
    BY <2>1, <2>2, RecordStates DEF SameStates
  <2>4. OutsideCfg(c, "idle")
    BY <1>4, <2>3 DEF LogInput
  <2>. QED
    BY <2>4, OutsideStep
<1>5. CASE CommitResize(c)
  <2>1. SameStates
    BY <1>5, UnchangedStates DEF CommitResize
  <2>2. OutsideCfg(c, "logResize")
    BY <1>5, <2>1 DEF CommitResize
  <2>. QED
    BY <2>2, OutsideStep
<1>6. CASE ResizeFails(c)
  <2>1. SameStates
    BY <1>6, UnchangedStates DEF ResizeFails
  <2>2. OutsideCfg(c, "idle")
    BY <1>6, <2>1 DEF ResizeFails
  <2>. QED
    BY <2>2, OutsideStep
<1>7. CASE LogResize(c)
  <2>1. traces' = Record(held[c], [ev |-> "resize", at |-> Len(screen)])
    BY <1>7 DEF LogResize
  <2>2. held[c] \in 0..Len(traces) /\ traces \in Seq(Traces)
    BY DEF TypeOK, CallerType, RecorderType
  <2>3. SameStates
    BY <2>1, <2>2, RecordStates DEF SameStates
  <2>4. OutsideCfg(c, "idle")
    BY <1>7, <2>3 DEF LogResize
  <2>. QED
    BY <2>4, OutsideStep
<1>8. CASE MarkTrace(c)
  <2>1. traces' = Record(held[c], [ev |-> "marker", at |-> Len(screen)])
    BY <1>8 DEF MarkTrace
  <2>2. held[c] \in 0..Len(traces) /\ traces \in Seq(Traces)
    BY DEF TypeOK, CallerType, RecorderType
  <2>3. SameStates
    BY <2>1, <2>2, RecordStates DEF SameStates
  <2>4. OutsideCfg(c, "idle")
    BY <1>8, <2>3 DEF MarkTrace
  <2>. QED
    BY <2>4, OutsideStep
<1>9. CASE LockInput(c)
  <2>1. SameStates
    BY <1>9, UnchangedStates DEF LockInput
  <2>2. OutsideCfg(c, "lockCfg")
    BY <1>9, <2>1 DEF LockInput
  <2>. QED
    BY <2>2, OutsideStep
<1>10. CASE FinalizeOnce(c)
  <2>1. SameStates
    BY <1>10, UnchangedStates DEF FinalizeOnce
  <2>2. CASE finalizeOnce = "done"
    <3>1. OutsideCfg(c, "idle")
      BY <1>10, <2>1, <2>2 DEF FinalizeOnce
    <3>. QED
      BY <3>1, OutsideStep
  <2>3. CASE finalizeOnce # "done"
    <3>1. OutsideCfg(c, "drain")
      BY <1>10, <2>1, <2>3 DEF FinalizeOnce
    <3>. QED
      BY <3>1, OutsideStep
  <2>. QED
    BY <2>2, <2>3
<1>11. CASE DrainOnce(c)
  <2>1. SameStates
    BY <1>11, UnchangedStates DEF DrainOnce
  <2>2. CASE drainOnce = "done" /\ op[c] = "watch"
    <3>1. OutsideCfg(c, "beginFinalize")
      BY <1>11, <2>1, <2>2 DEF DrainOnce, AfterDrain
    <3>. QED
      BY <3>1, OutsideStep
  <2>3. CASE drainOnce = "done" /\ op[c] # "watch"
    <3>1. OutsideCfg(c, "lockInput")
      BY <1>11, <2>1, <2>3 DEF DrainOnce, AfterDrain
    <3>. QED
      BY <3>1, OutsideStep
  <2>4. CASE drainOnce # "done"
    <3>1. OutsideCfg(c, "kill")
      BY <1>11, <2>1, <2>4 DEF DrainOnce, AfterDrain
    <3>. QED
      BY <3>1, OutsideStep
  <2>. QED
    BY <2>2, <2>3, <2>4
<1>12. CASE KillChild(c)
  <2>1. SameStates
    BY <1>12, UnchangedStates DEF KillChild
  <2>2. OutsideCfg(c, "reap")
    BY <1>12, <2>1 DEF KillChild
  <2>. QED
    BY <2>2, OutsideStep
<1>13. CASE CloseMaster(c)
  <2>1. SameStates
    BY <1>13, UnchangedStates DEF CloseMaster
  <2>2. OutsideCfg(c, "joinPump")
    BY <1>13, <2>1 DEF CloseMaster
  <2>. QED
    BY <2>2, OutsideStep
<1>14. CASE JoinPump(c)
  <2>1. SameStates
    BY <1>14, UnchangedStates DEF JoinPump
  <2>2. CASE op[c] = "watch"
    <3>1. OutsideCfg(c, "beginFinalize")
      BY <1>14, <2>1, <2>2 DEF JoinPump, AfterDrain
    <3>. QED
      BY <3>1, OutsideStep
  <2>3. CASE op[c] # "watch"
    <3>1. OutsideCfg(c, "lockInput")
      BY <1>14, <2>1, <2>3 DEF JoinPump, AfterDrain
    <3>. QED
      BY <3>1, OutsideStep
  <2>. QED
    BY <2>2, <2>3
<1>. QED
  BY <1>1, <1>2, <1>3, <1>4, <1>5, <1>6, <1>7, <1>8, <1>9, <1>10, <1>11, <1>12, <1>13, <1>14 DEF OutsideActions

-----------------------------------------------------------------------------
(* The owner of cfgMu is alone in its sections; while it is free, nobody is *)
(* in them and the hook is the active trace's.                              *)
LEMMA CfgAlone ==
  ASSUME TypeOK, RecorderInv, NEW c \in Callers
  PROVE  /\ pc[c] \in CfgSteps => \A d \in Callers : d # c => pc[d] \notin CfgSteps
         /\ cfgMu = NoOne => /\ \A d \in Callers : pc[d] \notin CfgSteps
                             /\ hook = tr
<1>1. pc[c] \in CfgSteps => \A d \in Callers : d # c => pc[d] \notin CfgSteps
  BY DEF RecorderInv, CfgOwner
<1>2. cfgMu = NoOne => \A d \in Callers : pc[d] \notin CfgSteps
  BY SessionAssumption DEF RecorderInv, CfgOwner
<1>3. cfgMu = NoOne => hook = tr
  BY <1>2 DEF RecorderInv, HookFollowsTrace, CfgSteps
<1>. QED
  BY <1>1, <1>2, <1>3

(* A caller that releases both locks, with the hook in step with the trace. *)
LEMMA UnlockStep ==
  ASSUME TypeOK, TypeOK', RecorderInv, NEW c \in Callers, Unlock(c),
         pc[c] \in CfgSteps \/ (pc[c] = "lockCfg" /\ cfgMu = NoOne),
         hook' = tr', tr' # 0 => traces'[tr'].state = "open",
         \A i \in DOMAIN traces' : traces'[i].state = "open" => i = tr',
         finalizeOnce' = "done" => finalized' /\ tr' = 0
  PROVE  RecorderInv'
<1>. USE SessionAssumption
<1>1. /\ pc \in [Callers -> Steps] /\ pc'[c] = "idle" /\ inputMu' = NoOne /\ cfgMu' = NoOne
      /\ \A d \in Callers : d # c => pc'[d] = pc[d]
  BY DEF TypeOK, CallerType, Unlock, Return
<1>2. \A d \in Callers : pc'[d] \notin CfgSteps
  BY <1>1, CfgAlone DEF CfgSteps
<1>3. inputMu = c
  BY DEF RecorderInv, InputOwner, InputSteps
<1>4. \A d \in Callers : pc'[d] \notin InputSteps
  BY <1>1, <1>3 DEF RecorderInv, InputOwner, InputSteps, CfgSteps
<1>5. InputOwner' /\ CfgOwner'
  BY <1>1, <1>2, <1>4 DEF InputOwner, CfgOwner
<1>6. ActiveTrace' /\ OneOpenTrace' /\ HookFollowsTrace' /\ FinalIsQuiet'
  BY <1>1, <1>2 DEF ActiveTrace, OneOpenTrace, HookFollowsTrace, FinalIsQuiet, CfgSteps
<1>. QED
  BY <1>5, <1>6 DEF RecorderInv

(* A caller that moves to s inside the sections of cfgMu keeps both locks.  *)
LEMMA LocksKept ==
  ASSUME TypeOK, RecorderInv, NEW c \in Callers, NEW s \in CfgSteps, Goto(c, s),
         \/ pc[c] \in CfgSteps /\ cfgMu' = cfgMu
         \/ pc[c] = "lockCfg" /\ cfgMu = NoOne /\ cfgMu' = c,
         inputMu' = inputMu
  PROVE  /\ pc'[c] = s
         /\ \A d \in Callers : d # c => pc'[d] = pc[d] /\ pc'[d] \notin CfgSteps
         /\ InputOwner' /\ CfgOwner'
<1>. USE SessionAssumption
<1>1. pc'[c] = s /\ \A d \in Callers : d # c => pc'[d] = pc[d]
  BY DEF TypeOK, CallerType, Goto
<1>2. \A d \in Callers : d # c => pc'[d] \notin CfgSteps
  BY <1>1, CfgAlone
<1>3. InputOwner'
  <2>1. pc[c] \in InputSteps /\ pc'[c] \in InputSteps
    BY <1>1 DEF InputSteps
  <2>. QED
    BY <1>1, <2>1 DEF RecorderInv, InputOwner
<1>4. CfgOwner'
  BY <1>1, <1>2 DEF RecorderInv, CfgOwner
<1>. QED
  BY <1>1, <1>2, <1>3, <1>4

(* The last trace, opened by startTraceLocked, is the only open one.        *)
LEMMA NoOpenTrace ==
  ASSUME RecorderInv, tr = 0, \A c \in Callers : pc[c] # "setHook",
         traces \in Seq(Traces)
  PROVE  \A i \in DOMAIN traces : traces[i].state # "open"
<1>1. \A i \in DOMAIN traces : i # 0
  OBVIOUS
<1>. QED
  BY <1>1 DEF RecorderInv, OneOpenTrace

(* EnableTrace and DisableTrace take cfgMu.                                 *)
LEMMA LockCfgToRecordStep ==
  ASSUME TypeOK, TypeOK', RecorderInv, NEW c \in Callers, LockCfgToRecord(c)
  PROVE  RecorderInv'
<1>. USE DEF locks, callers, childVs, pumpVs, recVs, onces
<1>1. /\ cfgMu = NoOne /\ pc[c] = "lockCfg" /\ op[c] \in {"enable", "disable"}
      /\ UNCHANGED <<traces, tr, hook, finalized, finalizeOnce>>
  BY DEF LockCfgToRecord
<1>2. hook = tr /\ \A d \in Callers : pc[d] \notin CfgSteps
  BY <1>1, CfgAlone
<1>3. \A i \in DOMAIN traces : traces[i].state = "open" => i = tr
  BY <1>2 DEF RecorderInv, OneOpenTrace, CfgSteps
<1>4. CASE Rejected(c)
  <2>1. Unlock(c)
    BY <1>4 DEF LockCfgToRecord
  <2>. QED
    BY <1>1, <1>2, <1>3, <2>1, UnlockStep DEF RecorderInv, ActiveTrace, FinalIsQuiet
<1>5. CASE ~Rejected(c)
  <2>. DEFINE s == IF tr # 0 THEN "closeExit" ELSE "newTrace"
  <2>1. /\ cfgMu' = c /\ Goto(c, s) /\ UNCHANGED <<inputMu, op, held>>
    BY <1>5 DEF LockCfgToRecord
  <2>2. s \in CfgSteps
    BY DEF CfgSteps
  <2>3. /\ pc'[c] = s /\ InputOwner' /\ CfgOwner'
        /\ \A d \in Callers : d # c => pc'[d] \notin CfgSteps
    BY <1>1, <2>1, <2>2, LocksKept
  <2>4. finalizeOnce # "done"
    BY <1>1, <1>5 DEF Rejected, RecorderInv, FinalIsQuiet
  <2>5. ActiveTrace' /\ OneOpenTrace'
    BY <1>1, <1>3, <2>3 DEF RecorderInv, ActiveTrace, OneOpenTrace, CfgSteps
  <2>6. HookFollowsTrace' /\ FinalIsQuiet'
    BY <1>1, <1>2, <2>1, <2>3, <2>4 DEF HookFollowsTrace, FinalIsQuiet
  <2>. QED
    BY <2>3, <2>5, <2>6 DEF RecorderInv
<1>. QED
  BY <1>4, <1>5

(* FinalizeArtifactsWithGrace takes cfgMu and records the exit.             *)
LEMMA LockCfgToFinalizeStep ==
  ASSUME TypeOK, TypeOK', RecorderInv, NEW c \in Callers, LockCfgToFinalize(c)
  PROVE  RecorderInv'
<1>. USE DEF locks, callers, childVs, pumpVs, recVs, onces
<1>1. /\ cfgMu = NoOne /\ pc[c] = "lockCfg" /\ finalized'
      /\ UNCHANGED <<tr, hook>>
      /\ tr \in 0..Len(traces) /\ traces \in Seq(Traces)
  BY DEF LockCfgToFinalize, TypeOK, RecorderType
<1>2. hook = tr /\ \A d \in Callers : pc[d] \notin CfgSteps
  BY <1>1, CfgAlone
<1>3. \A i \in DOMAIN traces : traces[i].state = "open" => i = tr
  BY <1>2 DEF RecorderInv, OneOpenTrace, CfgSteps
<1>4. CASE tr = 0
  <2>1. Unlock(c) /\ traces' = traces
    BY <1>4 DEF LockCfgToFinalize
  <2>. QED
    BY <1>1, <1>2, <1>3, <1>4, <2>1, UnlockStep
<1>5. CASE tr # 0
  <2>1. /\ cfgMu' = c /\ Goto(c, "closeExit")
        /\ traces' = Record(tr, [ev |-> "exit", at |-> Len(screen)])
        /\ UNCHANGED <<inputMu, op, held, finalizeOnce>>
    BY <1>5 DEF LockCfgToFinalize
  <2>2. SameStates
    BY <1>1, <2>1, RecordStates DEF SameStates
  <2>3. /\ pc'[c] = "closeExit" /\ InputOwner' /\ CfgOwner'
        /\ \A d \in Callers : d # c => pc'[d] \notin CfgSteps
    BY <1>1, <2>1, LocksKept DEF CfgSteps
  <2>4. finalizeOnce # "done"
    BY <1>5 DEF RecorderInv, FinalIsQuiet
  <2>5. ActiveTrace'
    BY <1>1, <1>5, <2>2, <2>3 DEF RecorderInv, ActiveTrace, SameStates, CfgSteps
  <2>6. OneOpenTrace'
    BY <1>1, <1>3, <2>2 DEF OneOpenTrace, SameStates
  <2>7. HookFollowsTrace' /\ FinalIsQuiet'
    BY <1>1, <1>2, <2>1, <2>3, <2>4 DEF HookFollowsTrace, FinalIsQuiet
  <2>. QED
    BY <2>3, <2>5, <2>6, <2>7 DEF RecorderInv
<1>. QED
  BY <1>4, <1>5

(* closeTraceLocked writes the exit event.                                  *)
LEMMA CloseExitStep ==
  ASSUME TypeOK, TypeOK', RecorderInv, NEW c \in Callers, CloseExit(c)
  PROVE  RecorderInv'
<1>. USE DEF locks, callers, childVs, pumpVs, recVs, onces
<1>1. /\ pc[c] = "closeExit" /\ Goto(c, "closePublish")
      /\ UNCHANGED <<inputMu, cfgMu, op, tr, hook, finalized, finalizeOnce>>
      /\ tr \in 0..Len(traces) /\ traces \in Seq(Traces)
  BY DEF CloseExit, TypeOK, RecorderType
<1>2. pc[c] \in CfgSteps /\ tr # 0
  BY <1>1 DEF CfgSteps, RecorderInv, ActiveTrace
<1>3. SameStates
  BY <1>1, RecordStates DEF CloseExit, SameStates
<1>4. /\ pc'[c] = "closePublish" /\ InputOwner' /\ CfgOwner'
      /\ \A d \in Callers : d # c => pc'[d] = pc[d] /\ pc'[d] \notin CfgSteps
  BY <1>1, <1>2, LocksKept DEF CfgSteps
<1>5. \A d \in Callers : pc[d] \notin {"setHook", "closeHook"}
  BY <1>1, <1>2, CfgAlone DEF CfgSteps
<1>6. ActiveTrace'
  BY <1>1, <1>2, <1>3, <1>4 DEF RecorderInv, ActiveTrace, SameStates, CfgSteps
<1>7. OneOpenTrace'
  BY <1>1, <1>3, <1>5 DEF RecorderInv, OneOpenTrace, SameStates
<1>8. HookFollowsTrace' /\ FinalIsQuiet'
  BY <1>1, <1>2, <1>4, <1>5 DEF RecorderInv, HookFollowsTrace, FinalIsQuiet
<1>. QED
  BY <1>4, <1>6, <1>7, <1>8 DEF RecorderInv

(* Trace.Close publishes or discards the active trace.                      *)
LEMMA ClosePublishStep ==
  ASSUME TypeOK, TypeOK', RecorderInv, NEW c \in Callers, ClosePublish(c)
  PROVE  RecorderInv'
<1>. USE DEF locks, callers, childVs, pumpVs, recVs, onces
<1>1. /\ pc[c] = "closePublish" /\ Goto(c, "closeHook") /\ tr' = 0
      /\ UNCHANGED <<inputMu, cfgMu, op, hook, finalized, finalizeOnce>>
      /\ tr \in 0..Len(traces) /\ traces \in Seq(Traces)
  BY DEF ClosePublish, TypeOK, RecorderType
<1>2. pc[c] \in CfgSteps /\ tr # 0 /\ tr \in DOMAIN traces
  BY <1>1 DEF CfgSteps, RecorderInv, ActiveTrace
<1>3. /\ DOMAIN traces' = DOMAIN traces
      /\ traces'[tr].state # "open"
      /\ \A i \in DOMAIN traces : i # tr => traces'[i] = traces[i]
  <2>1. PICK outcome \in {"published", "failed"} :
          traces' = [traces EXCEPT ![tr] = [@ EXCEPT !.state = outcome, !.closer = op[c]]]
    BY DEF ClosePublish
  <2>2. traces[tr] \in Traces
    BY <1>1, <1>2
  <2>3. traces'[tr].state = outcome
    BY <1>2, <2>1, <2>2 DEF Traces
  <2>. QED
    BY <1>2, <2>1, <2>3
<1>4. /\ pc'[c] = "closeHook" /\ InputOwner' /\ CfgOwner'
      /\ \A d \in Callers : d # c => pc'[d] = pc[d] /\ pc'[d] \notin CfgSteps
  BY <1>1, <1>2, LocksKept DEF CfgSteps
<1>5. \A d \in Callers : pc[d] # "setHook"
  BY <1>1, <1>2, CfgAlone DEF CfgSteps
<1>6. ActiveTrace'
  BY <1>1, <1>4 DEF ActiveTrace, CfgSteps
<1>7. OneOpenTrace'
  BY <1>3, <1>5 DEF RecorderInv, OneOpenTrace
<1>8. HookFollowsTrace' /\ FinalIsQuiet'
  BY <1>1, <1>2, <1>4 DEF RecorderInv, HookFollowsTrace, FinalIsQuiet
<1>. QED
  BY <1>4, <1>6, <1>7, <1>8 DEF RecorderInv

(* The hook of the closed trace is removed.                                 *)
LEMMA CloseHookStep ==
  ASSUME TypeOK, TypeOK', RecorderInv, NEW c \in Callers, CloseHook(c)
  PROVE  RecorderInv'
<1>. USE DEF locks, callers, childVs, pumpVs, recVs, onces
<1>1. /\ pc[c] = "closeHook" /\ hook' = 0
      /\ UNCHANGED <<traces, tr, finalized>>
      /\ finalizeOnce' = IF op[c] = "finalize" THEN "done" ELSE finalizeOnce
      /\ traces \in Seq(Traces)
  BY DEF CloseHook, TypeOK, RecorderType
<1>2. pc[c] \in CfgSteps /\ tr = 0
  BY <1>1 DEF CfgSteps, RecorderInv, ActiveTrace
<1>3. \A d \in Callers : pc[d] # "setHook"
  BY <1>1, <1>2, CfgAlone DEF CfgSteps
<1>4. \A i \in DOMAIN traces : traces[i].state # "open"
  BY <1>1, <1>2, <1>3, NoOpenTrace
<1>5. finalizeOnce' = "done" => finalized'
  BY <1>1, <1>2 DEF RecorderInv, FinalIsQuiet
<1>6. CASE Unlock(c)
  BY <1>1, <1>2, <1>4, <1>5, <1>6, UnlockStep
<1>7. CASE Goto(c, "newTrace") /\ op[c] = "enable" /\ UNCHANGED <<op, held, inputMu, cfgMu>>
  <2>1. /\ pc'[c] = "newTrace" /\ InputOwner' /\ CfgOwner'
        /\ \A d \in Callers : d # c => pc'[d] = pc[d] /\ pc'[d] \notin CfgSteps
    BY <1>2, <1>7, LocksKept DEF CfgSteps
  <2>2. finalizeOnce' # "done"
    BY SessionAssumption, <1>1, <1>2, <1>7 DEF RecorderInv, CfgOwner, FinalIsQuiet
  <2>3. ActiveTrace' /\ OneOpenTrace' /\ HookFollowsTrace'
    BY <1>1, <1>2, <1>4, <2>1 DEF ActiveTrace, OneOpenTrace, HookFollowsTrace, CfgSteps
  <2>4. FinalIsQuiet'
    BY <1>7, <2>1, <2>2 DEF FinalIsQuiet
  <2>. QED
    BY <2>1, <2>3, <2>4 DEF RecorderInv
<1>. QED
  BY <1>6, <1>7 DEF CloseHook

(* startTraceLocked creates a trace, or fails and returns.                  *)
LEMMA CreateTraceStep ==
  ASSUME TypeOK, TypeOK', RecorderInv, NEW c \in Callers, CreateTrace(c)
  PROVE  RecorderInv'
<1>. USE DEF locks, callers, childVs, pumpVs, recVs, onces
<1>1. /\ pc[c] = "newTrace" /\ UNCHANGED <<tr, hook, finalized, finalizeOnce>>
      /\ traces \in Seq(Traces)
  BY DEF CreateTrace, TypeOK, RecorderType
<1>2. pc[c] \in CfgSteps /\ tr = 0
  BY <1>1 DEF CfgSteps, RecorderInv, ActiveTrace
<1>3. \A d \in Callers : pc[d] \notin {"setHook", "closeHook"}
  BY <1>1, <1>2, CfgAlone DEF CfgSteps
<1>4. \A i \in DOMAIN traces : traces[i].state # "open"
  BY <1>1, <1>2, <1>3, NoOpenTrace
<1>5. hook = 0
  BY <1>2, <1>3 DEF RecorderInv, HookFollowsTrace
<1>6. finalizeOnce # "done"
  BY SessionAssumption, <1>2 DEF RecorderInv, CfgOwner, FinalIsQuiet
<1>7. CASE Unlock(c) /\ UNCHANGED traces
  BY <1>1, <1>2, <1>4, <1>5, <1>6, <1>7, UnlockStep
<1>8. CASE /\ traces' = Append(traces, NewTrace) /\ Goto(c, "setHook")
           /\ UNCHANGED <<op, held, inputMu, cfgMu>>
  <2>1. /\ pc'[c] = "setHook" /\ InputOwner' /\ CfgOwner'
        /\ \A d \in Callers : d # c => pc'[d] = pc[d] /\ pc'[d] \notin CfgSteps
    BY <1>2, <1>8, LocksKept DEF CfgSteps
  <2>2. /\ Len(traces') = Len(traces) + 1 /\ Len(traces) \in Nat
        /\ traces'[Len(traces')] = NewTrace /\ DOMAIN traces' = 1..Len(traces')
        /\ \A i \in DOMAIN traces' : i # Len(traces') => i \in DOMAIN traces /\ traces'[i] = traces[i]
    <3>1. NewTrace \in Traces
      BY NewTraceType DEF TypeOK, PtyType
    <3>. QED
      BY <1>1, <1>8, <3>1
  <2>3. NewTrace.state = "open"
    BY DEF NewTrace
  <2>4. ActiveTrace'
    BY <1>1, <1>2, <2>1, <2>2, <2>3 DEF ActiveTrace, CfgSteps
  <2>5. OneOpenTrace'
    BY <1>4, <2>1, <2>2 DEF OneOpenTrace
  <2>6. HookFollowsTrace' /\ FinalIsQuiet'
    BY <1>1, <1>2, <1>5, <1>6, <1>8, <2>1 DEF RecorderInv, HookFollowsTrace, FinalIsQuiet
  <2>. QED
    BY <2>1, <2>4, <2>5, <2>6 DEF RecorderInv
<1>. QED
  BY <1>7, <1>8 DEF CreateTrace

(* startTraceLocked makes the trace the active one and installs its hook.   *)
LEMMA InstallHookStep ==
  ASSUME TypeOK, TypeOK', RecorderInv, NEW c \in Callers, InstallHook(c)
  PROVE  RecorderInv'
<1>. USE DEF locks, callers, childVs, pumpVs, recVs, onces
<1>1. /\ pc[c] = "setHook" /\ Unlock(c) /\ UNCHANGED <<finalized, finalizeOnce>>
      /\ tr' = Len(traces) /\ hook' = Len(traces)
      /\ traces' = [traces EXCEPT ![Len(traces)].hooked = Len(screen)]
      /\ traces \in Seq(Traces) /\ Len(traces) \in Nat
  BY DEF InstallHook, TypeOK, RecorderType
<1>2. /\ pc[c] \in CfgSteps /\ tr = 0
      /\ Len(traces) # 0 /\ traces[Len(traces)].state = "open"
  BY <1>1 DEF CfgSteps, RecorderInv, ActiveTrace
<1>3. /\ DOMAIN traces' = DOMAIN traces
      /\ \A i \in DOMAIN traces : traces'[i].state = traces[i].state
  <2>1. \A i \in DOMAIN traces : traces[i] \in Traces
    BY <1>1
  <2>2. traces'[Len(traces)].state = traces[Len(traces)].state
    BY <1>1, <1>2, <2>1 DEF Traces
  <2>. QED
    BY <1>1, <2>2
<1>4. \A i \in DOMAIN traces : traces[i].state = "open" => i = Len(traces)
  <2>1. \A i \in DOMAIN traces : i # 0
    BY <1>1
  <2>. QED
    BY <1>2, <2>1 DEF RecorderInv, OneOpenTrace
<1>5. Len(traces) \in DOMAIN traces
  BY <1>1, <1>2
<1>6. finalizeOnce # "done"
  BY SessionAssumption, <1>2 DEF RecorderInv, CfgOwner, FinalIsQuiet
<1>. QED
  BY <1>1, <1>2, <1>3, <1>4, <1>5, <1>6, UnlockStep

-----------------------------------------------------------------------------
(* RecorderInv holds initially.                                             *)
LEMMA InitRecorder == Init => RecorderInv
<1>. SUFFICES ASSUME Init PROVE RecorderInv
  OBVIOUS
<1>1. /\ \A c \in Callers : pc[c] = "idle"
      /\ inputMu = NoOne /\ cfgMu = NoOne /\ finalizeOnce = "idle"
      /\ hook = tr
  BY DEF Init
<1>2. InputOwner /\ CfgOwner /\ HookFollowsTrace /\ FinalIsQuiet
  BY <1>1, SessionAssumption
     DEF InputOwner, CfgOwner, HookFollowsTrace, FinalIsQuiet, InputSteps, CfgSteps
<1>3. \/ traces = <<>> /\ tr = 0
      \/ traces = <<NewTrace>> /\ tr = 1
  BY DEF Init
<1>4. NewTrace.state = "open"
  BY DEF NewTrace
<1>5. ActiveTrace /\ OneOpenTrace
  BY <1>1, <1>3, <1>4 DEF ActiveTrace, OneOpenTrace
<1>. QED
  BY <1>2, <1>5 DEF RecorderInv

(* Every step preserves RecorderInv.                                        *)
LEMMA StepRecorder == TypeOK /\ TypeOK' /\ RecorderInv /\ [Next]_vars => RecorderInv'
<1>. SUFFICES ASSUME TypeOK, TypeOK', RecorderInv, [Next]_vars PROVE RecorderInv'
  OBVIOUS
<1>1. CASE ChildNext \/ PumpNext
  BY <1>1, EnvironmentRecorder
<1>2. ASSUME NEW c \in Callers, BeginOp(c) PROVE RecorderInv'
  BY <1>2, BeginRecorder
<1>3. ASSUME NEW c \in Callers, Advance(c) PROVE RecorderInv'
  <2>1. \/ OutsideActions(c)
        \/ LockCfgToRecord(c) \/ LockCfgToFinalize(c) \/ CloseExit(c)
        \/ ClosePublish(c) \/ CloseHook(c) \/ CreateTrace(c) \/ InstallHook(c)
    BY <1>3 DEF Advance, OutsideActions
  <2>. QED
    BY <2>1, OutsideRecorder, LockCfgToRecordStep, LockCfgToFinalizeStep, CloseExitStep,
       ClosePublishStep, CloseHookStep, CreateTraceStep, InstallHookStep
<1>4. CASE UNCHANGED vars
  <2>1. UNCHANGED traces /\ UNCHANGED <<pc, op, inputMu, cfgMu, tr, hook, finalized,
                                        finalizeOnce>>
    BY <1>4 DEF vars, locks, callers, recVs, onces
  <2>. QED
    BY <2>1, UnchangedStates, QuietStep
<1>. QED
  BY <1>1, <1>2, <1>3, <1>4 DEF Next, Over

(* The inductive invariant holds in every state of every behaviour.         *)
THEOREM RecorderCorrect == Spec => []RecorderInv
<1>1. Init => TypeOK /\ RecorderInv
  BY InitType, InitRecorder
<1>2. TypeOK /\ RecorderInv /\ [Next]_vars => (TypeOK /\ RecorderInv)'
  BY StepType, StepRecorder
<1>. QED
  BY <1>1, <1>2, PTL DEF Spec

(* Once artifacts are final no trace is open, none is active and the pump   *)
(* has no hook (term.go:199-230).                                           *)
THEOREM NothingOpenOnceFinal == Spec => []NothingOpenWhenFinal
<1>1. TypeOK /\ RecorderInv => NothingOpenWhenFinal
  <2>. SUFFICES ASSUME TypeOK, RecorderInv, finalizeOnce = "done"
               PROVE  tr = 0 /\ hook = 0 /\ \A i \in DOMAIN traces : traces[i].state # "open"
    BY DEF NothingOpenWhenFinal
  <2>1. tr = 0 /\ hook = 0 /\ cfgMu = NoOne
    BY DEF RecorderInv, FinalIsQuiet
  <2>2. \A c \in Callers : pc[c] # "setHook"
    BY <2>1, SessionAssumption DEF RecorderInv, CfgOwner, CfgSteps
  <2>. QED
    BY <2>1, <2>2, NoOpenTrace DEF TypeOK, RecorderType
<1>. QED
  BY <1>1, SessionTypeCorrect, RecorderCorrect, PTL

-----------------------------------------------------------------------------
(* A step that keeps every trace that is not open.                          *)
KeepsClosed == \A i \in DOMAIN traces : traces[i].state # "open" => traces'[i] = traces[i]

(* Only the last three steps below replace a trace, and they find it open.  *)
LEMMA StepKeepsClosed == TypeOK /\ RecorderInv /\ [Next]_vars => KeepsClosed
<1>. SUFFICES ASSUME TypeOK, RecorderInv, [Next]_vars PROVE KeepsClosed
  OBVIOUS
<1>. USE DEF locks, callers, childVs, pumpVs, recVs, onces
<1>1. UNCHANGED traces => KeepsClosed
  BY DEF KeepsClosed
<1>2. ASSUME NEW i \in 0..Len(traces), NEW e, traces' = Record(i, e) PROVE KeepsClosed
  BY <1>2, RecordStates DEF KeepsClosed, TypeOK, RecorderType
<1>3. /\ tr \in 0..Len(traces) /\ chunkHook \in 0..Len(traces)
      /\ \A c \in Callers : held[c] \in 0..Len(traces)
      /\ traces \in Seq(Traces)
  BY DEF TypeOK, CallerType, RecorderType
<1>4. CASE ChildNext \/ PumpRead \/ PumpEOF \/ PumpFeed
  BY <1>1, <1>4 DEF ChildNext, ChildEmit, ChildRead, ChildExit, PublishExit, PumpRead,
                    PumpEOF, PumpFeed
<1>5. CASE PumpHook
  BY <1>2, <1>3, <1>5 DEF PumpHook
<1>6. ASSUME NEW c \in Callers, BeginOp(c) PROVE KeepsClosed
  BY <1>1, <1>6 DEF BeginOp, BeginLocked, BeginInput, BeginResize, BeginMark,
                    HandleTraceStart, HandleTraceStop, BeginClose, BeginWatch
<1>7. ASSUME NEW c \in Callers, Advance(c) PROVE KeepsClosed
  <2>1. CASE \/ WriteInput(c) \/ WriteFails(c) \/ ReadTr(c) \/ CommitResize(c)
             \/ ResizeFails(c) \/ LockInput(c) \/ LockCfgToRecord(c) \/ CloseHook(c)
    BY <1>1, <2>1 DEF WriteInput, WriteFails, ReadTr, CommitResize, ResizeFails,
                      LockInput, LockCfgToRecord, CloseHook
  <2>2. CASE \/ FinalizeOnce(c) \/ DrainOnce(c) \/ KillChild(c)
             \/ CloseMaster(c) \/ JoinPump(c)
    BY <1>1, <2>2 DEF FinalizeOnce, DrainOnce, KillChild, CloseMaster, JoinPump
  <2>3. CASE LogInput(c) \/ LogResize(c) \/ MarkTrace(c)
    BY <1>2, <1>3, <2>3 DEF LogInput, LogResize, MarkTrace
  <2>4. CASE LockCfgToFinalize(c) \/ CloseExit(c)
    BY <1>1, <1>2, <1>3, <2>4 DEF LockCfgToFinalize, CloseExit
  <2>5. CASE ClosePublish(c)
    <3>1. tr # 0 /\ traces[tr].state = "open"
      BY <2>5 DEF ClosePublish, RecorderInv, ActiveTrace
    <3>. QED
      BY <1>3, <2>5, <3>1 DEF ClosePublish, KeepsClosed
  <2>6. CASE CreateTrace(c)
    <3>1. NewTrace \in Traces
      BY NewTraceType DEF TypeOK, PtyType
    <3>2. traces' = Append(traces, NewTrace) \/ UNCHANGED traces
      BY <2>6 DEF CreateTrace
    <3>3. \A i \in DOMAIN traces : Append(traces, NewTrace)[i] = traces[i]
      BY <1>3, <3>1
    <3>. QED
      BY <1>1, <3>2, <3>3 DEF KeepsClosed
  <2>7. CASE InstallHook(c)
    <3>1. traces[Len(traces)].state = "open"
      BY <2>7 DEF InstallHook, RecorderInv, ActiveTrace
    <3>. QED
      BY <1>3, <2>7, <3>1 DEF InstallHook, KeepsClosed
  <2>. QED
    BY <1>7, <2>1, <2>2, <2>3, <2>4, <2>5, <2>6, <2>7 DEF Advance
<1>8. CASE UNCHANGED vars
  BY <1>1, <1>8 DEF vars
<1>. QED
  BY <1>4, <1>5, <1>6, <1>7, <1>8 DEF Next, PumpNext, Over

(* The content of a closed trace never changes, whoever still holds its     *)
(* hook or read it from Term.tr before it was closed.                       *)
THEOREM ClosedTracesStayFrozen == Spec => ClosedTraceFrozen
<1>1. TypeOK /\ RecorderInv /\ [Next]_vars =>
        [\A i \in DOMAIN traces : traces[i].state # "open" => traces'[i] = traces[i]]_vars
  BY StepKeepsClosed DEF KeepsClosed
<1>. QED
  BY <1>1, SessionTypeCorrect, RecorderCorrect, PTL DEF Spec, ClosedTraceFrozen

-----------------------------------------------------------------------------
(* What the traces contain.                                                 *)

(* eventMu is the pump's between a feed and its hook, and a resizer's.      *)
EventOwner == /\ eventMu = PumpThread <=> pump = "hook"
              /\ \A c \in Callers : eventMu = c <=> pc[c] = "logResize"

(* The hook cannot change while the pump is about to call it.               *)
HookLoaded == chunkHook = IF pump = "hook" THEN hook ELSE 0

(* The trace read under cfgMu stays the active one while inputMu is held.   *)
HeldIsActive ==
  \A c \in Callers : pc[c] \in {"log", "commit", "logResize", "mark"} => held[c] = tr

(* Operations and their steps.                                              *)
OpOfStep ==
  \A c \in Callers :
    /\ pc[c] \in {"write", "log"} => op[c] = "input"
    /\ pc[c] = "readTr" => op[c] \in {"input", "resize", "mark"}
    /\ pc[c] \in {"drain", "kill", "reap", "joinPump"} => op[c] \in {"finalize", "watch"}
    /\ pc[c] \in CfgSteps \cup {"lockInput", "lockCfg"} => op[c] \in {"enable", "disable", "finalize"}

(* Finalization has drained the pump before it takes the input boundary.    *)
DrainInv ==
  /\ \A c \in Callers : pc[c] = "joinPump" => ~master
  /\ drainOnce = "done" => ~master /\ pump = "done"
  /\ \A c \in Callers : pc[c] \in CfgSteps \cup {"lockInput", "lockCfg"} /\ op[c] = "finalize"
                          => drainOnce = "done"

ControlInv == EventOwner /\ HookLoaded /\ HeldIsActive /\ OpOfStep /\ DrainInv

(* A trace has recorded a run of operations that ends with the last one, or *)
(* with the one before while the last is being recorded.                    *)
Lag == IF eventMu = NoOne THEN 0 ELSE 1
RunInv ==
  /\ \A c \in Callers : pc[c] = "setHook" => traces[Len(traces)].log = <<>>
  /\ \A i \in DOMAIN traces :
       /\ IsUnbroken(traces[i]) /\ RecordedTo(traces[i]) <= Len(screen)
       /\ i = hook /\ i = tr => RecordedTo(traces[i]) + Lag = Len(screen)

(* Sizes the child may draw for are sizes the model has or has had.         *)
Known(v) == v = 0 \/ \E j \in DOMAIN screen : screen[j] = [ev |-> "resize", size |-> v]
SizesInv == /\ child = "alive" => Known(winsize)
            /\ \A k \in DOMAIN ptyOut : Known(ptyOut[k])
            /\ pump = "admit" => Known(chunk)
            /\ RepaintAfterResize

(* An input is on record, or its sender still holds the input boundary.     *)
IsRecorded(i, s) == \E k \in DOMAIN traces[i].log : traces[i].log[k] = [ev |-> "in", at |-> s]
Sending(c) == op[c] = "input" /\ pc[c] \in {"readTr", "log"}
InputsInv ==
  \A s \in DOMAIN sent : sent[s] # 0 =>
    /\ sent[s] \in DOMAIN traces
    /\ \/ IsRecorded(sent[s], s)
       \/ s = Len(sent) /\ sent[s] = tr /\ \E c \in Callers : Sending(c)

(* The exit of an open trace is written under cfgMu, just before it closes. *)
Exits(log) == {k \in DOMAIN log : log[k].ev = "exit"}
ExitWritten(c) == pc[c] = "closePublish" \/ (pc[c] = "closeExit" /\ op[c] = "finalize")
ExitOf(t) ==
  /\ \A j, k \in Exits(t.log) : j = k
  /\ t.closer = "finalize" => Len(t.log) \in Exits(t.log)
  /\ t.state = "open" =>
       /\ t.closer = "none"
       /\ (\A c \in Callers : ~ExitWritten(c)) => Exits(t.log) = {}
       /\ \A c \in Callers : ExitWritten(c) /\ op[c] = "finalize" => Len(t.log) \in Exits(t.log)
ExitInv == \A i \in DOMAIN traces : ExitOf(traces[i])

(* Nobody but finalization closes a recording of the whole session.         *)
WholeInv ==
  WholeSession =>
    /\ \A c \in Callers : pc[c] \in CfgSteps => op[c] = "finalize" /\ pc[c] \notin {"newTrace", "setHook"}
    /\ \A i \in DOMAIN traces :
         /\ traces[i].hooked = 0
         /\ traces[i].state # "open" => drainOnce = "done" /\ RecordedTo(traces[i]) = Len(screen)

-----------------------------------------------------------------------------
LEMMA EventOwnerStep ==
  ASSUME TypeOK, EventOwner, [Next]_vars
  PROVE  EventOwner'
<1>. USE SessionAssumption
     DEF TypeOK, CallerType, EventOwner, locks, callers, childVs, pumpVs, recVs, onces, Goto,
         Return, Begin, BeginLocked, Unlock
<1>1. CASE ChildNext \/ PumpNext
  BY <1>1 DEF ChildNext, ChildEmit, ChildRead, ChildExit, PublishExit, PumpNext, PumpRead,
              PumpEOF, PumpFeed, PumpHook
<1>2. ASSUME NEW c \in Callers, BeginOp(c)
      PROVE  EventOwner'
  BY <1>2 DEF BeginOp, BeginInput, BeginResize, BeginMark, HandleTraceStart, HandleTraceStop,
              BeginClose, BeginWatch
<1>3. ASSUME NEW c \in Callers, WriteInput(c) \/ WriteFails(c) \/ ReadTr(c) \/ LogInput(c)
      PROVE  EventOwner'
  BY <1>3 DEF WriteInput, WriteFails, ReadTr, LogInput
<1>4. ASSUME NEW c \in Callers, CommitResize(c) \/ ResizeFails(c) \/ LogResize(c) \/ MarkTrace(c)
      PROVE  EventOwner'
  <2>1. CASE CommitResize(c) \/ ResizeFails(c)
    BY <2>1 DEF CommitResize, ResizeFails
  <2>2. CASE LogResize(c) \/ MarkTrace(c)
    BY <2>2 DEF LogResize, MarkTrace
  <2>3. QED
    BY <1>4, <2>1, <2>2
<1>5. ASSUME NEW c \in Callers, LockInput(c) \/ LockCfgToRecord(c) \/ LockCfgToFinalize(c) \/ CloseExit(c)
      PROVE  EventOwner'
  BY <1>5 DEF LockInput, LockCfgToRecord, LockCfgToFinalize, CloseExit
<1>6. ASSUME NEW c \in Callers, ClosePublish(c) \/ CloseHook(c) \/ CreateTrace(c) \/ InstallHook(c)
      PROVE  EventOwner'
  BY <1>6 DEF ClosePublish, CloseHook, CreateTrace, InstallHook
<1>7. ASSUME NEW c \in Callers, FinalizeOnce(c) \/ DrainOnce(c) \/ KillChild(c) \/ CloseMaster(c) \/ JoinPump(c)
      PROVE  EventOwner'
  BY <1>7 DEF FinalizeOnce, DrainOnce, KillChild, CloseMaster, JoinPump, AfterDrain
<1>8. CASE UNCHANGED vars
  BY <1>8 DEF vars
<1>9. QED
  BY <1>1, <1>2, <1>3, <1>4, <1>5, <1>6, <1>7, <1>8 DEF Next, Advance, Over

LEMMA HookLoadedStep ==
  ASSUME TypeOK, EventOwner, HookLoaded, [Next]_vars
  PROVE  HookLoaded'
<1>. USE SessionAssumption
     DEF TypeOK, CallerType, PtyType, EventOwner, HookLoaded, locks, callers, childVs, pumpVs, recVs, onces, Goto, Return, Begin,
         BeginLocked, Unlock
<1>1. CASE ChildNext \/ PumpNext
  BY <1>1 DEF ChildNext, ChildEmit, ChildRead, ChildExit, PublishExit, PumpNext, PumpRead, PumpEOF, PumpFeed, PumpHook
<1>2. ASSUME NEW c \in Callers, BeginOp(c)
      PROVE  HookLoaded'
  BY <1>2 DEF BeginOp, BeginInput, BeginResize, BeginMark, HandleTraceStart, HandleTraceStop, BeginClose, BeginWatch
<1>3. ASSUME NEW c \in Callers, WriteInput(c) \/ WriteFails(c) \/ ReadTr(c) \/ LogInput(c)
      PROVE  HookLoaded'
  BY <1>3 DEF WriteInput, WriteFails, ReadTr, LogInput
<1>4. ASSUME NEW c \in Callers, CommitResize(c) \/ ResizeFails(c) \/ LogResize(c) \/ MarkTrace(c)
      PROVE  HookLoaded'
  BY <1>4 DEF CommitResize, ResizeFails, LogResize, MarkTrace
<1>5. ASSUME NEW c \in Callers, LockInput(c) \/ LockCfgToRecord(c) \/ LockCfgToFinalize(c) \/ CloseExit(c)
      PROVE  HookLoaded'
  BY <1>5 DEF LockInput, LockCfgToRecord, LockCfgToFinalize, CloseExit
<1>6. ASSUME NEW c \in Callers, ClosePublish(c) \/ CloseHook(c) \/ CreateTrace(c) \/ InstallHook(c)
      PROVE  HookLoaded'
  BY <1>6 DEF ClosePublish, CloseHook, CreateTrace, InstallHook
<1>7. ASSUME NEW c \in Callers, FinalizeOnce(c) \/ DrainOnce(c) \/ KillChild(c) \/ CloseMaster(c) \/ JoinPump(c)
      PROVE  HookLoaded'
  BY <1>7 DEF FinalizeOnce, DrainOnce, KillChild, CloseMaster, JoinPump, AfterDrain
<1>8. CASE UNCHANGED vars
  BY <1>8 DEF vars
<1>9. QED
  BY <1>1, <1>2, <1>3, <1>4, <1>5, <1>6, <1>7, <1>8 DEF Next, Advance, Over

LEMMA HeldIsActiveStep ==
  ASSUME TypeOK, InputOwner, HeldIsActive, [Next]_vars
  PROVE  HeldIsActive'
<1>. USE SessionAssumption
     DEF TypeOK, CallerType, InputOwner, InputSteps, CfgSteps, HeldIsActive, locks, callers, childVs, pumpVs, recVs, onces, Goto, Return, Begin,
         BeginLocked, Unlock
<1>1. CASE ChildNext \/ PumpNext
  BY <1>1 DEF ChildNext, ChildEmit, ChildRead, ChildExit, PublishExit, PumpNext, PumpRead, PumpEOF, PumpFeed, PumpHook
<1>2. ASSUME NEW c \in Callers, BeginOp(c)
      PROVE  HeldIsActive'
  BY <1>2 DEF BeginOp, BeginInput, BeginResize, BeginMark, HandleTraceStart, HandleTraceStop, BeginClose, BeginWatch
<1>3. ASSUME NEW c \in Callers, WriteInput(c) \/ WriteFails(c) \/ ReadTr(c) \/ LogInput(c)
      PROVE  HeldIsActive'
  BY <1>3 DEF WriteInput, WriteFails, ReadTr, LogInput
<1>4. ASSUME NEW c \in Callers, CommitResize(c) \/ ResizeFails(c) \/ LogResize(c) \/ MarkTrace(c)
      PROVE  HeldIsActive'
  BY <1>4 DEF CommitResize, ResizeFails, LogResize, MarkTrace
<1>5. ASSUME NEW c \in Callers, LockInput(c) \/ LockCfgToRecord(c) \/ LockCfgToFinalize(c) \/ CloseExit(c)
      PROVE  HeldIsActive'
  BY <1>5 DEF LockInput, LockCfgToRecord, LockCfgToFinalize, CloseExit
<1>6. ASSUME NEW c \in Callers, ClosePublish(c) \/ CloseHook(c) \/ CreateTrace(c) \/ InstallHook(c)
      PROVE  HeldIsActive'
  <2>1. CASE ClosePublish(c) \/ CloseHook(c)
    BY <2>1 DEF ClosePublish, CloseHook
  <2>2. CASE CreateTrace(c) \/ InstallHook(c)
    BY <2>2 DEF CreateTrace, InstallHook
  <2>3. QED
    BY <1>6, <2>1, <2>2
<1>7. ASSUME NEW c \in Callers, FinalizeOnce(c) \/ DrainOnce(c) \/ KillChild(c) \/ CloseMaster(c) \/ JoinPump(c)
      PROVE  HeldIsActive'
  BY <1>7 DEF FinalizeOnce, DrainOnce, KillChild, CloseMaster, JoinPump, AfterDrain
<1>8. CASE UNCHANGED vars
  BY <1>8 DEF vars
<1>9. QED
  BY <1>1, <1>2, <1>3, <1>4, <1>5, <1>6, <1>7, <1>8 DEF Next, Advance, Over

LEMMA OpOfStepStep ==
  ASSUME TypeOK, OpOfStep, [Next]_vars
  PROVE  OpOfStep'
<1>. USE SessionAssumption
     DEF TypeOK, CallerType, CfgSteps, OpOfStep, locks, callers, childVs, pumpVs, recVs, onces, Goto, Return, Begin,
         BeginLocked, Unlock
<1>1. CASE ChildNext \/ PumpNext
  BY <1>1 DEF ChildNext, ChildEmit, ChildRead, ChildExit, PublishExit, PumpNext, PumpRead, PumpEOF, PumpFeed, PumpHook
<1>2. ASSUME NEW c \in Callers, BeginOp(c)
      PROVE  OpOfStep'
  BY <1>2 DEF BeginOp, BeginInput, BeginResize, BeginMark, HandleTraceStart, HandleTraceStop, BeginClose, BeginWatch
<1>3. ASSUME NEW c \in Callers, WriteInput(c) \/ WriteFails(c) \/ ReadTr(c) \/ LogInput(c)
      PROVE  OpOfStep'
  BY <1>3 DEF WriteInput, WriteFails, ReadTr, LogInput
<1>4. ASSUME NEW c \in Callers, CommitResize(c) \/ ResizeFails(c) \/ LogResize(c) \/ MarkTrace(c)
      PROVE  OpOfStep'
  BY <1>4 DEF CommitResize, ResizeFails, LogResize, MarkTrace
<1>5. ASSUME NEW c \in Callers, LockInput(c) \/ LockCfgToRecord(c) \/ LockCfgToFinalize(c) \/ CloseExit(c)
      PROVE  OpOfStep'
  BY <1>5 DEF LockInput, LockCfgToRecord, LockCfgToFinalize, CloseExit
<1>6. ASSUME NEW c \in Callers, ClosePublish(c) \/ CloseHook(c) \/ CreateTrace(c) \/ InstallHook(c)
      PROVE  OpOfStep'
  BY <1>6 DEF ClosePublish, CloseHook, CreateTrace, InstallHook
<1>7. ASSUME NEW c \in Callers, FinalizeOnce(c) \/ DrainOnce(c) \/ KillChild(c) \/ CloseMaster(c) \/ JoinPump(c)
      PROVE  OpOfStep'
  BY <1>7 DEF FinalizeOnce, DrainOnce, KillChild, CloseMaster, JoinPump, AfterDrain
<1>8. CASE UNCHANGED vars
  BY <1>8 DEF vars
<1>9. QED
  BY <1>1, <1>2, <1>3, <1>4, <1>5, <1>6, <1>7, <1>8 DEF Next, Advance, Over

LEMMA DrainInvStep ==
  ASSUME TypeOK, OpOfStep, DrainInv, [Next]_vars
  PROVE  DrainInv'
<1>. USE SessionAssumption
     DEF TypeOK, CallerType, CfgSteps, OpOfStep, DrainInv, locks, callers, childVs, pumpVs, recVs, onces, Goto, Return, Begin,
         BeginLocked, Unlock
<1>1. CASE ChildNext \/ PumpNext
  BY <1>1 DEF ChildNext, ChildEmit, ChildRead, ChildExit, PublishExit, PumpNext, PumpRead, PumpEOF, PumpFeed, PumpHook
<1>2. ASSUME NEW c \in Callers, BeginOp(c)
      PROVE  DrainInv'
  <2>1. /\ UNCHANGED <<master, pump, drainOnce>>
        /\ \A d \in Callers : d # c => pc'[d] = pc[d] /\ op'[d] = op[d]
    BY <1>2 DEF BeginOp, BeginInput, BeginResize, BeginMark, HandleTraceStart, HandleTraceStop,
                BeginClose, BeginWatch
  <2>2. /\ pc'[c] \notin CfgSteps \cup {"joinPump", "lockCfg"}
        /\ op'[c] = "finalize" => pc'[c] # "lockInput"
    BY <1>2 DEF BeginOp, BeginInput, BeginResize, BeginMark, HandleTraceStart, HandleTraceStop,
                BeginClose, BeginWatch
  <2>3. QED
    BY <2>1, <2>2
<1>3. ASSUME NEW c \in Callers, WriteInput(c) \/ WriteFails(c) \/ ReadTr(c) \/ LogInput(c)
      PROVE  DrainInv'
  <2>1. UNCHANGED <<master, pump, drainOnce>> /\ pc'[c] \in {"idle", "readTr", "commit", "mark", "log"}
    BY <1>3 DEF WriteInput, WriteFails, ReadTr, LogInput
  <2>2. \A d \in Callers : d # c => pc'[d] = pc[d] /\ op'[d] = op[d]
    BY <1>3 DEF WriteInput, WriteFails, ReadTr, LogInput
  <2>3. QED
    BY <2>1, <2>2
<1>4. ASSUME NEW c \in Callers, CommitResize(c) \/ ResizeFails(c) \/ LogResize(c) \/ MarkTrace(c)
      PROVE  DrainInv'
  <2>1. UNCHANGED <<master, pump, drainOnce>> /\ pc'[c] \in {"idle", "logResize"}
    BY <1>4 DEF CommitResize, ResizeFails, LogResize, MarkTrace
  <2>2. \A d \in Callers : d # c => pc'[d] = pc[d] /\ op'[d] = op[d]
    BY <1>4 DEF CommitResize, ResizeFails, LogResize, MarkTrace
  <2>3. QED
    BY <2>1, <2>2
<1>5. ASSUME NEW c \in Callers, LockInput(c) \/ LockCfgToRecord(c) \/ LockCfgToFinalize(c) \/ CloseExit(c)
      PROVE  DrainInv'
  BY <1>5 DEF LockInput, LockCfgToRecord, LockCfgToFinalize, CloseExit
<1>6. ASSUME NEW c \in Callers, ClosePublish(c) \/ CloseHook(c) \/ CreateTrace(c) \/ InstallHook(c)
      PROVE  DrainInv'
  BY <1>6 DEF ClosePublish, CloseHook, CreateTrace, InstallHook
<1>7. ASSUME NEW c \in Callers, FinalizeOnce(c) \/ DrainOnce(c) \/ KillChild(c) \/ CloseMaster(c) \/ JoinPump(c)
      PROVE  DrainInv'
  BY <1>7 DEF FinalizeOnce, DrainOnce, KillChild, CloseMaster, JoinPump, AfterDrain
<1>8. CASE UNCHANGED vars
  BY <1>8 DEF vars
<1>9. QED
  BY <1>1, <1>2, <1>3, <1>4, <1>5, <1>6, <1>7, <1>8 DEF Next, Advance, Over

LEMMA ControlStep ==
  TypeOK /\ InputOwner /\ ControlInv /\ [Next]_vars => ControlInv'
  BY EventOwnerStep, HookLoadedStep, HeldIsActiveStep, OpOfStepStep, DrainInvStep DEF ControlInv

-----------------------------------------------------------------------------
(* Counting the operations of a log.                                        *)
LEMMA OpsCount ==
  ASSUME NEW log \in Seq(Events)
  PROVE  IsFiniteSet(OpsIn(log)) /\ Cardinality(OpsIn(log)) \in Nat
<1>1. Len(log) \in Nat /\ OpsIn(log) \subseteq 1 .. Len(log)
  BY DEF OpsIn
<1>2. IsFiniteSet(1 .. Len(log))
  BY <1>1, FS_Interval
<1>3. QED
  BY <1>1, <1>2, FS_Subset, FS_CardinalityType

LEMMA OpsOfEmpty == OpsIn(<<>>) = {} /\ Cardinality(OpsIn(<<>>)) = 0
  BY FS_EmptySet DEF OpsIn

LEMMA OpsOfAppend ==
  ASSUME NEW log \in Seq(Events), NEW e \in Events
  PROVE  /\ e.ev \in {"out", "resize"} =>
              /\ OpsIn(Append(log, e)) = OpsIn(log) \cup {Len(log) + 1}
              /\ Cardinality(OpsIn(Append(log, e))) = Cardinality(OpsIn(log)) + 1
         /\ e.ev \notin {"out", "resize"} => OpsIn(Append(log, e)) = OpsIn(log)
<1>1. /\ Len(log) \in Nat /\ DOMAIN log = 1 .. Len(log)
      /\ DOMAIN Append(log, e) = 1 .. Len(log) + 1
      /\ Append(log, e)[Len(log) + 1] = e
      /\ \A k \in 1 .. Len(log) : Append(log, e)[k] = log[k]
  OBVIOUS
<1>2. e.ev \notin {"out", "resize"} => OpsIn(Append(log, e)) = OpsIn(log)
  BY <1>1 DEF OpsIn
<1>3. ASSUME e.ev \in {"out", "resize"}
      PROVE  OpsIn(Append(log, e)) = OpsIn(log) \cup {Len(log) + 1}
  BY <1>1, <1>3 DEF OpsIn
<1>4. Len(log) + 1 \notin OpsIn(log)
  BY <1>1 DEF OpsIn
<1>5. Cardinality(OpsIn(log) \cup {Len(log) + 1}) = Cardinality(OpsIn(log)) + 1
  BY <1>4, OpsCount, FS_AddElement
<1>6. QED
  BY <1>2, <1>3, <1>5

(* A run grows by the operation that follows it.                            *)
LEMMA OpsExtended ==
  ASSUME NEW log \in Seq(Events), NEW e \in Events, NEW h \in Nat, NEW r \in Nat, h <= r,
         e.ev \in {"out", "resize"}, e.at = r + 1,
         {log[k].at : k \in OpsIn(log)} = h + 1 .. r,
         \A j, k \in OpsIn(log) : j < k => log[j].at < log[k].at
  PROVE  /\ {Append(log, e)[k].at : k \in OpsIn(Append(log, e))} = h + 1 .. r + 1
         /\ \A j, k \in OpsIn(Append(log, e)) : j < k => Append(log, e)[j].at < Append(log, e)[k].at
<1> DEFINE longer == Append(log, e)
           n == Len(log)
<1>1. n \in Nat /\ longer[n + 1] = e /\ \A k \in 1 .. n : longer[k] = log[k]
  OBVIOUS
<1>2. \A k \in OpsIn(log) : k \in 1 .. n
  BY DEF OpsIn
<1>3. OpsIn(longer) = OpsIn(log) \cup {n + 1}
  BY OpsOfAppend
<1> HIDE DEF longer, n
<1>4. \A k \in OpsIn(log) : longer[k] = log[k] /\ k < n + 1
  BY <1>1, <1>2
<1>5. {longer[k].at : k \in OpsIn(longer)} = {log[k].at : k \in OpsIn(log)} \cup {e.at}
  BY <1>1, <1>3, <1>4
<1>6. {longer[k].at : k \in OpsIn(longer)} = h + 1 .. r + 1
  <2>1. (h + 1 .. r) \cup {r + 1} = h + 1 .. r + 1
    OBVIOUS
  <2>2. QED
    BY <1>5, <2>1
<1>7. \A k \in OpsIn(log) : log[k].at \in h + 1 .. r
  OBVIOUS
<1>8. \A k \in OpsIn(log) : longer[k].at < longer[n + 1].at
  BY <1>1, <1>4, <1>7
<1>9. \A j, k \in OpsIn(longer) : j < k => longer[j].at < longer[k].at
  BY <1>1, <1>2, <1>3, <1>4, <1>8
<1>10. QED
  BY <1>6, <1>9 DEF longer

LEMMA RunGrows ==
  ASSUME NEW t \in Traces, IsUnbroken(t), NEW e \in Events, NEW u,
         e.ev \in {"out", "resize"}, e.at = RecordedTo(t) + 1,
         u.log = Append(t.log, e), u.hooked = t.hooked
  PROVE  IsUnbroken(u) /\ RecordedTo(u) = RecordedTo(t) + 1
<1>1. t.log \in Seq(Events) /\ t.hooked \in Nat
  BY DEF Traces
<1>2. RecordedTo(t) \in Nat /\ t.hooked <= RecordedTo(t) /\ RecordedTo(u) = RecordedTo(t) + 1
  BY <1>1, OpsCount, OpsOfAppend DEF RecordedTo
<1> DEFINE log == t.log
           r == RecordedTo(t)
<1>3. /\ {log[k].at : k \in OpsIn(log)} = t.hooked + 1 .. r
      /\ \A j, k \in OpsIn(log) : j < k => log[j].at < log[k].at
  BY DEF IsUnbroken
<1>4. log \in Seq(Events) /\ r \in Nat /\ t.hooked <= r /\ e.at = r + 1
  BY <1>1, <1>2
<1> HIDE DEF log, r
<1>5. /\ {Append(log, e)[k].at : k \in OpsIn(Append(log, e))} = t.hooked + 1 .. r + 1
      /\ \A j, k \in OpsIn(Append(log, e)) : j < k => Append(log, e)[j].at < Append(log, e)[k].at
  BY <1>1, <1>3, <1>4, OpsExtended
<1>6. QED
  BY <1>2, <1>5, Zenon DEF IsUnbroken, log, r

LEMMA RunStays ==
  ASSUME NEW t \in Traces, IsUnbroken(t), NEW e \in Events, NEW u,
         e.ev \notin {"out", "resize"}, u.log = Append(t.log, e), u.hooked = t.hooked
  PROVE  IsUnbroken(u) /\ RecordedTo(u) = RecordedTo(t)
<1>1. t.log \in Seq(Events)
  BY DEF Traces
<1>2. OpsIn(u.log) = OpsIn(t.log) /\ \A k \in OpsIn(t.log) : u.log[k] = t.log[k]
  BY <1>1, OpsOfAppend DEF OpsIn
<1>3. QED
  BY <1>2 DEF IsUnbroken, RecordedTo

-----------------------------------------------------------------------------
(* What Record does to a trace that is open.                                *)
LEMMA RecordOpen ==
  ASSUME traces \in Seq(Traces), NEW i \in DOMAIN traces, traces[i].state = "open", NEW e \in Events
  PROVE  /\ DOMAIN Record(i, e) = DOMAIN traces /\ Len(Record(i, e)) = Len(traces)
         /\ \A j \in DOMAIN traces : j # i => Record(i, e)[j] = traces[j]
         /\ Record(i, e)[i].log = Append(traces[i].log, e)
         /\ Record(i, e)[i].hooked = traces[i].hooked
         /\ Record(i, e)[i].state = "open" /\ Record(i, e)[i].closer = traces[i].closer
<1>1. i # 0 /\ traces[i] \in Traces
  OBVIOUS
<1>2. Record(i, e) = [traces EXCEPT ![i] = [traces[i] EXCEPT !.log = Append(@, e)]]
  BY <1>1 DEF Record
<1> DEFINE u == [traces[i] EXCEPT !.log = Append(@, e)]
<1>3. /\ u.log = Append(traces[i].log, e) /\ u.hooked = traces[i].hooked
      /\ u.state = "open" /\ u.closer = traces[i].closer
  BY <1>1 DEF Traces
<1> HIDE DEF u
<1>4. Record(i, e) = [traces EXCEPT ![i] = u]
  BY <1>2 DEF u
<1>5. QED
  BY <1>3, <1>4

(* ... and to no trace, or one that is closed: nothing.                     *)
LEMMA RecordNothing ==
  ASSUME NEW i, NEW e, i = 0 \/ traces[i].state # "open"
  PROVE  Record(i, e) = traces
  BY DEF Record

(* While a trace waits for its hook, no other is active.                    *)
LEMMA HookAlone ==
  ASSUME TypeOK, RecorderInv, NEW c \in Callers, pc[c] = "setHook"
  PROVE  tr = 0 /\ hook = 0 /\ inputMu = c /\ \A d \in Callers : d # c => pc[d] \notin InputSteps
  BY CfgAlone DEF RecorderInv, ActiveTrace, HookFollowsTrace, InputOwner, InputSteps, CfgSteps

LEMMA RecordedToType ==
  ASSUME NEW t \in Traces
  PROVE  RecordedTo(t) \in Nat
<1>1. t.log \in Seq(Events) /\ t.hooked \in Nat
  BY DEF Traces
<1>2. QED
  BY <1>1, OpsCount DEF RecordedTo

(* A step after which the model and the traces are what they were.          *)
LEMMA RunsKept ==
  ASSUME RunInv, UNCHANGED <<traces, screen, tr, hook>>, Lag' = Lag,
         \A c \in Callers : pc'[c] = "setHook" => pc[c] = "setHook"
  PROVE  RunInv'
  BY DEF RunInv, IsUnbroken, RecordedTo

(* The model has applied one more operation.                                *)
LEMMA RunsAdmit ==
  ASSUME TypeOK, TypeOK', RunInv, UNCHANGED <<traces, tr, hook>>, Lag = 0, Lag' = 1,
         Len(screen') = Len(screen) + 1,
         \A c \in Callers : pc'[c] = "setHook" => pc[c] = "setHook"
  PROVE  RunInv'
<1>1. Len(screen) \in Nat
  BY DEF TypeOK, PtyType
<1>2. \A i \in DOMAIN traces : RecordedTo(traces[i]) \in Nat
  <2>1. \A i \in DOMAIN traces : traces[i] \in Traces
    BY DEF TypeOK, RecorderType
  <2>2. QED
    BY <2>1, RecordedToType
<1>3. \A i \in DOMAIN traces' : IsUnbroken(traces'[i]) /\ RecordedTo(traces'[i]) = RecordedTo(traces[i])
  BY DEF RunInv
<1>4. QED
  BY <1>1, <1>2, <1>3 DEF RunInv

(* The last operation goes on record.                                       *)
LEMMA RunsRecord ==
  ASSUME TypeOK, RecorderInv, RunInv, NEW e \in Events,
         e.ev \in {"out", "resize"}, e.at = Len(screen),
         traces' = Record(hook, e), UNCHANGED <<screen, tr, hook>>, Lag = 1, Lag' = 0,
         \A c \in Callers : pc'[c] = "setHook" => pc[c] = "setHook"
  PROVE  RunInv'
<1>1. /\ traces \in Seq(Traces) /\ hook \in 0 .. Len(traces) /\ Len(screen) \in Nat
      /\ Len(traces) \in Nat /\ DOMAIN traces = 1 .. Len(traces)
      /\ \A i \in DOMAIN traces : traces[i] \in Traces
  BY DEF TypeOK, RecorderType, PtyType
<1>2. CASE hook # tr
  <2>1. \A c \in Callers : pc[c] # "setHook"
    BY <1>2, HookAlone
  <2>2. hook = 0 \/ traces[hook].state # "open"
    BY <1>1, <1>2, <2>1 DEF RecorderInv, OneOpenTrace
  <2>3. traces' = traces
    BY <2>2, RecordNothing
  <2>4. QED
    BY <1>2, <2>3 DEF RunInv, IsUnbroken, RecordedTo
<1>3. CASE hook = tr /\ hook = 0
  <2>1. traces' = traces
    BY <1>3, RecordNothing
  <2>2. \A i \in DOMAIN traces' : i # hook'
    BY <1>1, <1>3, <2>1
  <2>3. QED
    BY <2>1, <2>2 DEF RunInv, IsUnbroken, RecordedTo
<1>4. CASE hook = tr /\ hook # 0
  <2>1. hook \in DOMAIN traces /\ traces[hook].state = "open"
    BY <1>1, <1>4 DEF RecorderInv, ActiveTrace
  <2>2. /\ DOMAIN traces' = DOMAIN traces
        /\ \A j \in DOMAIN traces : j # hook => traces'[j] = traces[j]
        /\ traces'[hook].log = Append(traces[hook].log, e)
        /\ traces'[hook].hooked = traces[hook].hooked
    BY <1>1, <2>1, RecordOpen
  <2>3. IsUnbroken(traces[hook]) /\ RecordedTo(traces[hook]) + 1 = Len(screen)
    BY <1>4, <2>1 DEF RunInv
  <2>4. IsUnbroken(traces'[hook]) /\ RecordedTo(traces'[hook]) = Len(screen)
    <3>1. RecordedTo(traces[hook]) \in Nat
      BY <1>1, <2>1, RecordedToType
    <3>2. traces[hook] \in Traces /\ e.at = RecordedTo(traces[hook]) + 1
      BY <1>1, <2>1, <2>3
    <3>3. QED
      BY <2>2, <2>3, <3>2, RunGrows
  <2>5. \A c \in Callers : pc[c] # "setHook"
    BY <1>4, HookAlone
  <2>6. ASSUME NEW i \in DOMAIN traces'
        PROVE  /\ IsUnbroken(traces'[i]) /\ RecordedTo(traces'[i]) <= Len(screen)
               /\ i = hook /\ i = tr => RecordedTo(traces'[i]) = Len(screen)
    BY <1>1, <2>2, <2>4 DEF RunInv
  <2>7. QED
    BY <1>1, <2>5, <2>6 DEF RunInv
<1>5. QED
  BY <1>2, <1>3, <1>4

(* An input, a marker or an exit goes on record.                            *)
LEMMA RunsNote ==
  ASSUME TypeOK, RecorderInv, RunInv, NEW e \in Events, e.ev \notin {"out", "resize"},
         traces' = Record(tr, e), UNCHANGED <<screen, tr, hook>>, Lag' = Lag,
         \A c \in Callers : pc'[c] = "setHook" => pc[c] = "setHook"
  PROVE  RunInv'
<1>1. /\ traces \in Seq(Traces) /\ tr \in 0 .. Len(traces) /\ Len(screen) \in Nat
      /\ Len(traces) \in Nat /\ DOMAIN traces = 1 .. Len(traces)
      /\ \A i \in DOMAIN traces : traces[i] \in Traces
  BY DEF TypeOK, RecorderType, PtyType
<1>2. CASE tr = 0
  <2>1. traces' = traces
    BY <1>2, RecordNothing
  <2>2. QED
    BY <2>1, RunsKept
<1>3. CASE tr # 0
  <2>1. tr \in DOMAIN traces /\ traces[tr].state = "open"
    BY <1>1, <1>3 DEF RecorderInv, ActiveTrace
  <2>2. /\ DOMAIN traces' = DOMAIN traces
        /\ \A j \in DOMAIN traces : j # tr => traces'[j] = traces[j]
        /\ traces'[tr].log = Append(traces[tr].log, e)
        /\ traces'[tr].hooked = traces[tr].hooked
    BY <1>1, <2>1, RecordOpen
  <2>3. IsUnbroken(traces'[tr]) /\ RecordedTo(traces'[tr]) = RecordedTo(traces[tr])
    BY <1>1, <2>1, <2>2, RunStays DEF RunInv
  <2>4. \A c \in Callers : pc[c] # "setHook"
    BY <1>3, HookAlone
  <2>5. ASSUME NEW i \in DOMAIN traces'
        PROVE  IsUnbroken(traces'[i]) /\ RecordedTo(traces'[i]) = RecordedTo(traces[i])
    BY <2>2, <2>3 DEF RunInv
  <2>6. QED
    BY <2>2, <2>4, <2>5 DEF RunInv
<1>4. QED
  BY <1>2, <1>3

(* The traces a caller creates, hooks and closes.                           *)
LEMMA RunsUnderCfg ==
  ASSUME TypeOK, RecorderInv, ControlInv, RunInv, NEW c \in Callers,
         ClosePublish(c) \/ CloseHook(c) \/ CreateTrace(c) \/ InstallHook(c)
  PROVE  RunInv'
<1>1. /\ traces \in Seq(Traces) /\ tr \in 0 .. Len(traces) /\ Len(screen) \in Nat
      /\ Len(traces) \in Nat /\ DOMAIN traces = 1 .. Len(traces)
      /\ \A i \in DOMAIN traces : traces[i] \in Traces
      /\ pc \in [Callers -> Steps]
  <2>1. traces \in Seq(Traces) /\ tr \in 0 .. Len(traces)
    BY DEF TypeOK, RecorderType
  <2>2. Len(screen) \in Nat
    BY DEF TypeOK, PtyType
  <2>3. pc \in [Callers -> Steps]
    BY DEF TypeOK, CallerType
  <2>4. /\ Len(traces) \in Nat /\ DOMAIN traces = 1 .. Len(traces)
        /\ \A i \in DOMAIN traces : traces[i] \in Traces
    BY <2>1
  <2>5. QED
    BY <2>1, <2>2, <2>3, <2>4
<1>. USE DEF locks, callers, childVs, pumpVs, recVs, onces, Unlock, Return, Goto
<1>2. pc[c] \in CfgSteps /\ \A d \in Callers : d # c => pc[d] \notin CfgSteps
  BY CfgAlone DEF ClosePublish, CloseHook, CreateTrace, InstallHook, CfgSteps
<1>3. CASE ClosePublish(c)
  <2>1. tr \in DOMAIN traces
    BY <1>1, <1>3 DEF ClosePublish, RecorderInv, ActiveTrace
  <2>2. PICK outcome \in {"published", "failed"} :
          traces' = [traces EXCEPT ![tr] = [@ EXCEPT !.state = outcome, !.closer = op[c]]]
    BY <1>3 DEF ClosePublish
  <2>3. /\ DOMAIN traces' = DOMAIN traces
        /\ \A i \in DOMAIN traces : traces'[i].log = traces[i].log /\ traces'[i].hooked = traces[i].hooked
    <3>1. traces[tr] \in Traces
      BY <1>1, <2>1
    <3>2. traces'[tr].log = traces[tr].log /\ traces'[tr].hooked = traces[tr].hooked
      BY <1>1, <2>1, <2>2, <3>1 DEF Traces
    <3>3. QED
      BY <1>1, <2>1, <2>2, <3>2
  <2>4. tr' = 0 /\ UNCHANGED screen /\ pc'[c] = "closeHook" /\ \A d \in Callers : d # c => pc'[d] = pc[d]
    BY <1>1, <1>3 DEF ClosePublish
  <2>5. \A d \in Callers : pc'[d] # "setHook"
    BY <1>2, <2>4 DEF CfgSteps
  <2>6. QED
    BY <1>1, <2>3, <2>4, <2>5 DEF RunInv, IsUnbroken, RecordedTo
<1>4. CASE CloseHook(c)
  <2>1. UNCHANGED <<traces, screen, eventMu>> /\ hook' = 0
    BY <1>4 DEF CloseHook
  <2>2. \A d \in Callers : pc'[d] # "setHook"
    BY <1>1, <1>2, <1>4 DEF CloseHook, CfgSteps
  <2>3. QED
    BY <1>1, <2>1, <2>2 DEF RunInv, IsUnbroken, RecordedTo
<1>5. CASE CreateTrace(c) /\ UNCHANGED traces
  <2>1. UNCHANGED <<screen, tr, hook, eventMu>> /\ pc[c] = "newTrace"
    BY <1>5 DEF CreateTrace
  <2>2. \A d \in Callers : pc[d] # "setHook"
    BY <1>2, <2>1 DEF CfgSteps
  <2>3. Len(traces) \in Nat /\ Len(traces') = Len(traces)
    BY <1>1, <1>5
  <2>4. traces' # Append(traces, NewTrace)
    <3>1. NewTrace \in Traces
      BY NewTraceType DEF TypeOK, PtyType
    <3>2. Len(Append(traces, NewTrace)) = Len(traces) + 1
      BY <1>1, <3>1
    <3>3. QED
      BY <1>1, <2>3, <3>2
  <2>5. pc' = [pc EXCEPT ![c] = "idle"]
    BY <1>5, <2>4 DEF CreateTrace
  <2>6. \A d \in Callers : pc'[d] # "setHook"
    BY <1>1, <2>2, <2>5
  <2>7. QED
    BY <1>5, <2>1, <2>6, RunsKept DEF Lag
<1>6. CASE CreateTrace(c) /\ traces' = Append(traces, NewTrace)
  <2>1. /\ UNCHANGED <<screen, tr, hook>> /\ tr = 0
    BY <1>6 DEF CreateTrace, RecorderInv, ActiveTrace
  <2>2. NewTrace \in Traces /\ NewTrace.log = <<>> /\ NewTrace.hooked = Len(screen)
    BY NewTraceType DEF NewTrace, TypeOK, PtyType
  <2>3. /\ DOMAIN traces' = 1 .. Len(traces) + 1 /\ Len(traces') = Len(traces) + 1
        /\ traces'[Len(traces) + 1] = NewTrace
        /\ \A i \in DOMAIN traces : traces'[i] = traces[i]
    BY <1>1, <1>6, <2>2
  <2>4. IsUnbroken(NewTrace) /\ RecordedTo(NewTrace) = Len(screen)
    BY <1>1, <2>2, OpsOfEmpty DEF IsUnbroken, RecordedTo
  <2>5. ASSUME NEW i \in DOMAIN traces'
        PROVE  /\ IsUnbroken(traces'[i]) /\ RecordedTo(traces'[i]) <= Len(screen)
               /\ i # tr
    BY <1>1, <2>1, <2>3, <2>4, <2>5 DEF RunInv
  <2>6. QED
    BY <2>1, <2>2, <2>3, <2>5 DEF RunInv
<1>7. CASE InstallHook(c)
  <2>1. /\ Len(traces) \in DOMAIN traces /\ traces[Len(traces)].log = <<>>
        /\ tr' = Len(traces) /\ UNCHANGED <<screen, eventMu>> /\ eventMu = NoOne
    BY <1>1, <1>7 DEF InstallHook, RecorderInv, ActiveTrace, RunInv
  <2>2. traces' = [traces EXCEPT ![Len(traces)].hooked = Len(screen)]
    BY <1>7 DEF InstallHook
  <2>3. /\ DOMAIN traces' = DOMAIN traces /\ Len(traces') = Len(traces)
        /\ \A i \in DOMAIN traces : i # Len(traces) => traces'[i] = traces[i]
        /\ traces'[Len(traces)].log = <<>> /\ traces'[Len(traces)].hooked = Len(screen)
    <3>1. traces[Len(traces)] \in Traces
      BY <1>1, <2>1
    <3>2. QED
      BY <1>1, <2>1, <2>2, <3>1 DEF Traces
  <2>4. \A d \in Callers : pc'[d] # "setHook"
    BY <1>1, <1>2, <1>7 DEF InstallHook, CfgSteps
  <2>5. IsUnbroken(traces'[Len(traces)]) /\ RecordedTo(traces'[Len(traces)]) = Len(screen)
    BY <1>1, <2>3, OpsOfEmpty DEF IsUnbroken, RecordedTo
  <2>6. ASSUME NEW i \in DOMAIN traces'
        PROVE  /\ IsUnbroken(traces'[i]) /\ RecordedTo(traces'[i]) <= Len(screen)
               /\ i = tr' => RecordedTo(traces'[i]) = Len(screen)
    BY <1>1, <2>1, <2>3, <2>5 DEF RunInv
  <2>7. Lag' = 0
    BY <2>1 DEF Lag
  <2>8. QED
    BY <1>1, <2>1, <2>4, <2>6, <2>7 DEF RunInv
<1>8. QED
  BY <1>3, <1>4, <1>5, <1>6, <1>7 DEF CreateTrace

-----------------------------------------------------------------------------
(* What a step does to the model and to the traces.                         *)
SameHooking == \A c \in Callers : pc'[c] = "setHook" <=> pc[c] = "setHook"
Quiet   == UNCHANGED <<traces, screen, tr, hook>> /\ Lag' = Lag /\ SameHooking
Admits  == /\ UNCHANGED <<traces, tr, hook>> /\ Lag = 0 /\ Lag' = 1 /\ SameHooking
           /\ drainOnce # "done" /\ Len(screen') = Len(screen) + 1
Records == /\ UNCHANGED <<screen, tr, hook>> /\ Lag = 1 /\ Lag' = 0 /\ SameHooking
           /\ \E e \in Events : /\ e.ev \in {"out", "resize"} /\ e.at = Len(screen)
                                /\ traces' = Record(hook, e)
Notes   == /\ UNCHANGED <<screen, tr, hook>> /\ Lag' = Lag /\ SameHooking
           /\ \E e \in Events : e.ev \notin {"out", "resize"} /\ traces' = Record(tr, e)
UnderCfg == \E c \in Callers : ClosePublish(c) \/ CloseHook(c) \/ CreateTrace(c) \/ InstallHook(c)

LEMMA StepKinds ==
  ASSUME TypeOK, RecorderInv, ControlInv, [Next]_vars
  PROVE  Quiet \/ Admits \/ Records \/ Notes \/ UnderCfg
<1>. USE SessionAssumption
     DEF locks, callers, childVs, pumpVs, recVs, onces, Goto, Return, Begin, BeginLocked,
         Unlock, SameHooking, Lag, Quiet, CallerType
<1>1. /\ traces \in Seq(Traces) /\ Len(screen) \in Nat /\ Len(sent) \in Nat
      /\ CallerType
  BY DEF TypeOK, RecorderType, PtyType
<1>2. /\ EventOwner /\ HookLoaded /\ HeldIsActive /\ DrainInv
  BY DEF ControlInv
<1>3. \A n \in Nat, v \in {"out", "resize", "in", "marker", "exit"} : [ev |-> v, at |-> n] \in Events
  BY DEF Events
<1>4. CASE ChildNext
  BY <1>4 DEF ChildNext, ChildEmit, ChildRead, ChildExit, PublishExit
<1>5. CASE PumpNext
  <2>1. CASE PumpRead \/ PumpEOF
    BY <2>1 DEF PumpRead, PumpEOF
  <2>2. CASE PumpFeed
    <3>1. Len(screen') = Len(screen) + 1
      BY <2>2 DEF PumpFeed, TypeOK, PtyType, ModelOps
    <3>2. Admits
      BY <1>2, <2>2, <3>1 DEF PumpFeed, Admits, DrainInv
    <3>3. QED
      BY <3>2
  <2>3. CASE PumpHook
    <3>1. eventMu = PumpThread /\ chunkHook = hook
      BY <1>2, <2>3 DEF PumpHook, EventOwner, HookLoaded
    <3>2. [ev |-> "out", at |-> Len(screen)] \in Events
      BY <1>1, <1>3
    <3>3. Records
      BY <2>3, <3>1, <3>2 DEF PumpHook, Records
    <3>4. QED
      BY <3>3
  <2>4. QED
    BY <1>5, <2>1, <2>2, <2>3 DEF PumpNext
<1>6. ASSUME NEW c \in Callers, BeginOp(c)
      PROVE  Quiet
  BY <1>1, <1>6 DEF BeginOp, BeginInput, BeginResize, BeginMark, HandleTraceStart, HandleTraceStop,
              BeginClose, BeginWatch
<1>7. ASSUME NEW c \in Callers, WriteInput(c) \/ WriteFails(c) \/ ReadTr(c) \/ ResizeFails(c)
      PROVE  Quiet
  BY <1>1, <1>7 DEF WriteInput, WriteFails, ReadTr, ResizeFails
<1>8. ASSUME NEW c \in Callers, LogInput(c) \/ MarkTrace(c) \/ LockCfgToFinalize(c) \/ CloseExit(c)
      PROVE  Quiet \/ Notes
  <2>1. CASE LogInput(c) \/ MarkTrace(c)
    <3>1. held[c] = tr
      BY <1>2, <2>1 DEF LogInput, MarkTrace, HeldIsActive
    <3>2. /\ [ev |-> "in", at |-> Len(sent)] \in Events
          /\ [ev |-> "marker", at |-> Len(screen)] \in Events
      BY <1>1, <1>3
    <3>3. Notes
      BY <1>1, <2>1, <3>1, <3>2 DEF LogInput, MarkTrace, Notes
    <3>4. QED
      BY <3>3
  <2>2. CASE LockCfgToFinalize(c) \/ CloseExit(c)
    <3>1. [ev |-> "exit", at |-> Len(screen)] \in Events
      BY <1>1, <1>3
    <3>2. UNCHANGED <<screen, tr, hook, eventMu>> /\ SameHooking
      BY <1>1, <2>2 DEF LockCfgToFinalize, CloseExit
    <3>3. UNCHANGED traces \/ traces' = Record(tr, [ev |-> "exit", at |-> Len(screen)])
      BY <2>2 DEF LockCfgToFinalize, CloseExit
    <3>4. QED
      BY <3>1, <3>2, <3>3 DEF Notes
  <2>3. QED
    BY <1>8, <2>1, <2>2
<1>9. ASSUME NEW c \in Callers, CommitResize(c)
      PROVE  Admits
  <2>1. Len(screen') = Len(screen) + 1
    BY <1>9 DEF CommitResize, TypeOK, PtyType, ModelOps
  <2>2. QED
    BY <1>1, <1>2, <1>9, <2>1 DEF CommitResize, Admits, DrainInv
<1>10. ASSUME NEW c \in Callers, LogResize(c)
      PROVE  Records
  <2>1. eventMu = c /\ c # NoOne /\ held[c] = tr /\ inputMu = c
    BY <1>2, <1>10 DEF LogResize, EventOwner, HeldIsActive, RecorderInv, InputOwner, InputSteps
  <2>2. tr = hook
    BY <1>10, <2>1 DEF LogResize, RecorderInv, InputOwner, HookFollowsTrace, InputSteps, CfgSteps
  <2>3. [ev |-> "resize", at |-> Len(screen)] \in Events
    BY <1>1, <1>3
  <2>4. QED
    BY <1>1, <1>10, <2>1, <2>2, <2>3 DEF LogResize, Records
<1>11. ASSUME NEW c \in Callers, LockInput(c) \/ LockCfgToRecord(c)
      PROVE  Quiet
  BY <1>1, <1>11 DEF LockInput, LockCfgToRecord
<1>12. ASSUME NEW c \in Callers, FinalizeOnce(c) \/ DrainOnce(c) \/ KillChild(c) \/ CloseMaster(c) \/ JoinPump(c)
      PROVE  Quiet
  BY <1>1, <1>12 DEF FinalizeOnce, DrainOnce, KillChild, CloseMaster, JoinPump, AfterDrain
<1>13. CASE UNCHANGED vars
  BY <1>13 DEF vars
<1>14. QED
  BY <1>4, <1>5, <1>6, <1>7, <1>8, <1>9, <1>10, <1>11, <1>12, <1>13 DEF Next, Advance, Over, UnderCfg

LEMMA RunStep ==
  ASSUME TypeOK, TypeOK', RecorderInv, ControlInv, RunInv, [Next]_vars
  PROVE  RunInv'
<1>1. CASE Quiet
  BY <1>1, RunsKept DEF Quiet, SameHooking
<1>2. CASE Admits
  BY <1>2, RunsAdmit DEF Admits, SameHooking
<1>3. CASE Records
  BY <1>3, RunsRecord DEF Records, SameHooking
<1>4. CASE Notes
  BY <1>4, RunsNote DEF Notes, SameHooking
<1>5. CASE UnderCfg
  BY <1>5, RunsUnderCfg DEF UnderCfg
<1>6. QED
  BY <1>1, <1>2, <1>3, <1>4, <1>5, StepKinds

LEMMA InitControl == Init => ControlInv
<1>. SUFFICES ASSUME Init PROVE ControlInv
  OBVIOUS
<1>1. /\ \A c \in Callers : pc[c] = "idle"
      /\ eventMu = NoOne /\ pump = "read" /\ chunkHook = 0 /\ drainOnce = "idle"
  BY DEF Init
<1>2. QED
  BY <1>1, SessionAssumption DEF ControlInv, EventOwner, HookLoaded, HeldIsActive, OpOfStep,
                                 DrainInv, CfgSteps

LEMMA InitRun == Init => RunInv
<1>. SUFFICES ASSUME Init PROVE RunInv
  OBVIOUS
<1>1. screen = <<>> /\ Len(screen) = 0 /\ Lag = 0 /\ \A c \in Callers : pc[c] = "idle"
  BY DEF Init, Lag
<1>2. NewTrace.log = <<>> /\ NewTrace.hooked = 0
  BY <1>1 DEF NewTrace
<1>3. IsUnbroken(NewTrace) /\ RecordedTo(NewTrace) = 0
  BY <1>2, OpsOfEmpty DEF IsUnbroken, RecordedTo
<1>4. \A i \in DOMAIN traces : traces[i] = NewTrace
  BY DEF Init
<1>5. QED
  BY <1>1, <1>3, <1>4 DEF RunInv

(* What a trace has recorded is an unbroken run of the model's operations   *)
(* from its hook on, and the live trace lags by nothing when eventMu is     *)
(* free (Pump.Run, CommitResize and Ordered, term.go's trace lifecycle).    *)
THEOREM RecordingsAreUnbroken == Spec => []RecordingUnbroken
<1>1. Init => TypeOK /\ RecorderInv /\ ControlInv /\ RunInv
  BY InitType, InitRecorder, InitControl, InitRun
<1>2. TypeOK /\ RecorderInv /\ ControlInv /\ RunInv /\ [Next]_vars
        => (TypeOK /\ RecorderInv /\ ControlInv /\ RunInv)'
  BY StepType, StepRecorder, ControlStep, RunStep DEF RecorderInv
<1>3. TypeOK /\ RunInv => RecordingUnbroken
  <2>. SUFFICES ASSUME TypeOK, RunInv, NEW i \in DOMAIN traces
                PROVE  /\ IsUnbroken(traces[i])
                       /\ i = hook /\ i = tr /\ eventMu = NoOne => RecordedTo(traces[i]) = Len(screen)
    BY DEF RecordingUnbroken
  <2>1. traces[i] \in Traces
    BY DEF TypeOK, RecorderType
  <2>2. RecordedTo(traces[i]) \in Nat
    BY <2>1, RecordedToType
  <2>3. QED
    BY <2>2 DEF RunInv, Lag
<1>4. QED
  BY <1>1, <1>2, <1>3, PTL DEF Spec

-----------------------------------------------------------------------------
(* Sizes stay known, and a repaint comes after its resize, while the model  *)
(* only grows by chunks of known sizes.                                     *)
LEMMA ModelGrows ==
  ASSUME screen \in Seq(ModelOps), NEW o \in ModelOps, screen' = Append(screen, o)
  PROVE  /\ \A v : Known(v) => Known(v)'
         /\ o.ev = "resize" => Known(o.size)'
         /\ RepaintAfterResize /\ (o.ev = "out" => Known(o.size)) => RepaintAfterResize'
<1>1. /\ Len(screen) \in Nat /\ DOMAIN screen = 1 .. Len(screen)
      /\ DOMAIN screen' = 1 .. Len(screen) + 1 /\ screen'[Len(screen) + 1] = o
      /\ \A j \in DOMAIN screen : screen'[j] = screen[j]
  OBVIOUS
<1>2. \A v : Known(v) => Known(v)'
  BY <1>1 DEF Known
<1>3. ASSUME o.ev = "resize" PROVE Known(o.size)'
  <2>1. o = [ev |-> "resize", size |-> o.size]
    BY <1>3 DEF ModelOps
  <2>2. QED
    BY <1>1, <2>1 DEF Known
<1>4. ASSUME RepaintAfterResize, o.ev = "out" => Known(o.size) PROVE RepaintAfterResize'
  <2>. SUFFICES ASSUME NEW k \in DOMAIN screen', screen'[k].ev = "out"
                PROVE  \/ screen'[k].size = 0
                       \/ \E j \in 1 .. (k - 1) : screen'[j] = [ev |-> "resize", size |-> screen'[k].size]
    BY DEF RepaintAfterResize
  <2>1. CASE k \in DOMAIN screen
    <3>1. \A j \in 1 .. (k - 1) : j \in DOMAIN screen
      BY <1>1, <2>1
    <3>2. QED
      BY <1>1, <1>4, <2>1, <3>1 DEF RepaintAfterResize
  <2>2. CASE k = Len(screen) + 1
    BY <1>1, <1>4, <2>2 DEF Known
  <2>3. QED
    BY <1>1, <2>1, <2>2
<1>5. QED
  BY <1>2, <1>3, <1>4

LEMMA SizesKept ==
  ASSUME SizesInv, UNCHANGED <<screen, ptyOut, winsize>>,
         child' = "alive" => child = "alive", pump' = "admit" => pump = "admit" /\ chunk' = chunk
  PROVE  SizesInv'
  BY DEF SizesInv, Known, RepaintAfterResize

LEMMA SizesStep ==
  ASSUME TypeOK, SizesInv, [Next]_vars
  PROVE  SizesInv'
<1>. USE DEF locks, callers, childVs, pumpVs, recVs, onces, Goto, Return, Begin, BeginLocked, Unlock
<1>1. PtyType
  BY DEF TypeOK
<1>2. UNCHANGED screen => /\ \A v : Known(v) => Known(v)'
                          /\ RepaintAfterResize => RepaintAfterResize'
  BY DEF Known, RepaintAfterResize
<1>3. CASE ChildNext
  <2>1. CASE ChildEmit
    <3>1. \A k \in DOMAIN ptyOut' : ptyOut'[k] = winsize \/ (k \in DOMAIN ptyOut /\ ptyOut'[k] = ptyOut[k])
      BY <1>1, <2>1 DEF ChildEmit, PtyType
    <3>2. QED
      BY <1>2, <2>1, <3>1 DEF ChildEmit, SizesInv
  <2>2. CASE ChildRead \/ ChildExit \/ PublishExit
    BY <2>2, SizesKept DEF ChildRead, ChildExit, PublishExit
  <2>3. QED
    BY <1>3, <2>1, <2>2 DEF ChildNext
<1>4. CASE PumpNext
  <2>1. CASE PumpRead
    <3>1. /\ 1 \in DOMAIN ptyOut /\ Head(ptyOut) = ptyOut[1]
          /\ \A k \in DOMAIN Tail(ptyOut) : k + 1 \in DOMAIN ptyOut /\ Tail(ptyOut)[k] = ptyOut[k + 1]
      BY <1>1, <2>1 DEF PumpRead, PtyType
    <3>2. QED
      BY <1>2, <2>1, <3>1 DEF PumpRead, SizesInv
  <2>2. CASE PumpEOF \/ PumpHook
    BY <2>2, SizesKept DEF PumpEOF, PumpHook
  <2>3. CASE PumpFeed
    <3>1. [ev |-> "out", size |-> chunk] \in ModelOps
      BY <1>1 DEF PtyType, ModelOps
    <3>2. screen' = Append(screen, [ev |-> "out", size |-> chunk]) /\ Known(chunk)
      BY <2>3 DEF PumpFeed, SizesInv
    <3>3. (\A v : Known(v) => Known(v)') /\ RepaintAfterResize'
      BY <1>1, <3>1, <3>2, ModelGrows DEF PtyType, SizesInv
    <3>4. QED
      BY <2>3, <3>3 DEF PumpFeed, SizesInv
  <2>4. QED
    BY <1>4, <2>1, <2>2, <2>3 DEF PumpNext
<1>5. ASSUME NEW c \in Callers, BeginOp(c) \/ Advance(c), ~CommitResize(c), ~ResizeFails(c)
      PROVE  SizesInv'
  <2>1. UNCHANGED <<screen, ptyOut, chunk, winsize, pump>> /\ (child' = "alive" => child = "alive")
    BY <1>5 DEF BeginOp, BeginInput, BeginResize, BeginMark, HandleTraceStart, HandleTraceStop,
                BeginClose, BeginWatch, Advance, WriteInput, WriteFails, ReadTr, LogInput, LogResize,
                MarkTrace, LockInput, LockCfgToRecord, LockCfgToFinalize, CloseExit, ClosePublish,
                CloseHook, CreateTrace, InstallHook, FinalizeOnce, DrainOnce, KillChild, CloseMaster,
                JoinPump
  <2>2. QED
    BY <2>1, SizesKept
<1>6. ASSUME NEW c \in Callers, CommitResize(c)
      PROVE  SizesInv'
  <2>1. PICK w \in Nat : w = winsize + 1
    BY <1>1 DEF PtyType
  <2>2. [ev |-> "resize", size |-> w] \in ModelOps
    BY DEF ModelOps
  <2>3. screen' = Append(screen, [ev |-> "resize", size |-> w])
    BY <1>6, <2>1 DEF CommitResize
  <2>4. (\A v : Known(v) => Known(v)') /\ Known(w)' /\ RepaintAfterResize'
    BY <1>1, <2>2, <2>3, ModelGrows DEF PtyType, SizesInv
  <2>5. winsize' = w
    BY <1>6, <2>1 DEF CommitResize
  <2>6. QED
    BY <1>6, <2>4, <2>5 DEF CommitResize, SizesInv
<1>7. ASSUME NEW c \in Callers, ResizeFails(c)
      PROVE  SizesInv'
  BY <1>2, <1>7 DEF ResizeFails, SizesInv
<1>8. CASE UNCHANGED vars
  BY <1>8, SizesKept DEF vars
<1>9. QED
  BY <1>3, <1>4, <1>5, <1>6, <1>7, <1>8 DEF Next, Over

(* Output the child drew for a new window size reaches the model after the  *)
(* model has that size: CommitResize changes both in one section of Pump.mu.*)
THEOREM RepaintsFollowResizes == Spec => []RepaintAfterResize
<1>1. Init => TypeOK /\ SizesInv
  BY InitType DEF Init, SizesInv, Known, RepaintAfterResize
<1>2. TypeOK /\ SizesInv /\ [Next]_vars => (TypeOK /\ SizesInv)'
  BY StepType, SizesStep
<1>3. SizesInv => RepaintAfterResize
  BY DEF SizesInv
<1>4. QED
  BY <1>1, <1>2, <1>3, PTL DEF Spec

-----------------------------------------------------------------------------
(* No step takes a trace or an event of a trace back.                       *)
LogsKept ==
  /\ DOMAIN traces \subseteq DOMAIN traces'
  /\ \A i \in DOMAIN traces : \A k \in DOMAIN traces[i].log :
       k \in DOMAIN traces'[i].log /\ traces'[i].log[k] = traces[i].log[k]

LEMMA RecordKeepsLogs ==
  ASSUME TypeOK, NEW i \in 0 .. Len(traces), NEW e \in Events, traces' = Record(i, e)
  PROVE  LogsKept
<1>1. traces \in Seq(Traces) /\ \A j \in DOMAIN traces : traces[j].log \in Seq(Events)
  <2>1. traces \in Seq(Traces) /\ \A j \in DOMAIN traces : traces[j] \in Traces
    BY DEF TypeOK, RecorderType
  <2>2. QED
    BY <2>1 DEF Traces
<1>2. CASE i = 0 \/ traces[i].state # "open"
  <2>1. traces' = traces
    BY <1>2, RecordNothing
  <2>2. QED
    BY <2>1 DEF LogsKept
<1>3. CASE i # 0 /\ traces[i].state = "open"
  <2>1. i \in DOMAIN traces
    BY <1>1, <1>3
  <2>2. /\ DOMAIN traces' = DOMAIN traces /\ traces'[i].log = Append(traces[i].log, e)
        /\ \A j \in DOMAIN traces : j # i => traces'[j] = traces[j]
    BY <1>1, <1>3, <2>1, RecordOpen
  <2>3. \A k \in DOMAIN traces[i].log : /\ k \in DOMAIN Append(traces[i].log, e)
                                        /\ Append(traces[i].log, e)[k] = traces[i].log[k]
    BY <1>1, <2>1
  <2>4. QED
    BY <2>1, <2>2, <2>3 DEF LogsKept
<1>4. QED
  BY <1>2, <1>3

LEMMA StepKeepsLogs ==
  ASSUME TypeOK, RecorderInv, ControlInv, [Next]_vars
  PROVE  LogsKept
<1>1. traces \in Seq(Traces) /\ tr \in 0 .. Len(traces) /\ hook \in 0 .. Len(traces)
  BY DEF TypeOK, RecorderType
<1>2. CASE Quiet \/ Admits
  BY <1>2 DEF Quiet, Admits, LogsKept
<1>3. CASE Records \/ Notes
  BY <1>1, <1>3, RecordKeepsLogs DEF Records, Notes
<1>4. ASSUME NEW c \in Callers, ClosePublish(c)
      PROVE  LogsKept
  <2>1. tr \in DOMAIN traces
    BY <1>1, <1>4 DEF ClosePublish, RecorderInv, ActiveTrace
  <2>2. traces[tr] \in Traces
    BY <1>1, <2>1
  <2>3. PICK outcome \in {"published", "failed"} :
          traces' = [traces EXCEPT ![tr] = [@ EXCEPT !.state = outcome, !.closer = op[c]]]
    BY <1>4 DEF ClosePublish
  <2>4. /\ DOMAIN traces' = DOMAIN traces /\ traces'[tr].log = traces[tr].log
        /\ \A i \in DOMAIN traces : i # tr => traces'[i] = traces[i]
    BY <1>1, <2>1, <2>2, <2>3 DEF Traces
  <2>5. QED
    BY <2>4 DEF LogsKept
<1>5. ASSUME NEW c \in Callers, CloseHook(c) \/ CreateTrace(c)
      PROVE  LogsKept
  <2>1. NewTrace \in Traces
    BY NewTraceType DEF TypeOK, PtyType
  <2>2. traces' = traces \/ traces' = Append(traces, NewTrace)
    BY <1>5 DEF CloseHook, CreateTrace
  <2>3. QED
    BY <1>1, <2>1, <2>2 DEF LogsKept
<1>6. ASSUME NEW c \in Callers, InstallHook(c)
      PROVE  LogsKept
  <2>1. Len(traces) \in DOMAIN traces
    BY <1>1, <1>6 DEF InstallHook, RecorderInv, ActiveTrace
  <2>2. traces[Len(traces)] \in Traces
    BY <1>1, <2>1
  <2>3. traces' = [traces EXCEPT ![Len(traces)].hooked = Len(screen)]
    BY <1>6 DEF InstallHook
  <2>4. /\ DOMAIN traces' = DOMAIN traces /\ traces'[Len(traces)].log = traces[Len(traces)].log
        /\ \A i \in DOMAIN traces : i # Len(traces) => traces'[i] = traces[i]
    BY <1>1, <2>1, <2>2, <2>3 DEF Traces
  <2>5. QED
    BY <2>4 DEF LogsKept
<1>7. QED
  BY <1>2, <1>3, <1>4, <1>5, <1>6, StepKinds DEF UnderCfg

LEMMA InputsKept ==
  ASSUME InputsInv, LogsKept, UNCHANGED sent, \A c \in Callers : Sending(c) => Sending(c)' /\ tr' = tr
  PROVE  InputsInv'
<1>. SUFFICES ASSUME NEW s \in DOMAIN sent, sent[s] # 0
              PROVE  /\ sent[s] \in DOMAIN traces'
                     /\ \/ IsRecorded(sent[s], s)'
                        \/ s = Len(sent) /\ sent[s] = tr' /\ \E c \in Callers : Sending(c)'
  BY DEF InputsInv, IsRecorded
<1>1. CASE IsRecorded(sent[s], s)
  BY <1>1 DEF IsRecorded, LogsKept, InputsInv
<1>2. CASE ~IsRecorded(sent[s], s)
  BY <1>2 DEF LogsKept, InputsInv
<1>3. QED
  BY <1>1, <1>2

LEMMA InputsStep ==
  ASSUME TypeOK, RecorderInv, ControlInv, InputsInv, [Next]_vars
  PROVE  InputsInv'
<1>. USE DEF locks, callers, childVs, pumpVs, recVs, onces, Goto, Return, Begin, BeginLocked, Unlock
<1>1. LogsKept
  BY StepKeepsLogs
<1>2. /\ op \in [Callers -> Ops] /\ pc \in [Callers -> Steps] /\ sent \in Seq(Nat)
      /\ tr \in 0 .. Len(traces) /\ traces \in Seq(Traces)
  BY DEF TypeOK, CallerType, RecorderType
<1>3. ASSUME NEW c \in Callers, pc[c] \in InputSteps
      PROVE  \A d \in Callers : d # c => ~Sending(d)
  BY <1>3 DEF RecorderInv, InputOwner, InputSteps, Sending
<1>4. CASE ChildNext \/ PumpNext
  <2>1. UNCHANGED <<sent, op, pc, tr>>
    BY <1>4 DEF ChildNext, ChildEmit, ChildRead, ChildExit, PublishExit, PumpNext, PumpRead, PumpEOF,
                PumpFeed, PumpHook
  <2>2. QED
    BY <1>1, <2>1, InputsKept DEF Sending
<1>5. ASSUME NEW c \in Callers, BeginOp(c)
      PROVE  InputsInv'
  <2>1. UNCHANGED <<sent, tr>> /\ pc[c] = "idle" /\ \A d \in Callers : d # c => pc'[d] = pc[d] /\ op'[d] = op[d]
    BY <1>2, <1>5 DEF BeginOp, BeginInput, BeginResize, BeginMark, HandleTraceStart, HandleTraceStop,
                      BeginClose, BeginWatch
  <2>2. QED
    BY <1>1, <2>1, InputsKept DEF Sending
<1>6. ASSUME NEW c \in Callers, WriteInput(c)
      PROVE  InputsInv'
  <2>1. sent' = Append(sent, tr) /\ UNCHANGED <<tr, traces>> /\ Sending(c)'
    <3>1. op[c] = "input"
      BY <1>6 DEF WriteInput, ControlInv, OpOfStep
    <3>2. QED
      BY <1>2, <1>6, <3>1 DEF WriteInput, Sending
  <2>2. \A d \in Callers : ~Sending(d)
    BY <1>3, <1>6 DEF WriteInput, InputSteps, Sending
  <2>3. /\ DOMAIN sent' = DOMAIN sent \cup {Len(sent')} /\ sent'[Len(sent')] = tr
        /\ \A s \in DOMAIN sent : sent'[s] = sent[s]
    BY <1>2, <2>1
  <2>4. tr # 0 => tr \in DOMAIN traces
    BY <1>2
  <2>5. \A s \in DOMAIN sent : sent[s] # 0 => sent[s] \in DOMAIN traces /\ IsRecorded(sent[s], s)
    BY <2>2 DEF InputsInv
  <2>6. ASSUME NEW s \in DOMAIN sent', sent'[s] # 0
        PROVE  /\ sent'[s] \in DOMAIN traces
               /\ \/ IsRecorded(sent'[s], s)
                  \/ s = Len(sent') /\ sent'[s] = tr
    BY <2>3, <2>4, <2>5, <2>6
  <2>7. QED
    BY <2>1, <2>6 DEF InputsInv, IsRecorded
<1>7. ASSUME NEW c \in Callers, ReadTr(c)
      PROVE  InputsInv'
  <2>1. /\ UNCHANGED <<sent, tr>> /\ \A d \in Callers : d # c => pc'[d] = pc[d] /\ op'[d] = op[d]
        /\ op[c] = "input" => pc'[c] = "log" /\ op'[c] = op[c]
    BY <1>2, <1>7 DEF ReadTr
  <2>2. QED
    BY <1>1, <2>1, InputsKept DEF Sending
<1>8. ASSUME NEW c \in Callers, LogInput(c)
      PROVE  InputsInv'
  <2>1. /\ traces' = Record(tr, [ev |-> "in", at |-> Len(sent)])
        /\ UNCHANGED <<sent, tr>>
    BY <1>8 DEF LogInput, ControlInv, HeldIsActive
  <2>2. [ev |-> "in", at |-> Len(sent)] \in Events
    BY <1>2 DEF Events
  <2>3. tr # 0 => /\ tr \in DOMAIN traces
                  /\ \E k \in DOMAIN traces'[tr].log : traces'[tr].log[k] = [ev |-> "in", at |-> Len(sent)]
    <3>1. SUFFICES ASSUME tr # 0 PROVE /\ tr \in DOMAIN traces
                                       /\ \E k \in DOMAIN traces'[tr].log :
                                            traces'[tr].log[k] = [ev |-> "in", at |-> Len(sent)]
      OBVIOUS
    <3>2. tr \in DOMAIN traces /\ traces[tr].state = "open"
      BY <1>2, <3>1 DEF RecorderInv, ActiveTrace
    <3>3. traces'[tr].log = Append(traces[tr].log, [ev |-> "in", at |-> Len(sent)])
      BY <1>2, <2>1, <2>2, <3>2, RecordOpen
    <3>4. traces[tr] \in Traces
      BY <1>2, <3>2
    <3>5. traces[tr].log \in Seq(Events)
      BY <3>4 DEF Traces
    <3>6. /\ Len(traces[tr].log) + 1 \in DOMAIN traces'[tr].log
          /\ traces'[tr].log[Len(traces[tr].log) + 1] = [ev |-> "in", at |-> Len(sent)]
      BY <2>2, <3>3, <3>5
    <3>7. QED
      BY <3>2, <3>6
  <2>4. ASSUME NEW s \in DOMAIN sent, sent[s] # 0
        PROVE  /\ sent[s] \in DOMAIN traces'
               /\ \E k \in DOMAIN traces'[sent[s]].log : traces'[sent[s]].log[k] = [ev |-> "in", at |-> s]
    <3>1. sent[s] \in DOMAIN traces /\ (IsRecorded(sent[s], s) \/ (s = Len(sent) /\ sent[s] = tr))
      BY <2>4 DEF InputsInv
    <3>2. CASE IsRecorded(sent[s], s)
      BY <1>1, <3>1, <3>2 DEF IsRecorded, LogsKept
    <3>3. CASE s = Len(sent) /\ sent[s] = tr
      BY <1>1, <2>3, <2>4, <3>1, <3>3 DEF LogsKept
    <3>4. QED
      BY <3>1, <3>2, <3>3
  <2>5. QED
    BY <2>1, <2>4 DEF InputsInv, IsRecorded
<1>9. ASSUME NEW c \in Callers, pc[c] \in InputSteps /\ ~Sending(c) /\ UNCHANGED sent
      PROVE  InputsInv'
  BY <1>1, <1>3, <1>9, InputsKept DEF Sending
<1>10. ASSUME NEW c \in Callers, WriteFails(c) \/ CommitResize(c) \/ ResizeFails(c) \/ LogResize(c) \/ MarkTrace(c)
       PROVE  InputsInv'
  <2>1. pc[c] \in InputSteps /\ ~Sending(c) /\ UNCHANGED sent
    BY <1>10 DEF WriteFails, CommitResize, ResizeFails, LogResize, MarkTrace, InputSteps, Sending
  <2>2. QED
    BY <1>9, <2>1
<1>11. ASSUME NEW c \in Callers, LockCfgToRecord(c) \/ LockCfgToFinalize(c) \/ CloseExit(c) \/ ClosePublish(c)
                                 \/ CloseHook(c) \/ CreateTrace(c) \/ InstallHook(c)
       PROVE  InputsInv'
  <2>1. pc[c] \in InputSteps /\ ~Sending(c) /\ UNCHANGED sent
    BY <1>11 DEF LockCfgToRecord, LockCfgToFinalize, CloseExit, ClosePublish, CloseHook, CreateTrace,
                 InstallHook, InputSteps, CfgSteps, Sending
  <2>2. QED
    BY <1>9, <2>1
<1>12. ASSUME NEW c \in Callers, LockInput(c) \/ FinalizeOnce(c) \/ DrainOnce(c) \/ KillChild(c) \/ CloseMaster(c) \/ JoinPump(c)
       PROVE  InputsInv'
  <2>1. /\ UNCHANGED <<sent, tr>> /\ ~Sending(c)
        /\ \A d \in Callers : d # c => pc'[d] = pc[d] /\ op'[d] = op[d]
    BY <1>2, <1>12 DEF LockInput, FinalizeOnce, DrainOnce, KillChild, CloseMaster, JoinPump, Sending
  <2>2. QED
    BY <1>1, <2>1, InputsKept DEF Sending
<1>13. CASE UNCHANGED vars
  BY <1>1, <1>13, InputsKept DEF vars, Sending
<1>14. QED
  BY <1>4, <1>5, <1>6, <1>7, <1>8, <1>10, <1>11, <1>12, <1>13 DEF Next, Advance, Over

-----------------------------------------------------------------------------
LEMMA ExitsOfAppend ==
  ASSUME NEW log \in Seq(Events), NEW e \in Events
  PROVE  /\ Len(Append(log, e)) = Len(log) + 1 /\ Len(log) + 1 \notin Exits(log)
         /\ e.ev # "exit" => Exits(Append(log, e)) = Exits(log)
         /\ e.ev = "exit" => Exits(Append(log, e)) = Exits(log) \cup {Len(log) + 1}
<1>1. /\ Len(log) \in Nat /\ DOMAIN log = 1 .. Len(log) /\ Len(Append(log, e)) = Len(log) + 1
      /\ DOMAIN Append(log, e) = 1 .. Len(log) + 1
      /\ Append(log, e)[Len(log) + 1] = e
      /\ \A k \in 1 .. Len(log) : Append(log, e)[k] = log[k]
  OBVIOUS
<1>2. QED
  BY <1>1 DEF Exits

(* The callers that have written an exit, or are about to publish, are the  *)
(* same after the step.                                                     *)
SameExiting == \A c \in Callers : /\ ExitWritten(c)' <=> ExitWritten(c)
                                  /\ ExitWritten(c) => op'[c] = op[c]

LEMMA ExitOfKept ==
  ASSUME SameExiting, NEW t, ExitOf(t)
  PROVE  ExitOf(t)'
  BY DEF SameExiting, ExitOf

LEMMA ExitKept ==
  ASSUME ExitInv, SameExiting, UNCHANGED traces
  PROVE  ExitInv'
<1>. SUFFICES ASSUME NEW i \in DOMAIN traces PROVE ExitOf(traces[i])'
  BY DEF ExitInv
<1>1. ExitOf(traces[i])
  BY DEF ExitInv
<1>2. PICK t : t = traces[i]
  OBVIOUS
<1>3. ExitOf(t)'
  BY <1>1, <1>2, ExitOfKept
<1>4. QED
  BY <1>2, <1>3 DEF ExitOf, ExitWritten

(* Anything but an exit is recorded only while nobody finalizes.            *)
LEMMA ExitOther ==
  ASSUME TypeOK, ExitInv, SameExiting, NEW i \in 0 .. Len(traces), NEW e \in Events, e.ev # "exit",
         \A c \in Callers : ExitWritten(c) => op[c] # "finalize", traces' = Record(i, e)
  PROVE  ExitInv'
<1>1. traces \in Seq(Traces)
  BY DEF TypeOK, RecorderType
<1>2. CASE i = 0 \/ traces[i].state # "open"
  BY <1>2, RecordNothing, ExitKept
<1>3. CASE i # 0 /\ traces[i].state = "open"
  <2>1. i \in DOMAIN traces
    BY <1>1, <1>3
  <2>2. PICK t \in Traces : t = traces[i]
    BY <1>1, <2>1
  <2>3. PICK u : u = traces'[i]
    OBVIOUS
  <2>4. /\ DOMAIN traces' = DOMAIN traces /\ \A j \in DOMAIN traces : j # i => traces'[j] = traces[j]
        /\ u.log = Append(t.log, e) /\ u.state = "open" /\ u.closer = t.closer
    BY <1>1, <1>3, <2>1, <2>2, <2>3, RecordOpen
  <2>5. t.log \in Seq(Events)
    BY <2>2 DEF Traces
  <2>6. Exits(u.log) = Exits(t.log)
    BY <2>4, <2>5, ExitsOfAppend
  <2>7. ExitOf(t) /\ t.state = "open"
    BY <1>3, <2>1, <2>2 DEF ExitInv
  <2>8. ExitOf(u)'
    BY <2>4, <2>6, <2>7 DEF ExitOf, SameExiting
  <2>9. ASSUME NEW j \in DOMAIN traces'
        PROVE  ExitOf(traces[j])'
    <3>1. CASE j = i
      BY <2>3, <2>8, <3>1 DEF ExitOf, ExitWritten
    <3>2. CASE j # i
      <4>1. ExitOf(traces[j])
        BY <2>4 DEF ExitInv
      <4>2. PICK v : v = traces[j]
        OBVIOUS
      <4>3. ExitOf(v)'
        BY <4>1, <4>2, ExitOfKept
      <4>4. QED
        BY <2>4, <3>2, <4>2, <4>3 DEF ExitOf, ExitWritten
    <3>3. QED
      BY <3>1, <3>2
  <2>10. QED
    BY <2>9 DEF ExitInv
<1>4. QED
  BY <1>2, <1>3

(* The exit is recorded once, and nobody has written one yet.               *)
LEMMA ExitNow ==
  ASSUME TypeOK, RecorderInv, ExitInv, tr # 0, NEW e \in Events, e.ev = "exit", traces' = Record(tr, e),
         \A c \in Callers : ~ExitWritten(c), NEW d \in Callers, ExitWritten(d)',
         \A i \in DOMAIN traces : traces[i].state = "open" => i = tr
  PROVE  ExitInv'
<1>1. traces \in Seq(Traces) /\ tr \in DOMAIN traces /\ traces[tr].state = "open"
  BY DEF TypeOK, RecorderType, RecorderInv, ActiveTrace
<1>2. PICK t \in Traces : t = traces[tr]
  BY <1>1
<1>3. PICK a : a = tr
  OBVIOUS
<1>4. PICK u : u = traces'[a]
  OBVIOUS
<1>5. /\ DOMAIN traces' = DOMAIN traces /\ \A j \in DOMAIN traces : j # a => traces'[j] = traces[j]
      /\ u.log = Append(t.log, e) /\ u.state = "open" /\ u.closer = t.closer
  BY <1>1, <1>2, <1>3, <1>4, RecordOpen
<1>6. t.log \in Seq(Events)
  BY <1>2 DEF Traces
<1>7. Exits(t.log) = {} /\ t.closer = "none"
  BY <1>1, <1>2 DEF ExitInv, ExitOf
<1>8. Exits(u.log) = {Len(u.log)}
  BY <1>5, <1>6, <1>7, ExitsOfAppend
<1>9. ExitOf(u)'
  BY <1>5, <1>7, <1>8 DEF ExitOf
<1>10. ASSUME NEW j \in DOMAIN traces'
       PROVE  ExitOf(traces[j])'
  <2>1. CASE j = a
    BY <1>4, <1>9, <2>1 DEF ExitOf, ExitWritten
  <2>2. CASE j # a
    <3>1. ExitOf(traces[j]) /\ traces[j].state # "open" /\ traces'[j] = traces[j]
      BY <1>3, <1>5, <2>2 DEF ExitInv
    <3>2. QED
      BY <3>1 DEF ExitOf
  <2>3. QED
    BY <2>1, <2>2
<1>11. QED
  BY <1>10 DEF ExitInv

(* The trace is closed by the caller who wrote its exit.                    *)
LEMMA ExitClosed ==
  ASSUME TypeOK, RecorderInv, ExitInv, NEW c \in Callers, ClosePublish(c)
  PROVE  ExitInv'
<1>1. traces \in Seq(Traces) /\ pc \in [Callers -> Steps] /\ tr \in DOMAIN traces /\ traces[tr].state = "open"
  BY DEF TypeOK, CallerType, RecorderType, RecorderInv, ActiveTrace, ClosePublish
<1>2. PICK t \in Traces : t = traces[tr]
  BY <1>1
<1>3. PICK a : a = tr
  OBVIOUS
<1>4. PICK outcome \in {"published", "failed"} :
        traces' = [traces EXCEPT ![tr] = [@ EXCEPT !.state = outcome, !.closer = op[c]]]
  BY DEF ClosePublish
<1>5. PICK u : u = [t EXCEPT !.state = outcome, !.closer = op[c]]
  OBVIOUS
<1>6. /\ DOMAIN traces' = DOMAIN traces /\ traces'[a] = u
      /\ \A j \in DOMAIN traces : j # a => traces'[j] = traces[j]
  BY <1>1, <1>2, <1>3, <1>4, <1>5
<1>7. u.log = t.log /\ u.state # "open" /\ u.closer = op[c]
  BY <1>2, <1>5 DEF Traces
<1>8. ExitWritten(c) /\ ExitOf(t)
  BY <1>1, <1>2 DEF ExitInv, ExitWritten, ClosePublish
<1>9. \A j \in DOMAIN traces : traces[j].state = "open" => j = a
  <2>1. pc[c] = "closePublish"
    BY DEF ClosePublish
  <2>2. \A d \in Callers : pc[d] # "setHook"
    BY <2>1, CfgAlone DEF CfgSteps
  <2>3. QED
    BY <1>3, <2>2 DEF RecorderInv, OneOpenTrace
<1>10. ExitOf(u)'
  BY <1>1, <1>2, <1>7, <1>8 DEF ExitOf
<1>11. ASSUME NEW j \in DOMAIN traces'
       PROVE  ExitOf(traces[j])'
  <2>1. CASE j = a
    BY <1>6, <1>10, <2>1 DEF ExitOf, ExitWritten
  <2>2. CASE j # a
    <3>1. ExitOf(traces[j]) /\ traces[j].state # "open" /\ traces'[j] = traces[j]
      BY <1>6, <1>9, <2>2 DEF ExitInv
    <3>2. QED
      BY <3>1 DEF ExitOf
  <2>3. QED
    BY <2>1, <2>2
<1>12. QED
  BY <1>11 DEF ExitInv

(* A new trace has no exit, and hooking it adds none.                       *)
LEMMA ExitOpened ==
  ASSUME TypeOK, RecorderInv, ExitInv, NEW c \in Callers, CreateTrace(c) \/ InstallHook(c)
  PROVE  ExitInv'
<1>. USE DEF Unlock, Return, Goto
<1>1. traces \in Seq(Traces) /\ pc \in [Callers -> Steps] /\ Len(traces) \in Nat
  BY DEF TypeOK, CallerType, RecorderType
<1>2. pc[c] \in CfgSteps /\ \A d \in Callers : d # c => pc[d] \notin CfgSteps
  BY CfgAlone DEF CreateTrace, InstallHook, CfgSteps
<1>3. (\A d \in Callers : ~ExitWritten(d)) /\ \A d \in Callers : ~ExitWritten(d)'
  BY <1>1, <1>2 DEF CreateTrace, InstallHook, ExitWritten, CfgSteps
<1>4. SameExiting
  BY <1>3 DEF SameExiting
<1>5. CASE UNCHANGED traces
  BY <1>4, <1>5, ExitKept
<1>6. CASE CreateTrace(c) /\ traces' = Append(traces, NewTrace)
  <2>1. NewTrace \in Traces /\ NewTrace.log = <<>> /\ NewTrace.closer = "none"
    BY NewTraceType DEF NewTrace, TypeOK, PtyType
  <2>2. PICK t : t = NewTrace
    OBVIOUS
  <2>3. /\ DOMAIN traces' = DOMAIN traces \cup {Len(traces) + 1} /\ traces'[Len(traces) + 1] = t
        /\ \A j \in DOMAIN traces : traces'[j] = traces[j]
    BY <1>1, <1>6, <2>1, <2>2
  <2>4. ExitOf(t)'
    BY <1>3, <2>1, <2>2 DEF ExitOf, Exits
  <2>5. ASSUME NEW j \in DOMAIN traces'
        PROVE  ExitOf(traces[j])'
    <3>1. CASE j \in DOMAIN traces
      <4>1. PICK v : v = traces[j]
        OBVIOUS
      <4>2. ExitOf(v)
        BY <3>1, <4>1 DEF ExitInv
      <4>3. ExitOf(v)'
        BY <1>4, <4>2, ExitOfKept
      <4>4. QED
        BY <2>3, <3>1, <4>1, <4>3 DEF ExitOf, ExitWritten
    <3>2. CASE j \notin DOMAIN traces
      <4>1. traces'[j] = t
        BY <2>3, <3>2
      <4>2. QED
        BY <2>4, <4>1 DEF ExitOf, ExitWritten
    <3>3. QED
      BY <3>1, <3>2
  <2>6. QED
    BY <2>5 DEF ExitInv
<1>7. CASE InstallHook(c)
  <2>1. Len(traces) \in DOMAIN traces
    BY <1>1, <1>7 DEF InstallHook, RecorderInv, ActiveTrace
  <2>2. traces[Len(traces)] \in Traces
    BY <1>1, <2>1
  <2>3. traces' = [traces EXCEPT ![Len(traces)].hooked = Len(screen)]
    BY <1>7 DEF InstallHook
  <2>4. /\ DOMAIN traces' = DOMAIN traces
        /\ \A j \in DOMAIN traces : /\ traces'[j].log = traces[j].log /\ traces'[j].state = traces[j].state
                                    /\ traces'[j].closer = traces[j].closer
    <3>1. /\ traces'[Len(traces)].log = traces[Len(traces)].log
          /\ traces'[Len(traces)].state = traces[Len(traces)].state
          /\ traces'[Len(traces)].closer = traces[Len(traces)].closer
      BY <1>1, <2>1, <2>2, <2>3 DEF Traces
    <3>2. QED
      BY <1>1, <2>1, <2>3, <3>1
  <2>5. ASSUME NEW j \in DOMAIN traces'
        PROVE  ExitOf(traces[j])'
    <3>1. PICK v : v = traces[j]
      OBVIOUS
    <3>2. PICK u : u = traces'[j]
      OBVIOUS
    <3>3. ExitOf(v) /\ u.log = v.log /\ u.state = v.state /\ u.closer = v.closer
      BY <2>4, <3>1, <3>2 DEF ExitInv
    <3>4. ExitOf(u)'
      BY <1>3, <3>3 DEF ExitOf
    <3>5. QED
      BY <3>2, <3>4 DEF ExitOf, ExitWritten
  <2>6. QED
    BY <2>5 DEF ExitInv
<1>8. QED
  BY <1>5, <1>6, <1>7 DEF CreateTrace

LEMMA ExitStep ==
  ASSUME TypeOK, RecorderInv, ControlInv, ExitInv, [Next]_vars
  PROVE  ExitInv'
<1>. USE SessionAssumption
     DEF locks, callers, childVs, pumpVs, recVs, onces, Goto, Return, Begin, BeginLocked, Unlock,
         SameExiting, ExitWritten
<1>1. /\ op \in [Callers -> Ops] /\ pc \in [Callers -> Steps] /\ held \in [Callers -> 0 .. Len(traces)]
      /\ traces \in Seq(Traces) /\ tr \in 0 .. Len(traces) /\ chunkHook \in 0 .. Len(traces)
      /\ Len(screen) \in Nat /\ Len(sent) \in Nat
  BY DEF TypeOK, CallerType, RecorderType, PtyType
<1>2. \A n \in Nat, v \in {"out", "resize", "in", "marker", "exit"} : [ev |-> v, at |-> n] \in Events
  BY DEF Events
<1>3. CASE ChildNext \/ PumpRead \/ PumpEOF \/ PumpFeed
  <2>1. UNCHANGED <<traces, op, pc>>
    BY <1>3 DEF ChildNext, ChildEmit, ChildRead, ChildExit, PublishExit, PumpRead, PumpEOF, PumpFeed
  <2>2. QED
    BY <2>1, ExitKept
<1>4. CASE PumpHook
  <2>1. traces' = Record(chunkHook, [ev |-> "out", at |-> Len(screen)]) /\ UNCHANGED <<op, pc>>
    BY <1>4 DEF PumpHook
  <2>2. [ev |-> "out", at |-> Len(screen)] \in Events
    BY <1>1, <1>2
  <2>3. \A c \in Callers : ExitWritten(c) => op[c] # "finalize"
    BY <1>4 DEF PumpHook, ControlInv, DrainInv, CfgSteps
  <2>4. QED
    BY <1>1, <2>1, <2>2, <2>3, ExitOther
<1>5. ASSUME NEW c \in Callers, LogInput(c) \/ LogResize(c) \/ MarkTrace(c)
      PROVE  ExitInv'
  <2>1. PICK e \in Events : e.ev # "exit" /\ traces' = Record(held[c], e)
    <3>1. /\ [ev |-> "in", at |-> Len(sent)] \in Events /\ [ev |-> "resize", at |-> Len(screen)] \in Events
          /\ [ev |-> "marker", at |-> Len(screen)] \in Events
      BY <1>1, <1>2
    <3>2. QED
      BY <1>5, <3>1 DEF LogInput, LogResize, MarkTrace
  <2>2. /\ SameExiting /\ inputMu = c
    BY <1>1, <1>5 DEF LogInput, LogResize, MarkTrace, RecorderInv, InputOwner, InputSteps
  <2>3. \A d \in Callers : ~ExitWritten(d)
    BY <1>5, <2>2 DEF LogInput, LogResize, MarkTrace, RecorderInv, InputOwner, InputSteps, CfgSteps
  <2>4. held[c] \in 0 .. Len(traces)
    BY <1>1
  <2>5. QED
    BY <2>1, <2>2, <2>3, <2>4, ExitOther
<1>6. ASSUME NEW c \in Callers, CloseExit(c)
      PROVE  ExitInv'
  <2>1. pc[c] = "closeExit" /\ pc' = [pc EXCEPT ![c] = "closePublish"] /\ UNCHANGED op
    BY <1>6 DEF CloseExit
  <2>2. /\ \A d \in Callers : d # c => pc[d] \notin CfgSteps
        /\ tr # 0 /\ \A i \in DOMAIN traces : traces[i].state = "open" => i = tr
    BY <2>1, CfgAlone DEF CfgSteps, RecorderInv, ActiveTrace, OneOpenTrace
  <2>3. CASE traces' = traces
    <3>1. PICK final : final <=> op[c] = "finalize"
      OBVIOUS
    <3>2. ASSUME NEW i \in DOMAIN traces
          PROVE  ExitOf(traces[i])'
      <4>1. PICK t : t = traces[i]
        OBVIOUS
      <4>2. ExitOf(t)
        BY <4>1 DEF ExitInv
      <4>3. \A d \in Callers : /\ ExitWritten(d) => d = c /\ op[c] = "finalize"
                               /\ ExitWritten(d)' <=> d = c
        BY <1>1, <2>1, <2>2 DEF CfgSteps
      <4>4. op[c] = "finalize" => ExitWritten(c)
        BY <2>1
      <4>5. ExitOf(t)'
        BY <2>1, <4>2, <4>3, <4>4 DEF ExitOf
      <4>6. QED
        BY <2>3, <4>1, <4>5 DEF ExitOf
    <3>3. QED
      BY <2>3, <3>2 DEF ExitInv
  <2>4. CASE traces' # traces
    <3>1. traces' = Record(tr, [ev |-> "exit", at |-> Len(screen)]) /\ ~finalized
      BY <1>6, <2>4 DEF CloseExit
    <3>2. op[c] # "finalize"
      BY <2>1, <3>1 DEF RecorderInv, FinalIsQuiet, CfgSteps
    <3>3. \A d \in Callers : ~ExitWritten(d)
      BY <2>1, <2>2, <3>2 DEF CfgSteps
    <3>4. ExitWritten(c)'
      BY <1>1, <2>1
    <3>5. [ev |-> "exit", at |-> Len(screen)] \in Events
      BY <1>1, <1>2
    <3>6. QED
      BY <2>2, <3>1, <3>3, <3>4, <3>5, ExitNow
  <2>5. QED
    BY <2>3, <2>4
<1>7. ASSUME NEW c \in Callers, LockCfgToFinalize(c)
      PROVE  ExitInv'
  <2>1. cfgMu = NoOne /\ \A d \in Callers : pc[d] \notin CfgSteps
    BY <1>7, CfgAlone DEF LockCfgToFinalize
  <2>2. \A d \in Callers : ~ExitWritten(d)
    BY <2>1 DEF CfgSteps
  <2>3. CASE tr = 0
    <3>1. SameExiting /\ UNCHANGED traces
      BY <1>1, <1>7, <2>2, <2>3 DEF LockCfgToFinalize
    <3>2. QED
      BY <3>1, ExitKept
  <2>4. CASE tr # 0
    <3>1. traces' = Record(tr, [ev |-> "exit", at |-> Len(screen)]) /\ ExitWritten(c)'
      BY <1>1, <1>7, <2>4 DEF LockCfgToFinalize
    <3>2. \A i \in DOMAIN traces : traces[i].state = "open" => i = tr
      BY <2>1 DEF RecorderInv, OneOpenTrace, CfgSteps
    <3>3. [ev |-> "exit", at |-> Len(screen)] \in Events
      BY <1>1, <1>2
    <3>4. QED
      BY <2>2, <2>4, <3>1, <3>2, <3>3, ExitNow
  <2>5. QED
    BY <2>3, <2>4
<1>8. ASSUME NEW c \in Callers, ClosePublish(c)
      PROVE  ExitInv'
  BY <1>8, ExitClosed
<1>9. ASSUME NEW c \in Callers, CreateTrace(c) \/ InstallHook(c)
      PROVE  ExitInv'
  BY <1>9, ExitOpened
<1>10. ASSUME NEW c \in Callers, BeginOp(c)
       PROVE  ExitInv'
  <2>1. SameExiting /\ UNCHANGED traces
    BY <1>1, <1>10 DEF BeginOp, BeginInput, BeginResize, BeginMark, HandleTraceStart, HandleTraceStop,
                       BeginClose, BeginWatch
  <2>2. QED
    BY <2>1, ExitKept
<1>11. ASSUME NEW c \in Callers, WriteInput(c) \/ WriteFails(c) \/ ReadTr(c) \/ CommitResize(c) \/ ResizeFails(c)
       PROVE  ExitInv'
  <2>1. SameExiting /\ UNCHANGED traces
    BY <1>1, <1>11 DEF WriteInput, WriteFails, ReadTr, CommitResize, ResizeFails
  <2>2. QED
    BY <2>1, ExitKept
<1>12. ASSUME NEW c \in Callers, LockInput(c) \/ LockCfgToRecord(c) \/ CloseHook(c)
       PROVE  ExitInv'
  <2>1. SameExiting /\ UNCHANGED traces
    BY <1>1, <1>12 DEF LockInput, LockCfgToRecord, CloseHook
  <2>2. QED
    BY <2>1, ExitKept
<1>13. ASSUME NEW c \in Callers, FinalizeOnce(c) \/ DrainOnce(c) \/ KillChild(c) \/ CloseMaster(c) \/ JoinPump(c)
       PROVE  ExitInv'
  <2>1. SameExiting /\ UNCHANGED traces
    BY <1>1, <1>13 DEF FinalizeOnce, DrainOnce, KillChild, CloseMaster, JoinPump, AfterDrain
  <2>2. QED
    BY <2>1, ExitKept
<1>14. CASE UNCHANGED vars
  BY <1>14, ExitKept DEF vars
<1>15. QED
  BY <1>3, <1>4, <1>5, <1>6, <1>7, <1>8, <1>9, <1>10, <1>11, <1>12, <1>13, <1>14
     DEF Next, PumpNext, Advance, Over

(* A closed trace holds every input sent while it was open, and the exit    *)
(* once; closed by finalization, the exit is its last event (the input      *)
(* boundary of term.go and closeTraceLocked).                               *)
THEOREM ClosedTracesAreWhole == Spec => []ClosedTraceWhole
<1>1. Init => TypeOK /\ RecorderInv /\ ControlInv /\ InputsInv /\ ExitInv
  <2>. SUFFICES ASSUME Init PROVE InputsInv /\ ExitInv
    BY InitType, InitRecorder, InitControl
  <2>1. NewTrace.log = <<>> /\ NewTrace.closer = "none" /\ \A i \in DOMAIN traces : traces[i] = NewTrace
    BY DEF Init, NewTrace
  <2>2. InputsInv
    BY DEF Init, InputsInv
  <2>3. ExitInv
    BY <2>1 DEF Init, ExitInv, ExitOf, Exits, ExitWritten
  <2>4. QED
    BY <2>2, <2>3
<1>2. TypeOK /\ RecorderInv /\ ControlInv /\ InputsInv /\ ExitInv /\ [Next]_vars
        => (TypeOK /\ RecorderInv /\ ControlInv /\ InputsInv /\ ExitInv)'
  BY StepType, StepRecorder, ControlStep, InputsStep, ExitStep DEF RecorderInv
<1>3. TypeOK /\ RecorderInv /\ InputsInv /\ ExitInv => ClosedTraceWhole
  <2>. SUFFICES ASSUME TypeOK, RecorderInv, InputsInv, ExitInv
                PROVE  ClosedTraceHasInputs /\ ExitRecordedLast
    BY DEF ClosedTraceWhole
  <2>1. ExitRecordedLast
    BY DEF ExitRecordedLast, ExitInv, ExitOf, Exits
  <2>2. \A i \in DOMAIN traces : i # 0 /\ (i = tr => traces[i].state = "open")
    BY DEF TypeOK, RecorderType, RecorderInv, ActiveTrace
  <2>3. ClosedTraceHasInputs
    BY <2>2 DEF ClosedTraceHasInputs, InputsInv, IsRecorded
  <2>4. QED
    BY <2>1, <2>3
<1>4. QED
  BY <1>1, <1>2, <1>3, PTL DEF Spec

-----------------------------------------------------------------------------
(* What a record changes besides the run of operations: nothing.            *)
LEMMA RecordShape ==
  ASSUME TypeOK, NEW i \in 0 .. Len(traces), NEW e \in Events, traces' = Record(i, e)
  PROVE  /\ DOMAIN traces' = DOMAIN traces /\ Len(traces') = Len(traces)
         /\ \A j \in DOMAIN traces : /\ traces'[j].hooked = traces[j].hooked
                                     /\ traces'[j].state = traces[j].state
                                     /\ traces[j].state # "open" \/ j # i => traces'[j] = traces[j]
<1>1. traces \in Seq(Traces) /\ i # 0 => i \in DOMAIN traces
  BY DEF TypeOK, RecorderType
<1>2. CASE i = 0 \/ traces[i].state # "open"
  BY <1>2, RecordNothing
<1>3. CASE i # 0 /\ traces[i].state = "open"
  <2>1. i \in DOMAIN traces /\ traces \in Seq(Traces)
    BY <1>3 DEF TypeOK, RecorderType
  <2>2. QED
    BY <1>3, <2>1, RecordOpen
<1>4. QED
  BY <1>2, <1>3

(* When a caller is about to close the trace for good, the model and the    *)
(* trace agree: the drain has stopped the pump, the input boundary keeps    *)
(* every resize out.                                                        *)
LEMMA NothingLags ==
  ASSUME TypeOK, RecorderInv, ControlInv, NEW c \in Callers,
         pc[c] \in {"closeExit", "closePublish"}, op[c] = "finalize"
  PROVE  Lag = 0 /\ hook = tr /\ drainOnce = "done"
<1>1. drainOnce = "done" /\ pump = "done"
  BY DEF ControlInv, DrainInv, CfgSteps
<1>2. inputMu = c /\ \A d \in Callers : pc[d] # "logResize"
  BY DEF RecorderInv, InputOwner, InputSteps, CfgSteps
<1>3. eventMu = NoOne
  BY <1>1, <1>2 DEF ControlInv, EventOwner, TypeOK, CallerType
<1>4. hook = tr
  BY CfgAlone DEF CfgSteps, RecorderInv, HookFollowsTrace
<1>5. QED
  BY <1>1, <1>3, <1>4 DEF Lag

LEMMA WholeStep ==
  ASSUME TypeOK, TypeOK', RecorderInv, ControlInv, RunInv, WholeInv, [Next]_vars
  PROVE  WholeInv'
<1>. SUFFICES ASSUME WholeSession PROVE WholeInv'
  BY DEF WholeInv
<1>1. /\ op \in [Callers -> Ops] /\ pc \in [Callers -> Steps] /\ traces \in Seq(Traces)
      /\ tr \in 0 .. Len(traces) /\ hook \in 0 .. Len(traces)
  BY DEF TypeOK, CallerType, RecorderType
<1>2. drainOnce = "done" => drainOnce' = "done"
  <2>1. CASE ChildNext \/ PumpNext \/ Over \/ UNCHANGED vars
    BY <2>1 DEF ChildNext, ChildEmit, ChildRead, ChildExit, PublishExit, PumpNext, PumpRead, PumpEOF,
                PumpFeed, PumpHook, Over, vars, onces
  <2>2. CASE \E c \in Callers : BeginOp(c)
    BY <2>2 DEF BeginOp, Begin, BeginLocked, BeginInput, BeginResize, BeginMark, HandleTraceStart,
                HandleTraceStop, BeginClose, BeginWatch, onces
  <2>3. CASE \E c \in Callers : Advance(c)
    BY <2>3 DEF Advance, WriteInput, WriteFails, ReadTr, LogInput, CommitResize, ResizeFails,
                LogResize, MarkTrace, LockInput, LockCfgToRecord, LockCfgToFinalize, CloseExit,
                ClosePublish, CloseHook, CreateTrace, InstallHook, FinalizeOnce, DrainOnce,
                KillChild, CloseMaster, JoinPump, onces
  <2>4. QED
    BY <2>1, <2>2, <2>3 DEF Next
<1>3. \A c \in Callers : pc'[c] \in CfgSteps =>
        op'[c] = "finalize" /\ pc'[c] \notin {"newTrace", "setHook"}
  <2>. USE SessionAssumption
       DEF WholeInv, locks, callers, childVs, pumpVs, recVs, onces, Goto, Return, Begin,
           BeginLocked, Unlock, CfgSteps
  <2>1. CASE ChildNext \/ PumpNext \/ UNCHANGED vars
    BY <2>1 DEF ChildNext, ChildEmit, ChildRead, ChildExit, PublishExit, PumpNext, PumpRead, PumpEOF,
                PumpFeed, PumpHook, vars
  <2>2. ASSUME NEW c \in Callers, BeginOp(c)
        PROVE  \A d \in Callers : pc'[d] \in CfgSteps =>
                 op'[d] = "finalize" /\ pc'[d] \notin {"newTrace", "setHook"}
    BY <1>1, <2>2 DEF BeginOp, BeginInput, BeginResize, BeginMark, HandleTraceStart, HandleTraceStop,
                      BeginClose, BeginWatch
  <2>3. ASSUME NEW c \in Callers, WriteInput(c) \/ WriteFails(c) \/ ReadTr(c) \/ LogInput(c) \/ LogResize(c)
                                  \/ CommitResize(c) \/ ResizeFails(c) \/ MarkTrace(c) \/ LockInput(c)
        PROVE  \A d \in Callers : pc'[d] \in CfgSteps =>
                 op'[d] = "finalize" /\ pc'[d] \notin {"newTrace", "setHook"}
    BY <1>1, <2>3 DEF WriteInput, WriteFails, ReadTr, LogInput, LogResize, CommitResize, ResizeFails,
                      MarkTrace, LockInput
  <2>4. ASSUME NEW c \in Callers, LockCfgToRecord(c) \/ LockCfgToFinalize(c) \/ CloseExit(c) \/ ClosePublish(c)
                                  \/ CloseHook(c) \/ CreateTrace(c) \/ InstallHook(c)
        PROVE  \A d \in Callers : pc'[d] \in CfgSteps =>
                 op'[d] = "finalize" /\ pc'[d] \notin {"newTrace", "setHook"}
    BY <1>1, <2>4 DEF LockCfgToRecord, Rejected, LockCfgToFinalize, CloseExit, ClosePublish, CloseHook,
                      CreateTrace, InstallHook
  <2>5. ASSUME NEW c \in Callers, FinalizeOnce(c) \/ DrainOnce(c) \/ KillChild(c) \/ CloseMaster(c) \/ JoinPump(c)
        PROVE  \A d \in Callers : pc'[d] \in CfgSteps =>
                 op'[d] = "finalize" /\ pc'[d] \notin {"newTrace", "setHook"}
    BY <1>1, <2>5 DEF FinalizeOnce, DrainOnce, KillChild, CloseMaster, JoinPump, AfterDrain
  <2>6. QED
    BY <2>1, <2>2, <2>3, <2>4, <2>5 DEF Next, Advance, Over
<1>4. \A i \in DOMAIN traces :
        /\ traces[i].hooked = 0
        /\ traces[i].state # "open" => drainOnce = "done" /\ RecordedTo(traces[i]) = Len(screen)
  BY DEF WholeInv
<1>5. \A i \in DOMAIN traces' :
        /\ traces'[i].hooked = 0
        /\ traces'[i].state # "open" => drainOnce' = "done" /\ RecordedTo(traces'[i]) = Len(screen')
  <2>1. CASE Quiet
    BY <1>2, <1>4, <2>1 DEF Quiet
  <2>2. CASE Admits
    BY <1>4, <2>2 DEF Admits
  <2>3. CASE Records \/ Notes
    <3>1. PICK i \in 0 .. Len(traces), e \in Events : traces' = Record(i, e)
      BY <1>1, <2>3 DEF Records, Notes
    <3>2. /\ DOMAIN traces' = DOMAIN traces
          /\ \A j \in DOMAIN traces : /\ traces'[j].hooked = traces[j].hooked
                                      /\ traces'[j].state = traces[j].state
                                      /\ traces[j].state # "open" => traces'[j] = traces[j]
      BY <3>1, RecordShape
    <3>3. UNCHANGED screen
      BY <2>3 DEF Records, Notes
    <3>4. QED
      BY <1>2, <1>4, <3>2, <3>3
  <2>4. ASSUME NEW c \in Callers, ClosePublish(c) \/ CloseHook(c) \/ CreateTrace(c) \/ InstallHook(c)
        PROVE  \A i \in DOMAIN traces' :
                 /\ traces'[i].hooked = 0
                 /\ traces'[i].state # "open" => drainOnce' = "done" /\ RecordedTo(traces'[i]) = Len(screen')
    <3>1. op[c] = "finalize" /\ pc[c] \in {"closePublish", "closeHook"}
      BY <2>4 DEF WholeInv, CfgSteps, ClosePublish, CloseHook, CreateTrace, InstallHook
    <3>2. CASE CloseHook(c)
      BY <1>2, <1>4, <3>2 DEF CloseHook, pumpVs
    <3>3. CASE ClosePublish(c)
      <4>1. tr \in DOMAIN traces /\ pc[c] = "closePublish" /\ UNCHANGED screen
        BY <1>1, <3>3 DEF ClosePublish, RecorderInv, ActiveTrace, pumpVs
      <4>2. PICK t \in Traces : t = traces[tr]
        BY <1>1, <4>1
      <4>3. PICK outcome \in {"published", "failed"} :
              traces' = [traces EXCEPT ![tr] = [@ EXCEPT !.state = outcome, !.closer = op[c]]]
        BY <3>3 DEF ClosePublish
      <4>4. PICK u : u = [t EXCEPT !.state = outcome, !.closer = op[c]]
        OBVIOUS
      <4>5. /\ DOMAIN traces' = DOMAIN traces /\ traces'[tr] = u
            /\ \A i \in DOMAIN traces : i # tr => traces'[i] = traces[i]
        BY <1>1, <4>1, <4>2, <4>3, <4>4
      <4>6. u.log = t.log /\ u.hooked = t.hooked
        BY <4>2, <4>4 DEF Traces
      <4>7. RecordedTo(t) \in Nat /\ RecordedTo(t) + Lag = Len(screen) /\ Lag = 0 /\ drainOnce = "done"
        BY <3>1, <4>1, <4>2, NothingLags, RecordedToType DEF RunInv
      <4>8. RecordedTo(u) = Len(screen)
        BY <4>6, <4>7 DEF RecordedTo
      <4>9. u.hooked = 0
        BY <1>4, <4>1, <4>2, <4>6
      <4>10. QED
        BY <1>2, <1>4, <4>1, <4>5, <4>7, <4>8, <4>9
    <3>4. QED
      BY <2>4, <3>1, <3>2, <3>3 DEF CreateTrace, InstallHook
  <2>5. QED
    BY <2>1, <2>2, <2>3, <2>4, StepKinds DEF UnderCfg
<1>6. QED
  BY <1>3, <1>5 DEF WholeInv, RecordedTo

LEMMA InitWhole == Init => WholeInv
<1>. SUFFICES ASSUME Init PROVE WholeInv
  OBVIOUS
<1>1. /\ \A c \in Callers : pc[c] = "idle"
      /\ screen = <<>> /\ \A i \in DOMAIN traces : traces[i] = NewTrace
  BY DEF Init
<1>2. Len(screen) = 0 /\ NewTrace.hooked = 0 /\ NewTrace.state = "open"
  BY <1>1 DEF NewTrace
<1>3. QED
  BY <1>1, <1>2 DEF WholeInv, CfgSteps

(* A closed recording of the whole session holds every operation the model  *)
(* ever applied: Finalize drains the pump before it closes the trace.       *)
THEOREM WholeSessionsAreComplete == Spec => []WholeSessionComplete
<1>1. Init => TypeOK /\ RecorderInv /\ ControlInv /\ RunInv /\ WholeInv
  BY InitType, InitRecorder, InitControl, InitRun, InitWhole
<1>2. TypeOK /\ RecorderInv /\ ControlInv /\ RunInv /\ WholeInv /\ [Next]_vars
        => (TypeOK /\ RecorderInv /\ ControlInv /\ RunInv /\ WholeInv)'
  BY StepType, StepRecorder, ControlStep, RunStep, WholeStep DEF RecorderInv
<1>3. TypeOK /\ WholeInv => WholeSessionComplete
  <2>. SUFFICES ASSUME TypeOK, WholeInv, WholeSession, NEW i \in DOMAIN traces, traces[i].state # "open"
                PROVE  Cardinality(OpsIn(traces[i].log)) = Len(screen)
    BY DEF WholeSessionComplete
  <2>1. traces[i] \in Traces
    BY DEF TypeOK, RecorderType
  <2>2. traces[i].log \in Seq(Events)
    BY <2>1 DEF Traces
  <2>3. Cardinality(OpsIn(traces[i].log)) \in Nat
    BY <2>2, OpsCount
  <2>4. traces[i].hooked = 0 /\ RecordedTo(traces[i]) = Len(screen)
    BY DEF WholeInv
  <2>5. QED
    BY <2>3, <2>4 DEF RecordedTo
<1>4. QED
  BY <1>1, <1>2, <1>3, PTL DEF Spec

-----------------------------------------------------------------------------
(* The session implements SessionRecorder.                                  *)
LEMMA Singleton ==
  ASSUME NEW r
  PROVE  [i \in 1 .. 1 |-> r] = <<r>>
<1>1. /\ DOMAIN [i \in 1 .. 1 |-> r] = {1} /\ DOMAIN <<r>> = {1}
      /\ [i \in 1 .. 1 |-> r][1] = r /\ <<r>>[1] = r
  OBVIOUS
<1>2. QED
  BY <1>1

LEMMA AppendForm ==
  ASSUME NEW n \in Nat, NEW f, f = [i \in 1 .. n |-> f[i]], NEW r
  PROVE  Append(f, r) = [i \in 1 .. n + 1 |-> IF i = n + 1 THEN r ELSE f[i]]
<1> DEFINE S == {f[i] : i \in 1 .. n} \cup {r}
           g == [i \in 1 .. n + 1 |-> IF i = n + 1 THEN r ELSE f[i]]
<1>1. f \in Seq(S) /\ Len(f) = n /\ r \in S
  OBVIOUS
<1>2. /\ DOMAIN Append(f, r) = 1 .. n + 1 /\ Append(f, r)[n + 1] = r
      /\ \A i \in 1 .. n : Append(f, r)[i] = f[i]
      /\ Append(f, r) = [i \in 1 .. n + 1 |-> Append(f, r)[i]]
  BY <1>1
<1>3. \A i \in 1 .. n + 1 : Append(f, r)[i] = IF i = n + 1 THEN r ELSE f[i]
  BY <1>2
<1>4. QED
  BY <1>2, <1>3

BundleOf(t) == [from |-> t.hooked, upto |-> RecordedTo(t), open |-> t.state = "open"]
BundlesOf == [i \in 1 .. Installed |-> BundleOf(traces[i])]

LEMMA Sealed ==
  ASSUME NEW t, NEW v
  PROVE  [BundleOf(t) EXCEPT !.open = v] = [from |-> t.hooked, upto |-> RecordedTo(t), open |-> v]
<1>1. PICK o : o = (t.state = "open")
  OBVIOUS
<1>2. BundleOf(t) = [from |-> t.hooked, upto |-> RecordedTo(t), open |-> o]
  BY <1>1, Zenon DEF BundleOf
<1>3. QED
  BY <1>2

LEMMA BundleFields ==
  ASSUME NEW t
  PROVE  /\ BundleOf(t).upto = RecordedTo(t)
         /\ BundleOf(t).open = (t.state = "open")
  BY DEF BundleOf

(* No trace waits for its hook: every trace is a bundle.                    *)
LEMMA AllInstalled ==
  ASSUME \A c \in Callers : pc[c] # "setHook"
  PROVE  Installed = Len(traces)
  BY DEF Installed

(* The open bundle is the active trace, and its hook is installed.          *)
LEMMA OpenBundle ==
  ASSUME TypeOK, RecorderInv, NEW i \in 1 .. Installed, traces[i].state = "open"
  PROVE  i = tr /\ i = hook /\ i \in DOMAIN traces
<1>1. traces \in Seq(Traces) /\ Len(traces) \in Nat
  BY DEF TypeOK, RecorderType
<1>2. i \in DOMAIN traces
  BY <1>1 DEF Installed
<1>3. i = tr
  <2>1. CASE \E c \in Callers : pc[c] = "setHook"
    <3>1. i # Len(traces)
      BY <1>1, <2>1 DEF Installed
    <3>2. QED
      BY <1>2, <3>1 DEF RecorderInv, OneOpenTrace
  <2>2. CASE ~\E c \in Callers : pc[c] = "setHook"
    BY <1>2, <2>2 DEF RecorderInv, OneOpenTrace
  <2>3. QED
    BY <2>1, <2>2
<1>4. \A c \in Callers : pc[c] # "closeHook"
  BY <1>1, <1>2, <1>3 DEF RecorderInv, ActiveTrace
<1>5. QED
  BY <1>2, <1>3, <1>4 DEF RecorderInv, HookFollowsTrace

LEMMA BundlesKept ==
  ASSUME Installed' = Installed, \A i \in 1 .. Installed : BundleOf(traces'[i]) = BundleOf(traces[i])
  PROVE  BundlesOf' = BundlesOf
  BY DEF BundlesOf, BundleOf, RecordedTo

LEMMA InitRefines == Init => Recorder!Init
<1>. SUFFICES ASSUME Init PROVE Recorder!Init
  OBVIOUS
<1>1. screen = <<>> /\ Len(screen) = 0 /\ Installed = Len(traces)
  BY DEF Init, Installed
<1>2. NewTrace.log = <<>> /\ NewTrace.hooked = 0 /\ NewTrace.state = "open"
  BY <1>1 DEF NewTrace
<1>3. BundleOf(NewTrace) = [from |-> 0, upto |-> 0, open |-> TRUE]
  <2>1. RecordedTo(NewTrace) = 0
    BY <1>2, OpsOfEmpty DEF RecordedTo
  <2>2. QED
    BY <1>2, <2>1 DEF BundleOf
<1>4. CASE traces = <<>>
  <2>1. BundlesOf = <<>>
    BY <1>1, <1>4 DEF BundlesOf
  <2>2. QED
    BY <1>1, <2>1 DEF Recorder!Init, BundlesOf, BundleOf
<1>5. CASE traces = <<NewTrace>>
  <2>1. BundlesOf = <<[from |-> 0, upto |-> 0, open |-> TRUE]>>
    <3>1. Len(traces) = 1 /\ traces[1] = NewTrace
      BY <1>5
    <3>2. BundlesOf = [i \in 1 .. 1 |-> [from |-> 0, upto |-> 0, open |-> TRUE]]
      BY <1>1, <1>3, <3>1 DEF BundlesOf
    <3>3. QED
      BY <3>2, Singleton
  <2>2. QED
    BY <1>1, <2>1 DEF Recorder!Init, Recorder!Fresh, BundlesOf, BundleOf
<1>6. QED
  BY <1>4, <1>5 DEF Init

LEMMA StepRefines ==
  ASSUME TypeOK, RecorderInv, ControlInv, RunInv, [Next]_vars
  PROVE  [Recorder!Next]_(Recorder!vars)
<1>1. /\ traces \in Seq(Traces) /\ Len(traces) \in Nat /\ Len(screen) \in Nat /\ pc \in [Callers -> Steps]
      /\ tr \in 0 .. Len(traces) /\ hook \in 0 .. Len(traces) /\ DOMAIN traces = 1 .. Len(traces)
  BY DEF TypeOK, CallerType, RecorderType, PtyType
<1>2. /\ DOMAIN BundlesOf = 1 .. Installed
      /\ \A i \in 1 .. Installed : BundlesOf[i] = BundleOf(traces[i]) /\ i \in DOMAIN traces
  BY <1>1 DEF BundlesOf, Installed
<1>. DEFINE A == Len(screen)
            B == BundlesOf
            fresh == [from |-> A, upto |-> A, open |-> TRUE]
<1>3. SUFFICES \/ A' = A /\ B' = B
               \/ /\ \A i \in 1 .. Installed : B[i].open => B[i].upto = A
                  /\ A' = A + 1 /\ B' = B
               \/ \E i \in 1 .. Installed : /\ B[i].open /\ B[i].upto < A
                                            /\ B' = [B EXCEPT ![i].upto = @ + 1] /\ A' = A
               \/ /\ \A i \in 1 .. Installed : ~B[i].open
                  /\ B' = Append(B, fresh) /\ A' = A
               \/ \E i \in 1 .. Installed : /\ B[i].open
                                            /\ B' = [B EXCEPT ![i].open = FALSE] /\ A' = A
  BY <1>2 DEF Recorder!Next, Recorder!vars, Recorder!Admit, Recorder!Put, Recorder!Open, Recorder!Seal,
              Recorder!IsOpen, Recorder!Fresh, BundlesOf, BundleOf
<1>4. SameHooking /\ Len(traces') = Len(traces) => Installed' = Installed
  BY DEF SameHooking, Installed
<1>5. CASE Quiet
  BY <1>4, <1>5 DEF Quiet, BundlesOf, BundleOf, RecordedTo
<1>6. CASE Admits
  <2>1. ASSUME NEW i \in 1 .. Installed, B[i].open
        PROVE  B[i].upto = A
    <3>1. traces[i].state = "open" /\ B[i].upto = RecordedTo(traces[i])
      <4>1. B[i] = BundleOf(traces[i])
        BY <1>2
      <4>2. QED
        BY <2>1, <4>1, BundleFields
    <3>2. i = tr /\ i = hook /\ i \in DOMAIN traces /\ traces[i] \in Traces
      BY <1>1, <3>1, OpenBundle
    <3>3. RecordedTo(traces[i]) \in Nat /\ RecordedTo(traces[i]) + Lag = A
      BY <3>2, RecordedToType DEF RunInv
    <3>4. QED
      BY <1>6, <3>1, <3>3 DEF Admits
  <2>2. B' = B
    BY <1>4, <1>6 DEF Admits, BundlesOf, BundleOf, RecordedTo
  <2>3. QED
    BY <1>6, <2>1, <2>2 DEF Admits
<1>7. CASE Notes
  <2>1. PICK e \in Events : e.ev \notin {"out", "resize"} /\ traces' = Record(tr, e)
    BY <1>7 DEF Notes
  <2>2. /\ DOMAIN traces' = DOMAIN traces /\ Len(traces') = Len(traces)
        /\ \A j \in DOMAIN traces : /\ traces'[j].hooked = traces[j].hooked
                                    /\ traces'[j].state = traces[j].state
                                    /\ traces[j].state # "open" \/ j # tr => traces'[j] = traces[j]
    BY <1>1, <2>1, RecordShape
  <2>3. \A j \in DOMAIN traces : RecordedTo(traces'[j]) = RecordedTo(traces[j])
    <3>1. SUFFICES ASSUME tr \in DOMAIN traces, traces[tr].state = "open"
                   PROVE  RecordedTo(traces'[tr]) = RecordedTo(traces[tr])
      BY <2>2
    <3>2. traces'[tr].log = Append(traces[tr].log, e)
      BY <1>1, <2>1, <3>1, RecordOpen
    <3>3. traces[tr] \in Traces /\ IsUnbroken(traces[tr])
      BY <1>1, <3>1 DEF RunInv
    <3>4. QED
      BY <2>1, <2>2, <3>1, <3>2, <3>3, RunStays
  <2>4. \A j \in 1 .. Installed : BundleOf(traces'[j]) = BundleOf(traces[j])
    BY <1>2, <2>2, <2>3 DEF BundleOf
  <2>5. B' = B
    BY <1>4, <1>7, <2>2, <2>4, BundlesKept DEF Notes
  <2>6. QED
    BY <1>7, <2>5 DEF Notes
<1>8. CASE Records
  <2>1. PICK e \in Events : e.ev \in {"out", "resize"} /\ e.at = Len(screen) /\ traces' = Record(hook, e)
    BY <1>8 DEF Records
  <2>2. /\ DOMAIN traces' = DOMAIN traces /\ Len(traces') = Len(traces)
        /\ \A j \in DOMAIN traces : /\ traces'[j].hooked = traces[j].hooked
                                    /\ traces'[j].state = traces[j].state
                                    /\ traces[j].state # "open" \/ j # hook => traces'[j] = traces[j]
    BY <1>1, <2>1, RecordShape
  <2>3. Installed' = Installed
    BY <1>4, <1>8, <2>2 DEF Records
  <2>4. CASE hook \in DOMAIN traces /\ traces[hook].state = "open"
    <3>1. hook = tr /\ hook \in 1 .. Installed
      <4>1. \A c \in Callers : pc[c] # "setHook"
        BY <1>1, <2>4, HookAlone
      <4>2. hook \in 1 .. Installed
        BY <1>1, <2>4, <4>1, AllInstalled
      <4>3. QED
        BY <2>4, <4>2, OpenBundle
    <3>2. traces'[hook].log = Append(traces[hook].log, e)
      BY <1>1, <2>1, <2>4, RecordOpen
    <3>3. traces[hook] \in Traces /\ IsUnbroken(traces[hook])
      BY <1>1, <2>4 DEF RunInv
    <3>4. RecordedTo(traces[hook]) \in Nat /\ RecordedTo(traces[hook]) + 1 = A
      BY <1>8, <2>4, <3>1, <3>3, RecordedToType DEF RunInv, Records
    <3>5. RecordedTo(traces'[hook]) = RecordedTo(traces[hook]) + 1
      BY <2>1, <2>2, <2>4, <3>2, <3>3, <3>4, RunGrows
    <3>6. /\ B[hook].open /\ B[hook].upto < A /\ DOMAIN B' = DOMAIN B
          /\ \A j \in DOMAIN B : j # hook => B'[j] = B[j]
          /\ B'[hook] = [B[hook] EXCEPT !.upto = @ + 1]
      <4>1. B[hook] = BundleOf(traces[hook]) /\ B'[hook] = BundleOf(traces'[hook])
        BY <1>2, <2>3, <3>1 DEF BundlesOf, BundleOf, RecordedTo
      <4>2. BundleOf(traces'[hook]) = [BundleOf(traces[hook]) EXCEPT !.upto = @ + 1]
        BY <2>2, <2>4, <3>5 DEF BundleOf
      <4>3. DOMAIN B' = DOMAIN B
        BY <2>3 DEF BundlesOf
      <4>4. \A j \in DOMAIN B : j # hook => B'[j] = B[j]
        BY <1>2, <2>2, <2>3 DEF BundlesOf, BundleOf, RecordedTo
      <4>5. QED
        <5>1. B[hook].open /\ B[hook].upto = RecordedTo(traces[hook])
          BY <2>4, <4>1, BundleFields
        <5>2. QED
          BY <1>1, <3>4, <4>1, <4>2, <4>3, <4>4, <5>1
    <3>7. B' = [B EXCEPT ![hook].upto = @ + 1]
      <4>1. B' = [j \in DOMAIN B' |-> B'[j]]
        BY DEF BundlesOf
      <4>2. QED
        BY <3>6, <4>1
    <3>8. QED
      BY <1>8, <3>1, <3>6, <3>7 DEF Records
  <2>5. CASE ~(hook \in DOMAIN traces /\ traces[hook].state = "open")
    <3>1. traces' = traces
      BY <1>1, <2>1, <2>5, RecordNothing
    <3>2. QED
      BY <1>8, <2>3, <3>1 DEF Records, BundlesOf, BundleOf, RecordedTo
  <2>6. QED
    BY <2>4, <2>5
<1>9. ASSUME NEW c \in Callers, ClosePublish(c)
      PROVE  \E i \in 1 .. Installed : B[i].open /\ B' = [B EXCEPT ![i].open = FALSE] /\ A' = A
  <2>1. pc[c] = "closePublish" /\ pc' = [pc EXCEPT ![c] = "closeHook"] /\ A' = A
    BY <1>9 DEF ClosePublish, Goto, pumpVs
  <2>2. tr \in DOMAIN traces /\ traces[tr].state = "open"
    BY <1>1, <2>1 DEF RecorderInv, ActiveTrace
  <2>3. (\A d \in Callers : pc[d] # "setHook") /\ \A d \in Callers : pc'[d] # "setHook"
    BY <1>1, <2>1, CfgAlone DEF CfgSteps
  <2>4. PICK outcome \in {"published", "failed"} :
          traces' = [traces EXCEPT ![tr] = [@ EXCEPT !.state = outcome, !.closer = op[c]]]
    BY <1>9 DEF ClosePublish
  <2>5. PICK t \in Traces : t = traces[tr]
    BY <1>1, <2>2
  <2>6. PICK u : u = [t EXCEPT !.state = outcome, !.closer = op[c]]
    OBVIOUS
  <2>7. /\ DOMAIN traces' = DOMAIN traces /\ traces'[tr] = u /\ Len(traces') = Len(traces)
        /\ \A i \in DOMAIN traces : i # tr => traces'[i] = traces[i]
    BY <1>1, <2>2, <2>4, <2>5, <2>6
  <2>8. u.log = t.log /\ u.hooked = t.hooked /\ u.state # "open"
    BY <2>5, <2>6 DEF Traces
  <2>9. RecordedTo(u) = RecordedTo(t)
    BY <2>8 DEF RecordedTo
  <2>10. BundleOf(u) = [BundleOf(t) EXCEPT !.open = FALSE]
    <3>1. (u.state = "open") = FALSE
      BY <2>8
    <3>2. BundleOf(u) = [from |-> t.hooked, upto |-> RecordedTo(t), open |-> FALSE]
      BY <2>8, <2>9, <3>1, Zenon DEF BundleOf
    <3>3. [BundleOf(t) EXCEPT !.open = FALSE] = [from |-> t.hooked, upto |-> RecordedTo(t), open |-> FALSE]
      BY Sealed, Zenon
    <3>4. QED
      BY <3>2, <3>3, Zenon
  <2>11. tr \in 1 .. Installed /\ Installed' = Installed
    BY <1>1, <2>2, <2>3, <2>7 DEF Installed
  <2>12. /\ B[tr] = BundleOf(t) /\ B'[tr] = BundleOf(u) /\ DOMAIN B' = DOMAIN B
         /\ \A i \in DOMAIN B : i # tr => B'[i] = B[i]
    BY <1>2, <2>5, <2>7, <2>11 DEF BundlesOf, BundleOf, RecordedTo
  <2>13. B[tr].open
    BY <2>2, <2>5, <2>12, BundleFields
  <2>14. B' = [B EXCEPT ![tr].open = FALSE]
    BY <1>2, <2>10, <2>11, <2>12 DEF BundlesOf
  <2>15. QED
    BY <2>1, <2>11, <2>13, <2>14
<1>10. ASSUME NEW c \in Callers, CloseHook(c)
       PROVE  A' = A /\ B' = B
  <2>1. UNCHANGED <<traces, screen>> /\ \A d \in Callers : pc'[d] # "setHook" /\ pc[d] # "setHook"
    <3>1. pc[c] = "closeHook" /\ \A d \in Callers : pc[d] # "setHook"
      BY <1>1, <1>10, CfgAlone DEF CloseHook, CfgSteps
    <3>2. QED
      BY <1>1, <1>10, <3>1 DEF CloseHook, Goto, Unlock, Return, pumpVs
  <2>2. Installed' = Installed
    BY <2>1 DEF Installed
  <2>3. QED
    BY <2>1, <2>2 DEF BundlesOf, BundleOf, RecordedTo
<1>11. ASSUME NEW c \in Callers, CreateTrace(c)
       PROVE  A' = A /\ B' = B
  <2>1. /\ pc[c] = "newTrace" /\ UNCHANGED screen
        /\ \A d \in Callers : pc[d] # "setHook"
    BY <1>1, <1>11, CfgAlone DEF CreateTrace, CfgSteps, pumpVs
  <2>2. Installed = Len(traces)
    BY <2>1, AllInstalled
  <2>3. CASE pc' = [pc EXCEPT ![c] = "setHook"] /\ traces' = Append(traces, NewTrace)
    <3>1. NewTrace \in Traces
      BY NewTraceType DEF TypeOK, PtyType
    <3>2. Len(traces') = Len(traces) + 1 /\ \A i \in 1 .. Len(traces) : traces'[i] = traces[i]
      BY <1>1, <2>3, <3>1
    <3>3. \E d \in Callers : pc'[d] = "setHook"
      BY <1>1, <2>3
    <3>4. Installed' = Len(traces)
      <4>1. Installed' = Len(traces') - 1
        BY <3>3 DEF Installed
      <4>2. QED
        BY <1>1, <3>2, <4>1
    <3>5. QED
      BY <2>1, <2>2, <3>2, <3>4 DEF BundlesOf, BundleOf, RecordedTo
  <2>4. CASE pc' = [pc EXCEPT ![c] = "idle"] /\ UNCHANGED traces
    <3>1. \A d \in Callers : pc'[d] # "setHook"
      BY <1>1, <2>1, <2>4
    <3>2. Installed' = Installed
      BY <2>1, <2>4, <3>1 DEF Installed
    <3>3. QED
      BY <2>1, <2>4, <3>2 DEF BundlesOf, BundleOf, RecordedTo
  <2>5. QED
    BY <1>11, <2>3, <2>4 DEF CreateTrace, Goto, Unlock, Return
<1>12. ASSUME NEW c \in Callers, InstallHook(c)
       PROVE  (\A i \in 1 .. Installed : ~B[i].open) /\ B' = Append(B, fresh) /\ A' = A
  <2>1. /\ pc[c] = "setHook" /\ pc' = [pc EXCEPT ![c] = "idle"] /\ A' = A /\ UNCHANGED screen
        /\ traces' = [traces EXCEPT ![Len(traces)].hooked = Len(screen)]
    BY <1>12 DEF InstallHook, Unlock, Return, pumpVs
  <2>2. /\ Len(traces) \in DOMAIN traces /\ traces[Len(traces)].state = "open" /\ tr = 0
        /\ traces[Len(traces)].log = <<>>
    BY <1>1, <2>1 DEF RecorderInv, ActiveTrace, RunInv
  <2>3. PICK n \in Nat : n + 1 = Len(traces) /\ n = Installed
    <3>1. Installed = Len(traces) - 1
      BY <2>1 DEF Installed
    <3>2. Len(traces) \in Nat /\ Len(traces) # 0
      BY <1>1, <2>2
    <3>3. QED
      BY <3>1, <3>2
  <2>4. \A d \in Callers : pc'[d] # "setHook"
    BY <1>1, <2>1, CfgAlone DEF CfgSteps
  <2>5. PICK t \in Traces : t = traces[Len(traces)]
    BY <1>1, <2>2
  <2>6. PICK u : u = [t EXCEPT !.hooked = Len(screen)]
    OBVIOUS
  <2>7. /\ Len(traces') = Len(traces) /\ traces'[Len(traces)] = u
        /\ \A i \in DOMAIN traces : i # Len(traces) => traces'[i] = traces[i]
    BY <1>1, <2>1, <2>2, <2>5, <2>6
  <2>8. u.log = <<>> /\ u.hooked = A /\ u.state = "open"
    BY <2>2, <2>5, <2>6 DEF Traces
  <2>9. RecordedTo(u) = A
    BY <1>1, <2>8, OpsOfEmpty DEF RecordedTo
  <2>10. BundleOf(u) = fresh
    BY <2>8, <2>9 DEF BundleOf
  <2>11. Installed' = Len(traces)
    BY <2>4, <2>7 DEF Installed
  <2>12. /\ DOMAIN B' = 1 .. Len(traces) /\ B'[Len(traces)] = fresh
         /\ \A i \in 1 .. Installed : B'[i] = B[i]
    <3>1. DOMAIN B' = 1 .. Len(traces) /\ \A i \in 1 .. Len(traces) : B'[i] = BundleOf(traces'[i])
      BY <2>11 DEF BundlesOf, BundleOf, RecordedTo
    <3>2. \A i \in 1 .. Installed : i \in 1 .. Len(traces) /\ i # Len(traces)
      BY <2>3
    <3>3. Len(traces) \in 1 .. Len(traces)
      BY <2>3
    <3>4. QED
      BY <1>1, <1>2, <2>7, <2>10, <3>1, <3>2, <3>3
  <2>13. B' = [i \in 1 .. Len(traces) |-> IF i = Len(traces) THEN fresh ELSE B[i]]
    <3>1. \A i \in 1 .. Len(traces) : i # Len(traces) => i \in 1 .. Installed
      BY <2>3
    <3>2. B' = [i \in 1 .. Len(traces) |-> B'[i]]
      BY <2>11 DEF BundlesOf
    <3>3. QED
      BY <2>12, <3>1, <3>2
  <2>14. Append(B, fresh) = [i \in 1 .. Len(traces) |-> IF i = Len(traces) THEN fresh ELSE B[i]]
    <3>1. B = [i \in 1 .. n |-> B[i]]
      BY <1>2, <2>3 DEF BundlesOf
    <3>2. QED
      BY <2>3, <3>1, AppendForm
  <2>15. \A i \in 1 .. Installed : ~B[i].open
    <3>1. ASSUME NEW i \in 1 .. Installed, B[i].open PROVE FALSE
      <4>1. traces[i].state = "open"
        BY <1>2, <3>1, BundleFields
      <4>2. QED
        BY <1>1, <2>2, <3>1, <4>1, OpenBundle
    <3>2. QED
      BY <3>1
  <2>16. QED
    BY <2>1, <2>13, <2>14, <2>15
<1>13. QED
  BY <1>5, <1>6, <1>7, <1>8, <1>9, <1>10, <1>11, <1>12, StepKinds DEF UnderCfg

(* The recorder of SessionRecorder is what the locks of engine and pump     *)
(* give: at most one open bundle, never more than one operation behind.     *)
THEOREM SessionImplementsRecorder == Spec => ImplementsRecorder
<1>1. Init => TypeOK /\ RecorderInv /\ ControlInv /\ RunInv
  BY InitType, InitRecorder, InitControl, InitRun
<1>2. TypeOK /\ RecorderInv /\ ControlInv /\ RunInv /\ [Next]_vars
        => (TypeOK /\ RecorderInv /\ ControlInv /\ RunInv)'
  BY StepType, StepRecorder, ControlStep, RunStep DEF RecorderInv
<1>3. TypeOK /\ RecorderInv /\ ControlInv /\ RunInv /\ [Next]_vars => [Recorder!Next]_(Recorder!vars)
  BY StepRefines
<1>4. QED
  BY <1>1, <1>2, <1>3, InitRefines, PTL DEF Spec, ImplementsRecorder, Recorder!Spec

-----------------------------------------------------------------------------
(* The waits of the pump (PumpWait), for every set of waiters, every quiet  *)
(* window and timeout: the types, and what the answers of a wait mean.      *)
(*                                                                          *)
(* A stable-except wait compares screens, so it cannot see a change that is *)
(* undone before its next look (ExceptSeesChanges).  What it promises is    *)
(* proved where every change shows: Reverts = FALSE.                        *)

(* The types, by what they are about.                                       *)
Shared == /\ now \in Nat /\ mu \in Waiters \cup {None} /\ version \in Nat
          /\ lastFeed \in Nat \cup {NoTime} /\ closed \in BOOLEAN /\ changes \in 0..MaxChanges
          /\ changed \in Nat \cup {NoTime} /\ cancelled \subseteq Waiters
          /\ Reverts => version \in 0..1
Calls  == /\ DOMAIN ask = Waiters /\ deadline \in [Waiters -> Nat]
          /\ \A w \in Waiters : ask[w].quiet \in Nat /\ ask[w].timeout \in Nat
          /\ answer \in [Waiters -> {"none", "ok", "timeout", "closed", "cancelled"}]
          /\ stage \in [Waiters -> {"idle", "parking", "parked", "woken", "done"}]
          /\ \A w \in Waiters : (stage[w] = "parking" <=> mu = w) /\ (stage[w] = "idle" => deadline[w] = 0)
Looks  == /\ previous \in [Waiters -> 0..version \cup {NoScreen} \cup (IF Reverts THEN 0..1 ELSE {})]
          /\ lastChange \in [Waiters -> 0..now \cup {NoTime}]
Timers == /\ helper \in [Waiters -> {"none", "waits", "wakes", "wakesLast", "gone"}]
          /\ DOMAIN alarm = Waiters
          /\ \A w \in Waiters :
               alarm[w] \in NoTime..(IF ask[w].kind = "text" THEN deadline[w] + 1 ELSE deadline[w])

(* What a look remembers: the output it saw, no later than the last one,    *)
(* and since when it has seen nothing else.                                 *)
SeenInv ==
  /\ lastFeed <= now /\ changed <= lastFeed
  /\ \A w \in Waiters : previous[w] # NoScreen =>
       /\ lastFeed # NoTime /\ lastChange[w] # NoTime
       /\ Reverts = FALSE /\ previous[w] = version => changed <= lastChange[w]

WaitInv == Shared /\ Calls /\ Looks /\ Timers /\ SeenInv

-----------------------------------------------------------------------------
(* Where a stable wait counts its quiet window from.                        *)
LEMMA QuietFromType ==
  ASSUME Shared, Looks, SeenInv, NEW w \in Waiters, NEW a
  PROVE  /\ QuietFrom(w, a) \in 0 .. now \cup {NoTime}
         /\ QuietFrom(w, a) = NoTime => lastFeed = NoTime
         /\ QuietFrom(w, a) # NoTime => lastFeed # NoTime \/ previous[w] # NoScreen
         /\ a.kind = "stable" => QuietFrom(w, a) = lastFeed
         /\ Reverts = FALSE => changed <= QuietFrom(w, a)
<1>1. /\ previous[w] \in 0..version \cup {NoScreen} \cup (IF Reverts THEN 0..1 ELSE {})
      /\ lastChange[w] \in 0 .. now \cup {NoTime}
  BY DEF Looks
<1>2. /\ now \in Nat /\ lastFeed \in Nat \cup {NoTime} /\ changed \in Nat \cup {NoTime}
      /\ lastFeed <= now /\ changed <= lastFeed
  BY DEF Shared, SeenInv
<1>3. previous[w] # NoScreen =>
        /\ lastFeed # NoTime /\ lastChange[w] # NoTime
        /\ Reverts = FALSE /\ previous[w] = version => changed <= lastChange[w]
  BY DEF SeenInv
<1>4. CASE a.kind = "stable" \/ previous[w] = NoScreen
  <2>1. QuietFrom(w, a) = lastFeed
    BY <1>4 DEF QuietFrom
  <2>2. QED
    BY <1>2, <2>1 DEF NoTime
<1>5. CASE a.kind # "stable" /\ previous[w] # NoScreen /\ previous[w] = version
  BY <1>1, <1>2, <1>3, <1>5 DEF QuietFrom, NoTime
<1>6. CASE a.kind # "stable" /\ previous[w] # NoScreen /\ previous[w] # version
  BY <1>1, <1>2, <1>3, <1>6 DEF QuietFrom, NoTime
<1>7. QED
  BY <1>4, <1>5, <1>6

(* The three outcomes of a stable wait's look.                              *)
Sleeps(w, a, limit) ==
  \E since \in Nat \cup {NoTime}, t \in Nat :
    /\ since = QuietFrom(w, a) /\ ~QuietSince(since, a) /\ ~closed
    /\ t > now /\ t <= limit
    /\ SleepUntil(w, t)
    /\ deadline' = [deadline EXCEPT ![w] = limit]
    /\ \/ UNCHANGED <<previous, lastChange>>
       \/ /\ lastFeed # NoTime /\ a.kind # "stable"
          /\ previous' = [previous EXCEPT ![w] = version]
          /\ lastChange' = [lastChange EXCEPT ![w] = since]

LEMMA LookCases ==
  ASSUME Shared, Looks, SeenInv, NEW w \in Waiters, NEW a, a.quiet \in Nat, NEW limit \in Nat,
         StableLook(w, a, limit)
  PROVE  \/ (QuietSince(QuietFrom(w, a), a) \/ closed) /\ Answer(w, "ok")
         \/ ~QuietSince(QuietFrom(w, a), a) /\ ~closed /\ limit <= now /\ Answer(w, "timeout")
         \/ Sleeps(w, a, limit)
<1>1. PICK since : since = QuietFrom(w, a)
  OBVIOUS
<1>2. since \in Nat \cup {NoTime} /\ now \in Nat
  <2>1. now \in Nat
    BY DEF Shared
  <2>2. since \in 0 .. now \cup {NoTime}
    BY <1>1, QuietFromType
  <2>3. QED
    BY <2>1, <2>2
<1>3. PICK wake : wake = WakeTime(since, a, limit)
  OBVIOUS
<1>4. wake \in Nat /\ wake <= limit /\ (wake = limit \/ (since # NoTime /\ wake = since + a.quiet))
  BY <1>2, <1>3 DEF WakeTime, Least, NoTime
<1>5. CASE QuietSince(since, a) \/ closed
  BY <1>1, <1>5 DEF StableLook
<1>6. CASE ~(QuietSince(since, a) \/ closed) /\ wake <= now
  <2>1. Answer(w, "timeout")
    BY <1>1, <1>3, <1>6 DEF StableLook
  <2>2. limit <= now
    BY <1>2, <1>4, <1>6 DEF QuietSince, NoTime
  <2>3. QED
    BY <1>1, <1>6, <2>1, <2>2
<1>7. CASE ~(QuietSince(since, a) \/ closed) /\ ~(wake <= now)
  <2>1. /\ SleepUntil(w, wake) /\ deadline' = [deadline EXCEPT ![w] = limit]
        /\ IF a.kind = "stable" \/ lastFeed = NoTime THEN UNCHANGED <<previous, lastChange>>
           ELSE /\ previous' = [previous EXCEPT ![w] = version]
                /\ lastChange' = [lastChange EXCEPT ![w] = since]
    BY <1>1, <1>3, <1>7 DEF StableLook
  <2>2. wake > now
    BY <1>2, <1>4, <1>7
  <2>3. QED
    BY <1>1, <1>2, <1>4, <1>7, <2>1, <2>2, Zenon DEF Sleeps
<1>8. QED
  BY <1>5, <1>6, <1>7

-----------------------------------------------------------------------------
(* The step of a waiter.                                                    *)
Waits(w) == \/ \E a \in Asks(w) : CallText(w, a) \/ CallStable(w, a)
            \/ WakeText(w) \/ WakeStable(w)

LEMMA AskTypes ==
  ASSUME NEW w \in Waiters, NEW a \in Asks(w)
  PROVE  a.quiet \in Nat /\ a.timeout \in Nat
<1>1. CASE a \in [kind : Kinds[w] \cap {"text"}, quiet : {0}, timeout : Timeouts]
  <2>1. a.quiet = 0 /\ a.timeout \in Timeouts
    BY <1>1
  <2>2. a.quiet \in Nat
    BY <2>1
  <2>3. a.timeout \in Nat
    BY <2>1, WaitAssumption
  <2>4. QED
    BY <2>2, <2>3
<1>2. CASE a \in [kind : Kinds[w] \ {"text"}, quiet : Quiets, timeout : Timeouts]
  BY <1>2, WaitAssumption
<1>3. QED
  BY <1>1, <1>2 DEF Asks

(* What a waiter's step can do to its call: it answers, or it sleeps.       *)
Replies(w) == \E a \in {"ok", "timeout", "closed", "cancelled"} : Answer(w, a)
Sleeping(w) ==
  \E t \in Nat \cup {NoTime}, d \in Nat :
    /\ SleepUntil(w, t) /\ deadline' = [deadline EXCEPT ![w] = d]
    /\ t <= (IF ask'[w].kind = "text" THEN d + 1 ELSE d)
    /\ \/ UNCHANGED <<previous, lastChange>>
       \/ \E since \in 0 .. now :
            /\ lastFeed # NoTime /\ (Reverts = FALSE => changed <= since)
            /\ previous' = [previous EXCEPT ![w] = version]
            /\ lastChange' = [lastChange EXCEPT ![w] = since]

LEMMA SleepsSleeping ==
  ASSUME Shared, Looks, SeenInv, NEW w \in Waiters, NEW a, a.quiet \in Nat, NEW limit \in Nat,
         ask'[w] = a, a.kind # "text", Sleeps(w, a, limit)
  PROVE  Sleeping(w)
<1>1. PICK since \in Nat \cup {NoTime}, t \in Nat :
        /\ since = QuietFrom(w, a)
        /\ t <= limit
        /\ SleepUntil(w, t) /\ deadline' = [deadline EXCEPT ![w] = limit]
        /\ \/ UNCHANGED <<previous, lastChange>>
           \/ /\ lastFeed # NoTime
              /\ previous' = [previous EXCEPT ![w] = version]
              /\ lastChange' = [lastChange EXCEPT ![w] = since]
  BY DEF Sleeps
<1>2. /\ since \in 0 .. now \cup {NoTime} /\ (since = NoTime => lastFeed = NoTime)
      /\ Reverts = FALSE => changed <= since
  BY <1>1, QuietFromType
<1>3. t <= (IF ask'[w].kind = "text" THEN limit + 1 ELSE limit)
  BY <1>1
<1>4. CASE UNCHANGED <<previous, lastChange>>
  BY <1>1, <1>3, <1>4 DEF Sleeping
<1>5. CASE ~UNCHANGED <<previous, lastChange>>
  <2>1. since \in 0 .. now
    BY <1>1, <1>2, <1>5
  <2>2. QED
    BY <1>1, <1>2, <1>3, <1>5, <2>1, Zenon DEF Sleeping
<1>6. QED
  BY <1>4, <1>5

LEMMA WaitOutcomes ==
  ASSUME WaitInv, NEW w \in Waiters, Waits(w)
  PROVE  /\ Replies(w) \/ Sleeping(w)
         /\ mu = None /\ stage[w] \in {"idle", "woken"}
         /\ UNCHANGED <<now, outputVs, cancelled>>
         /\ \/ ask' = ask
            \/ stage[w] = "idle" /\ \E a \in Asks(w) : ask' = [ask EXCEPT ![w] = a]
         /\ helper' = helper \/ helper' = [helper EXCEPT ![w] = "waits"]
<1>. USE DEF outputVs, callVs
<1>1. ASSUME NEW a \in Asks(w), CallText(w, a)
      PROVE  Replies(w) \/ Sleeping(w)
  <2>1. a.timeout \in Nat /\ now \in Nat /\ DOMAIN ask = Waiters /\ ask' = [ask EXCEPT ![w] = a] /\ a.kind = "text"
    BY <1>1, AskTypes DEF WaitInv, Shared, Calls, CallText
  <2>2. CASE Shown \/ closed
    BY <1>1, <2>2 DEF CallText, Replies
  <2>3. CASE ~(Shown \/ closed)
    <3>1. /\ SleepUntil(w, now + a.timeout + 1)
          /\ deadline' = [deadline EXCEPT ![w] = now + a.timeout] /\ UNCHANGED <<previous, lastChange>>
      BY <1>1, <2>3 DEF CallText
    <3>2. now + a.timeout + 1 \in Nat /\ now + a.timeout \in Nat /\ ask'[w].kind = "text"
          /\ now + a.timeout + 1 <= now + a.timeout + 1
      BY <2>1
    <3>3. QED
      BY <3>1, <3>2 DEF Sleeping
  <2>4. QED
    BY <2>2, <2>3
<1>2. ASSUME NEW a \in Asks(w), CallStable(w, a)
      PROVE  Replies(w) \/ Sleeping(w)
  <2>1. a.timeout \in Nat /\ a.quiet \in Nat /\ now \in Nat /\ DOMAIN ask = Waiters
        /\ ask' = [ask EXCEPT ![w] = a] /\ a.kind # "text" /\ StableLook(w, a, now + a.timeout)
    BY <1>2, AskTypes DEF WaitInv, Shared, Calls, CallStable
  <2>2. now + a.timeout \in Nat /\ ask'[w] = a
    BY <2>1
  <2>3. Answer(w, "ok") \/ Answer(w, "timeout") \/ Sleeps(w, a, now + a.timeout)
    BY <2>1, <2>2, LookCases DEF WaitInv
  <2>4. QED
    BY <2>1, <2>2, <2>3, SleepsSleeping DEF WaitInv, Replies
<1>3. ASSUME WakeText(w)
      PROVE  Replies(w) \/ Sleeping(w)
  <2>1. CASE TextVerdict(w) # "none"
    BY <1>3, <2>1 DEF WakeText, Replies, TextVerdict
  <2>2. CASE TextVerdict(w) = "none"
    <3>1. SleepUntil(w, alarm[w]) /\ UNCHANGED <<deadline, previous, lastChange, ask>> /\ ask[w].kind = "text"
      BY <1>3, <2>2 DEF WakeText
    <3>2. /\ deadline[w] \in Nat /\ deadline = [deadline EXCEPT ![w] = deadline[w]]
          /\ alarm[w] \in Nat \cup {NoTime} /\ alarm[w] <= deadline[w] + 1
      BY <3>1 DEF WaitInv, Calls, Timers, NoTime
    <3>3. QED
      BY <3>1, <3>2 DEF Sleeping
  <2>3. QED
    BY <2>1, <2>2
<1>4. ASSUME WakeStable(w)
      PROVE  Replies(w) \/ Sleeping(w)
  <2>1. ask[w].quiet \in Nat /\ deadline[w] \in Nat /\ ask[w].kind # "text" /\ UNCHANGED ask
    BY <1>4 DEF WaitInv, Calls, WakeStable
  <2>2. CASE w \in cancelled \/ now > deadline[w]
    BY <1>4, <2>2 DEF WakeStable, LastLook, Replies
  <2>3. CASE w \notin cancelled /\ ~(now > deadline[w])
    <3>1. StableLook(w, ask[w], deadline[w])
      BY <1>4, <2>3 DEF WakeStable
    <3>2. Answer(w, "ok") \/ Answer(w, "timeout") \/ Sleeps(w, ask[w], deadline[w])
      BY <2>1, <3>1, LookCases DEF WaitInv
    <3>3. QED
      BY <2>1, <3>2, SleepsSleeping DEF WaitInv, Replies
  <2>4. QED
    BY <2>2, <2>3
<1>5. Replies(w) \/ Sleeping(w)
  BY <1>1, <1>2, <1>3, <1>4 DEF Waits
<1>6. QED
  BY <1>5 DEF Waits, CallText, CallStable, WakeText, WakeStable

LEMMA WaitStepInv ==
  ASSUME WaitInv, NEW w \in Waiters, Waits(w)
  PROVE  WaitInv'
<1>. USE DEF outputVs
<1>1. /\ Replies(w) \/ Sleeping(w)
      /\ mu = None /\ stage[w] \in {"idle", "woken"}
      /\ UNCHANGED <<now, version, lastFeed, closed, changes, changed, cancelled>>
      /\ ask' = ask \/ \E a \in Asks(w) : ask' = [ask EXCEPT ![w] = a]
      /\ helper' = helper \/ helper' = [helper EXCEPT ![w] = "waits"]
  BY WaitOutcomes
<1>2. Shared /\ Calls /\ Looks /\ Timers /\ SeenInv
  BY DEF WaitInv
<1>3. DOMAIN ask' = Waiters /\ (\A v \in Waiters : v # w => ask'[v] = ask[v])
      /\ \A v \in Waiters : ask'[v].quiet \in Nat /\ ask'[v].timeout \in Nat
  <2>1. CASE ask' = ask
    BY <1>2, <2>1 DEF Calls
  <2>2. ASSUME NEW a \in Asks(w), ask' = [ask EXCEPT ![w] = a]
        PROVE  DOMAIN ask' = Waiters /\ (\A v \in Waiters : v # w => ask'[v] = ask[v])
               /\ \A v \in Waiters : ask'[v].quiet \in Nat /\ ask'[v].timeout \in Nat
    <3>1. a.quiet \in Nat /\ a.timeout \in Nat
      BY AskTypes
    <3>2. QED
      BY <1>2, <2>2, <3>1 DEF Calls
  <2>3. QED
    BY <1>1, <2>1, <2>2
<1>4. CASE Replies(w)
  <2>1. PICK r \in {"ok", "timeout", "closed", "cancelled"} : Answer(w, r)
    BY <1>4 DEF Replies
  <2>2. Shared'
    BY <1>1, <1>2, <2>1 DEF Shared, Answer
  <2>3. Calls'
    BY <1>1, <1>2, <1>3, <2>1, WaitAssumption DEF Calls, Answer
  <2>4. Looks'
    BY <1>1, <1>2, <2>1 DEF Looks, Answer, Shared
  <2>5. Timers'
    BY <1>1, <1>2, <1>3, <2>1 DEF Timers, Answer, Calls, NoTime
  <2>6. SeenInv'
    BY <1>1, <1>2, <2>1 DEF SeenInv, Answer, Looks
  <2>7. QED
    BY <2>2, <2>3, <2>4, <2>5, <2>6 DEF WaitInv
<1>5. CASE Sleeping(w)
  <2>1. PICK t \in Nat \cup {NoTime}, d \in Nat :
          /\ SleepUntil(w, t) /\ deadline' = [deadline EXCEPT ![w] = d]
          /\ t <= (IF ask'[w].kind = "text" THEN d + 1 ELSE d)
          /\ \/ UNCHANGED <<previous, lastChange>>
             \/ \E since \in 0 .. now :
                  /\ lastFeed # NoTime /\ (Reverts = FALSE => changed <= since)
                  /\ previous' = [previous EXCEPT ![w] = version]
                  /\ lastChange' = [lastChange EXCEPT ![w] = since]
    BY <1>5 DEF Sleeping
  <2>2. Shared'
    BY <1>1, <1>2, <2>1 DEF Shared, SleepUntil
  <2>3. Calls'
    BY <1>1, <1>2, <1>3, <2>1, WaitAssumption DEF Calls, SleepUntil
  <2>4. Timers'
    <3>1. alarm' = [alarm EXCEPT ![w] = t]
      BY <2>1 DEF SleepUntil
    <3>2. t \in NoTime .. (IF ask'[w].kind = "text" THEN deadline'[w] + 1 ELSE deadline'[w])
      BY <1>2, <2>1 DEF NoTime, Calls
    <3>3. QED
      BY <1>1, <1>2, <1>3, <2>1, <3>1, <3>2 DEF Timers, Calls
  <2>5. CASE UNCHANGED <<previous, lastChange>>
    BY <1>1, <1>2, <2>1, <2>2, <2>3, <2>4, <2>5 DEF Looks, SeenInv, WaitInv
  <2>6. ASSUME NEW since \in 0 .. now, lastFeed # NoTime, Reverts = FALSE => changed <= since,
               previous' = [previous EXCEPT ![w] = version],
               lastChange' = [lastChange EXCEPT ![w] = since]
        PROVE  WaitInv'
    <3>1. Looks'
      BY <1>1, <1>2, <2>6 DEF Looks, Shared
    <3>2. SeenInv'
      BY <1>1, <1>2, <2>6 DEF SeenInv, Looks, NoTime
    <3>3. QED
      BY <2>2, <2>3, <2>4, <3>1, <3>2 DEF WaitInv
  <2>7. QED
    BY <2>1, <2>5, <2>6
<1>6. QED
  BY <1>1, <1>4, <1>5

-----------------------------------------------------------------------------
LEMMA InitWaitInv == WaitInit => WaitInv
<1>. SUFFICES ASSUME WaitInit PROVE WaitInv
  OBVIOUS
<1>1. Shared
  <2>1. /\ now = 0 /\ mu = None /\ version = 0 /\ lastFeed = NoTime /\ closed = FALSE
        /\ changes = 0 /\ changed = NoTime /\ cancelled = {}
    BY DEF WaitInit
  <2>2. changes \in 0..MaxChanges
    BY <2>1, WaitAssumption
  <2>3. now \in Nat /\ version \in Nat /\ (Reverts => version \in 0..1)
    BY <2>1
  <2>4. lastFeed \in Nat \cup {NoTime} /\ changed \in Nat \cup {NoTime}
    BY <2>1
  <2>5. closed \in BOOLEAN /\ cancelled \subseteq Waiters /\ mu \in Waiters \cup {None}
    BY <2>1
  <2>6. QED
    BY <2>2, <2>3, <2>4, <2>5 DEF Shared
<1>2. Calls
  BY WaitAssumption DEF WaitInit, Calls
<1>3. Looks /\ Timers
  BY DEF WaitInit, Looks, Timers, NoTime
<1>4. SeenInv
  BY DEF WaitInit, SeenInv, NoTime
<1>5. QED
  BY <1>1, <1>2, <1>3, <1>4 DEF WaitInv

LEMMA StepWaitInv == WaitInv /\ [WaitNext]_waitVars => WaitInv'
<1>. SUFFICES ASSUME WaitInv, [WaitNext]_waitVars PROVE WaitInv'
  OBVIOUS
<1>. USE DEF outputVs, callVs, timerVs
<1>1. Shared /\ Calls /\ Looks /\ Timers /\ SeenInv
  BY DEF WaitInv
<1>2. ASSUME Feed \/ Resize
      PROVE  WaitInv'
  <2>1. /\ mu = None /\ Broadcast
        /\ UNCHANGED <<now, mu, closed, callVs, cancelled, timerVs>>
        /\ changes' = changes + 1 /\ changes < MaxChanges
        /\ \/ /\ version' = NextScreen
              /\ (changed' = now /\ lastFeed' = now) \/ UNCHANGED <<changed, lastFeed>>
           \/ UNCHANGED <<version, changed>> /\ lastFeed' = now
    BY <1>2 DEF Feed, Resize
  <2>2. /\ version \in Nat /\ (Reverts => version \in 0..1) /\ NextScreen \in Nat
        /\ Reverts => NextScreen \in 0..1
        /\ ~Reverts => NextScreen = version + 1
    BY <1>1 DEF Shared, NextScreen
  <2>3. Shared'
    BY <1>1, <2>1, <2>2, WaitAssumption DEF Shared, NoTime
  <2>4. Calls'
    BY <1>1, <2>1, WaitAssumption DEF Calls, Broadcast, Shared
  <2>5. Looks'
    BY <1>1, <2>1, <2>2, WaitAssumption DEF Looks, Shared
  <2>6. Timers'
    BY <1>1, <2>1 DEF Timers
  <2>7. SeenInv'
    <3>1. \A v \in Waiters : previous[v] \in 0 .. version \cup {NoScreen} \cup (IF Reverts THEN 0..1 ELSE {})
      BY <1>1 DEF Looks
    <3>2. now \in Nat /\ lastFeed \in Nat \cup {NoTime} /\ changed \in Nat \cup {NoTime}
      BY <1>1 DEF Shared
    <3>3. lastFeed' <= now' /\ changed' <= lastFeed' /\ (lastFeed # NoTime => lastFeed' # NoTime)
      BY <1>1, <2>1, <3>2 DEF SeenInv, NoTime
    <3>4. ASSUME NEW v \in Waiters, Reverts = FALSE, previous'[v] # NoScreen, previous'[v] = version'
          PROVE  UNCHANGED changed /\ previous[v] = version
      BY <2>1, <2>2, <3>1, <3>4 DEF NoScreen
    <3>5. QED
      BY <1>1, <2>1, <3>3, <3>4 DEF SeenInv
  <2>8. QED
    BY <2>3, <2>4, <2>5, <2>6, <2>7 DEF WaitInv
<1>3. ASSUME Close
      PROVE  WaitInv'
  <2>1. Calls'
    BY <1>1, <1>3, WaitAssumption DEF Calls, Broadcast, Shared, Close
  <2>2. Shared' /\ Looks' /\ Timers' /\ SeenInv'
    BY <1>1, <1>3 DEF Close, Shared, Looks, Timers, SeenInv
  <2>3. QED
    BY <2>1, <2>2 DEF WaitInv
<1>4. ASSUME Tick
      PROVE  WaitInv'
  <2>1. now \in Nat /\ now' = now + 1
    BY <1>1, <1>4 DEF Tick, Shared
  <2>2. Shared' /\ SeenInv'
    BY <1>1, <1>4, <2>1 DEF Tick, Shared, SeenInv, NoTime
  <2>3. Looks'
    BY <1>1, <1>4, <2>1 DEF Tick, Looks, NoTime
  <2>4. Calls' /\ Timers'
    BY <1>1, <1>4 DEF Tick, Calls, Timers
  <2>5. QED
    BY <2>2, <2>3, <2>4 DEF WaitInv
<1>5. ASSUME NEW w \in Waiters, CallSome(w) \/ WakeText(w) \/ WakeStable(w)
      PROVE  WaitInv'
  BY <1>5, WaitStepInv DEF CallSome, Waits
<1>6. ASSUME NEW w \in Waiters, Park(w)
      PROVE  WaitInv'
  <2>1. Calls'
    BY <1>1, <1>6, WaitAssumption DEF Calls, Shared, Park
  <2>2. Shared' /\ Looks' /\ Timers' /\ SeenInv'
    BY <1>1, <1>6 DEF Park, Shared, Looks, Timers, SeenInv
  <2>3. QED
    BY <2>1, <2>2 DEF WaitInv
<1>7. ASSUME NEW w \in Waiters, Cancel(w)
      PROVE  WaitInv'
  BY <1>1, <1>7, WaitAssumption DEF Cancel, WaitInv, Shared, Calls, Looks, Timers, SeenInv
<1>8. ASSUME NEW w \in Waiters, TimerFires(w) \/ ContextDone(w) \/ HelperStops(w)
      PROVE  WaitInv'
  <2>1. Shared' /\ Calls' /\ Looks' /\ SeenInv'
    BY <1>1, <1>8 DEF TimerFires, ContextDone, HelperStops, Shared, Calls, Looks, SeenInv
  <2>2. \A v \in Waiters : alarm'[v] = alarm[v] \/ alarm'[v] = NoTime
    BY <1>1, <1>8 DEF TimerFires, ContextDone, HelperStops, Timers
  <2>3. Timers'
    BY <1>1, <1>8, <2>2 DEF TimerFires, ContextDone, HelperStops, Timers, Calls, NoTime
  <2>4. QED
    BY <2>1, <2>3 DEF WaitInv
<1>9. ASSUME NEW w \in Waiters, HelperBroadcast(w)
      PROVE  WaitInv'
  <2>1. Calls'
    BY <1>1, <1>9, WaitAssumption DEF Calls, Broadcast, Shared, HelperBroadcast
  <2>2. Shared' /\ Looks' /\ Timers' /\ SeenInv'
    BY <1>1, <1>9 DEF HelperBroadcast, Shared, Looks, Timers, SeenInv
  <2>3. QED
    BY <2>1, <2>2 DEF WaitInv
<1>10. CASE UNCHANGED waitVars
  BY <1>1, <1>10 DEF waitVars, WaitInv, Shared, Calls, Looks, Timers, SeenInv
<1>11. QED
  BY <1>2, <1>3, <1>4, <1>5, <1>6, <1>7, <1>8, <1>9, <1>10 DEF WaitNext, Proceed, Help, WaitsOver

(* The mutex, the calls and the timers keep their types; no alarm is later  *)
(* than its deadline, and only the owner of Pump.mu parks.                  *)
THEOREM WaitTypeCorrect == WaitSpec => []WaitTypeOK
<1>1. WaitInv => WaitTypeOK
  BY DEF WaitInv, Shared, Calls, Looks, Timers, WaitTypeOK
<1>2. QED
  BY <1>1, InitWaitInv, StepWaitInv, PTL DEF WaitSpec

(* Only a waiter's own look answers its call.                               *)
LEMMA WhoAnswers ==
  ASSUME WaitInv, [WaitNext]_waitVars, NEW w \in Waiters, NEW a, Answers(w, a)
  PROVE  Waits(w)
<1>. USE DEF outputVs, callVs, timerVs
<1>1. answer' # answer
  BY DEF Answers
<1>2. PICK v \in Waiters : Waits(v)
  BY <1>1 DEF WaitNext, Feed, Resize, Close, Tick, CallSome, Proceed, Park, Cancel, Help,
              TimerFires, ContextDone, HelperBroadcast, HelperStops, WaitsOver, waitVars, Waits
<1>3. Replies(v) \/ Sleeping(v)
  BY <1>2, WaitOutcomes
<1>4. \A u \in Waiters : u # v => answer'[u] = answer[u]
  <2>1. CASE Replies(v)
    BY <2>1 DEF WaitInv, Calls, Replies, Answer
  <2>2. CASE Sleeping(v)
    BY <2>2 DEF Sleeping, SleepUntil
  <2>3. QED
    BY <1>3, <2>1, <2>2
<1>5. QED
  BY <1>2, <1>4 DEF Answers

(* A stable wait that succeeds while the pump is open has seen output, and  *)
(* nothing it watches has changed for the quiet window, where every change  *)
(* shows on the screen (WaitStableCapture, WaitStableExceptCapture).        *)
THEOREM StableAnswersMeanQuiet ==
  ASSUME Reverts = FALSE
  PROVE  WaitSpec => StableMeansQuiet
<1>1. ASSUME WaitInv, [WaitNext]_waitVars, NEW w \in Waiters,
             Answers(w, "ok"), Asked(w).kind # "text", ~closed
      PROVE  lastFeed # NoTime /\ changed + Asked(w).quiet <= now
  <2>. USE DEF outputVs, callVs, timerVs
  <2>1. Shared /\ Calls /\ Looks /\ Timers /\ SeenInv
    BY <1>1 DEF WaitInv
  <2>2. Waits(w)
    BY <1>1, WhoAnswers
  <2>3. ASSUME NEW a, a.quiet \in Nat, NEW limit \in Nat, Asked(w) = a, a.kind # "text",
               StableLook(w, a, limit)
        PROVE  lastFeed # NoTime /\ changed + Asked(w).quiet <= now
    <3>1. QuietSince(QuietFrom(w, a), a)
      <4>1. CASE ~(QuietSince(QuietFrom(w, a), a) \/ closed) /\ Answer(w, "timeout")
        BY <1>1, <2>1, <4>1 DEF Answer, Answers, Calls
      <4>2. CASE Sleeps(w, a, limit)
        BY <1>1, <4>2 DEF Sleeps, SleepUntil, Answers
      <4>3. QED
        BY <1>1, <2>1, <2>3, <4>1, <4>2, LookCases
    <3>2. PICK since : since = QuietFrom(w, a)
      OBVIOUS
    <3>3. /\ since \in 0 .. now \cup {NoTime} /\ changed <= since
          /\ since # NoTime => lastFeed # NoTime \/ previous[w] # NoScreen
      BY <1>1, <2>1, <3>2, QuietFromType
    <3>4. since # NoTime /\ now - since >= a.quiet
      BY <3>1, <3>2 DEF QuietSince
    <3>5. lastFeed # NoTime
      BY <2>1, <3>3, <3>4 DEF SeenInv
    <3>6. now \in Nat /\ changed \in Nat \cup {NoTime} /\ Asked(w).quiet = a.quiet
      BY <2>1, <2>3 DEF Shared
    <3>7. QED
      BY <2>3, <3>3, <3>4, <3>5, <3>6 DEF NoTime
  <2>4. ASSUME NEW a \in Asks(w), CallText(w, a)
        PROVE  FALSE
    BY <1>1, <2>1, <2>4 DEF CallText, Asked, Calls
  <2>5. ASSUME NEW a \in Asks(w), CallStable(w, a)
        PROVE  lastFeed # NoTime /\ changed + Asked(w).quiet <= now
    <3>1. a.quiet \in Nat /\ a.timeout \in Nat
      BY AskTypes
    <3>2. now + a.timeout \in Nat /\ Asked(w) = a /\ a.kind # "text" /\ StableLook(w, a, now + a.timeout)
      BY <2>1, <2>5, <3>1 DEF CallStable, Asked, Calls, Shared
    <3>3. QED
      BY <2>3, <3>1, <3>2
  <2>6. CASE WakeText(w)
    BY <1>1, <2>6 DEF WakeText, Asked
  <2>7. CASE WakeStable(w)
    <3>1. Asked(w) = ask[w] /\ ask[w].quiet \in Nat /\ deadline[w] \in Nat /\ ask[w].kind # "text"
      BY <2>1, <2>7 DEF WakeStable, Asked, Calls
    <3>2. CASE w \notin cancelled /\ ~(now > deadline[w])
      <4>1. StableLook(w, ask[w], deadline[w])
        BY <2>7, <3>2 DEF WakeStable
      <4>2. QED
        BY <2>3, <3>1, <4>1
    <3>3. CASE w \in cancelled
      BY <1>1, <2>1, <2>7, <3>3 DEF WakeStable, Answer, Answers, Calls
    <3>4. CASE w \notin cancelled /\ now > deadline[w]
      <4>1. LastLook(w, ask[w])
        BY <2>7, <3>4 DEF WakeStable
      <4>2. IF ask[w].kind = "stable" THEN QuietSince(lastFeed, ask[w])
            ELSE previous[w] = version /\ QuietSince(lastChange[w], ask[w])
        BY <1>1, <2>1, <4>1 DEF LastLook, Answer, Answers, Calls
      <4>3. CASE ask[w].kind = "stable"
        BY <2>1, <3>1, <4>2, <4>3 DEF QuietSince, SeenInv, Shared, NoTime
      <4>4. CASE ask[w].kind # "stable"
        <5>1. previous[w] = version /\ previous[w] # NoScreen /\ lastChange[w] \in 0 .. now \cup {NoTime}
          BY <2>1, <4>2, <4>4 DEF Shared, NoScreen, Looks
        <5>2. QED
          BY <1>1, <2>1, <3>1, <4>2, <4>4, <5>1 DEF QuietSince, SeenInv, Shared, NoTime
      <4>5. QED
        BY <4>3, <4>4
    <3>5. QED
      BY <3>2, <3>3, <3>4
  <2>8. QED
    BY <2>2, <2>4, <2>5, <2>6, <2>7 DEF Waits
<1>2. WaitInv /\ [WaitNext]_waitVars =>
        [\A w \in Waiters : Answers(w, "ok") /\ Asked(w).kind # "text" /\ ~closed
           => lastFeed # NoTime /\ changed + Asked(w).quiet <= now]_waitVars
  BY <1>1
<1>3. QED
  BY <1>2, InitWaitInv, StepWaitInv, PTL DEF WaitSpec, StableMeansQuiet

(* A wait is not told of a timeout or of the end of the output while the    *)
(* success it asked for stands on the screen (WaitCapture and               *)
(* WaitStableCapture look at the screen first, and once more at the end).   *)
THEOREM AnswersAreEarned == WaitSpec => NoSuccessMissed
<1>. DEFINE Earned(w) ==
       /\ Answers(w, "closed") => closed /\ ~Shown
       /\ Answers(w, "timeout") =>
            /\ now >= deadline[w]
            /\ CASE Asked(w).kind = "text"   -> ~Shown /\ ~closed
                 [] Asked(w).kind = "stable" -> ~QuietSince(lastFeed, Asked(w))
                 [] OTHER                  -> TRUE
<1>1. ASSUME WaitInv, [WaitNext]_waitVars, NEW w \in Waiters, NEW r \in {"closed", "timeout"}, Answers(w, r)
      PROVE  Earned(w)
  <2>. USE DEF outputVs, callVs, timerVs
  <2>1. Shared /\ Calls /\ Looks /\ Timers /\ SeenInv /\ Waits(w)
    BY <1>1, WhoAnswers DEF WaitInv
  <2>2. \A q : Answer(w, q) => answer'[w] = q
    BY <2>1 DEF Answer, Calls
  <2>3. answer'[w] = r /\ answer[w] # r
    BY <1>1 DEF Answers
  <2>4. now \in Nat /\ deadline[w] \in Nat /\ DOMAIN ask = Waiters
        /\ (stage[w] = "idle" => deadline[w] = 0)
    BY <2>1 DEF Shared, Calls
  <2>5. ASSUME r = "closed", closed, ~Shown
        PROVE  Earned(w)
    BY <2>3, <2>5 DEF Answers
  <2>6. ASSUME r = "timeout", now >= deadline[w], Asked(w).kind = "text", ~Shown, ~closed
        PROVE  Earned(w)
    BY <2>3, <2>6 DEF Answers
  <2>7. ASSUME r = "timeout", now >= deadline[w], Asked(w).kind = "stable" => ~QuietSince(lastFeed, Asked(w)),
               Asked(w).kind # "text"
        PROVE  Earned(w)
    BY <2>3, <2>7 DEF Answers
  <2>8. ASSUME NEW a, a.quiet \in Nat, NEW limit \in Nat, deadline[w] <= limit,
               Asked(w) = a, a.kind # "text", StableLook(w, a, limit)
        PROVE  Earned(w)
    <3>1. ~QuietSince(QuietFrom(w, a), a) /\ limit <= now /\ r = "timeout"
      <4>1. CASE Answer(w, "ok")
        BY <2>2, <2>3, <4>1
      <4>2. CASE ~QuietSince(QuietFrom(w, a), a) /\ limit <= now /\ Answer(w, "timeout")
        BY <2>2, <2>3, <4>2
      <4>3. CASE Sleeps(w, a, limit)
        BY <2>3, <4>3 DEF Sleeps, SleepUntil
      <4>4. QED
        BY <2>1, <2>8, <4>1, <4>2, <4>3, LookCases
    <3>2. now >= deadline[w]
      BY <2>4, <2>8, <3>1
    <3>3. a.kind = "stable" => ~QuietSince(lastFeed, a)
      BY <3>1 DEF QuietFrom
    <3>4. QED
      BY <2>7, <2>8, <3>1, <3>2, <3>3
  <2>9. ASSUME NEW a \in Asks(w), CallText(w, a)
        PROVE  Earned(w)
    <3>1. Shown \/ closed
      BY <2>3, <2>9 DEF CallText, SleepUntil
    <3>2. Answer(w, IF Shown THEN "ok" ELSE "closed")
      BY <2>9, <3>1 DEF CallText
    <3>3. ~Shown /\ r = "closed"
      BY <2>2, <2>3, <3>2
    <3>4. QED
      BY <2>5, <3>1, <3>3
  <2>10. ASSUME NEW a \in Asks(w), CallStable(w, a)
         PROVE  Earned(w)
    <3>1. a.quiet \in Nat /\ a.timeout \in Nat
      BY AskTypes
    <3>2. /\ now + a.timeout \in Nat /\ deadline[w] <= now + a.timeout
          /\ Asked(w) = a /\ a.kind # "text" /\ StableLook(w, a, now + a.timeout)
      BY <2>4, <2>10, <3>1 DEF CallStable, Asked
    <3>3. QED
      BY <2>8, <3>1, <3>2
  <2>11. CASE WakeText(w)
    <3>1. CASE TextVerdict(w) # "none"
      <4>1. TextVerdict(w) = r /\ Asked(w).kind = "text"
        BY <2>2, <2>3, <2>11, <3>1 DEF WakeText, Asked
      <4>2. CASE r = "closed"
        BY <2>5, <4>1, <4>2 DEF TextVerdict
      <4>3. CASE r = "timeout"
        <5>1. ~Shown /\ ~closed /\ now > deadline[w]
          BY <4>1, <4>3 DEF TextVerdict
        <5>2. QED
          BY <2>4, <2>6, <4>1, <4>3, <5>1
      <4>4. QED
        BY <4>2, <4>3
    <3>2. CASE TextVerdict(w) = "none"
      BY <2>3, <2>11, <3>2 DEF WakeText, SleepUntil
    <3>3. QED
      BY <3>1, <3>2
  <2>12. CASE WakeStable(w)
    <3>1. Asked(w) = ask[w] /\ ask[w].quiet \in Nat /\ ask[w].kind # "text"
      BY <2>1, <2>12 DEF WakeStable, Asked, Calls
    <3>2. CASE w \in cancelled
      BY <2>2, <2>3, <2>12, <3>2 DEF WakeStable
    <3>3. CASE w \notin cancelled /\ now > deadline[w]
      <4>1. LastLook(w, ask[w])
        BY <2>12, <3>3 DEF WakeStable
      <4>2. r = "timeout" /\ (ask[w].kind = "stable" => ~QuietSince(lastFeed, ask[w]))
        BY <2>2, <2>3, <4>1 DEF LastLook
      <4>3. now >= deadline[w]
        BY <2>4, <3>3
      <4>4. QED
        BY <2>7, <3>1, <4>2, <4>3
    <3>4. CASE w \notin cancelled /\ ~(now > deadline[w])
      <4>1. StableLook(w, ask[w], deadline[w])
        BY <2>12, <3>4 DEF WakeStable
      <4>2. QED
        BY <2>4, <2>8, <3>1, <4>1
    <3>5. QED
      BY <3>2, <3>3, <3>4
  <2>13. QED
    BY <2>1, <2>9, <2>10, <2>11, <2>12 DEF Waits
<1>2. ASSUME WaitInv, [WaitNext]_waitVars
      PROVE  \A w \in Waiters : Earned(w)
  <2>1. TAKE w \in Waiters
  <2>2. CASE Answers(w, "closed") \/ Answers(w, "timeout")
    BY <1>1, <1>2, <2>2
  <2>3. CASE ~(Answers(w, "closed") \/ Answers(w, "timeout"))
    BY <2>3
  <2>4. QED
    BY <2>2, <2>3
<1>3. WaitInv /\ [WaitNext]_waitVars => [\A w \in Waiters : Earned(w)]_waitVars
  BY <1>2
<1>4. QED
  BY <1>3, InitWaitInv, StepWaitInv, PTL DEF WaitSpec, NoSuccessMissed

=============================================================================
