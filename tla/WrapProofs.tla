----------------------------- MODULE WrapProofs -----------------------------
(***************************************************************************)
(* What twee wrap records is true, and the screen catches up, whatever is  *)
(* typed, written or fails, and however small the buffers are.             *)
(*                                                                         *)
(* RecordingsAreTrue speaks of the ends of the pipes: the recorders and    *)
(* what the child was sent.  The invariants below say what is in between.  *)
(* What the user typed is in order from the recorders to the terminal:     *)
(* given to the child, in hand, decoded, a pending escape byte, queued.    *)
(* What the child wrote is in order from the model to the child: fed,      *)
(* queued, held by the reader, in the PTY.                                 *)
(***************************************************************************)
EXTENDS Wrap, TLAPS

Chunk == [n : Nat, seen : SUBSET Nat, asks : BOOLEAN]

Item == [k : AllKinds, id : Nat \ {0}]

Event == [k : {"output"}, chunk : Chunk] \cup [k : {"input"}, item : Item]
           \cup [k : {"resize", "done", "fatal"}]

Entry == [k : {"seed"}, n : Nat, id : Nat] \cup [k : {"output"}, n : Nat, seen : SUBSET Nat]
           \cup [k : {"input"}, id : Nat] \cup [k : {"reply", "resize", "marker", "exit"}]

Op == [k : AllKinds \cup {"resize"}, ids : SUBSET Nat, fed : Nat]
        \cup [k : {"wait"}, ids : SUBSET Nat, fed : Nat, acted : Nat]

(* The values of the variables, more closely than TypeOK has them.          *)
KernelType ==
  /\ opts \in AllOptions /\ IsEnvironment(env)
  /\ child \in {"running", "exited"} /\ slave \in BOOLEAN
  /\ inq \in Seq(Nat) /\ Len(inq) <= InCap /\ outq \in Seq(Chunk) /\ Len(outq) <= OutCap
  /\ seen \subseteq Nat /\ emitted \in Nat
  /\ exitPub \in BOOLEAN /\ master \in BOOLEAN /\ cancelled \in BOOLEAN
  /\ closer \in {"none", "kill", "close", "done"}

QueueType ==
  /\ reader \in {"read", "send", "last", "gone"} /\ held \in Seq(Event) /\ lastRead \in Nat
  /\ events \in Seq(Event) /\ Len(events) <= QueueCap
  /\ typed \in Nat /\ resizes \in Nat
  /\ todo \in Seq(Item) /\ pendingEsc \in Nat /\ escape \in BOOLEAN
  /\ pc \in {"select", "handle", "record", "reply", "close", "done"}
  /\ marker \in {"off", "empty", "label"}

RecorderType ==
  /\ trace \in {"idle", "recording", "finalized", "failed"} /\ log \in Seq(Entry)
  /\ script \in {"idle", "recording", "finalized", "failed"} /\ ops \in Seq(Op)
  /\ startedAt \in Nat /\ partial \in BOOLEAN /\ active \in BOOLEAN
  /\ waiting \in BOOLEAN /\ outputSince \in BOOLEAN /\ quiet \in BOOLEAN /\ acted \in Nat

OutcomeType ==
  /\ fed \in Nat /\ shown \in Nat /\ redraw \in BOOLEAN
  /\ runErr \in {"none", "write", "resize", "read", "context", "trace", "script", "finalize"}
  /\ stopping \in BOOLEAN /\ ptyDone \in BOOLEAN /\ result \in {"none", "ok", "status", "error"}
  /\ given \subseteq Item

Domains == KernelType /\ QueueType /\ RecorderType /\ OutcomeType

(* The loop has decoded inputs only while it handles them.                  *)
Phases ==
  /\ pc \in {"select", "reply", "close", "done"} => todo = <<>>
  /\ pc = "record" => todo # <<>>
  /\ pc \in {"close", "done"} => ptyDone

IsInput(i)  == events[i].k = "input"
IsOutput(i) == events[i].k = "output"

(* Every input still to be handled is later than n.                         *)
Ahead(n) ==
  /\ n <= typed
  /\ \A i \in 1..Len(todo) : n < todo[i].id
  /\ pendingEsc # 0 => n < pendingEsc
  /\ \A i \in 1..Len(events) : IsInput(i) => n < events[i].item.id

(* Inputs are handled in the order they were typed in: what is decoded, the *)
(* escape byte, what is queued.                                             *)
TodoOrder ==
  \A i \in 1..Len(todo) :
    /\ todo[i].id <= typed
    /\ pendingEsc # 0 => todo[i].id < pendingEsc
    /\ \A j \in 1..Len(todo) : i < j => todo[i].id < todo[j].id

QueueOrder ==
  /\ pendingEsc <= typed /\ typed <= env.typed
  /\ \A i \in 1..Len(events) : IsInput(i) =>
       /\ pendingEsc < events[i].item.id /\ events[i].item.id <= typed
       /\ \A j \in 1..Len(todo) : todo[j].id < events[i].item.id
       /\ \A j \in 1..Len(events) : IsInput(j) /\ i < j => events[i].item.id < events[j].item.id

InputOrder == TodoOrder /\ QueueOrder

InHand(n) == pc = "record" /\ n = todo[1].id

(* What was given to the child is behind what is still to be handled; the   *)
(* input in hand was given to it if the write succeeded.                    *)
GivenIsPast ==
  /\ \A g \in given : Ahead(g.id) \/ (pc = "record" /\ g = todo[1])
  /\ pc = "record" /\ ptyDone => todo[1] \notin given
  /\ pc = "record" /\ ~ptyDone /\ runErr = "none" => todo[1] \in given

Given(n) == \E g \in given : g.id = n
Kept(n) == \E j \in 1..Len(log) : log[j].k = "input" /\ log[j].id = n

(* A recording trace starts with its seed, before any input in hand, and    *)
(* holds the inputs given since.                                            *)
TraceHoldsInputs ==
  trace = "recording" =>
    /\ log # <<>> /\ log[1].k = "seed" /\ Ahead(log[1].id)
    /\ \A g \in given : g.id > log[1].id /\ ~InHand(g.id) => Kept(g.id)
    /\ runErr = "none" => \A j \in 1..Len(log) : log[j].k = "input" =>
         Given(log[j].id) /\ log[j].id > log[1].id /\ ~InHand(log[j].id)

Expressed(n) == \E g \in given : g.id = n /\ g.k # "unknown"
Written(n) == \E j \in 1..Len(ops) : n \in ops[j].ids

(* Before any activity nothing was given and nothing was fed.               *)
NothingYet == ~active => /\ fed = 0
                         /\ \A g \in given : pc = "record" /\ g = todo[1]

ScriptHoldsInputs ==
  /\ script = "recording" => ops # <<>>
  /\ script = "recording" /\ ~partial /\ ~ptyDone =>
       /\ ops[1].fed = 0
       /\ \A g \in given : g.k # "unknown" /\ ~InHand(g.id) => Written(g.id)
       /\ runErr = "none" => \A j \in 1..Len(ops) : \A n \in ops[j].ids :
            Expressed(n) /\ ~InHand(n)

(* What the child has read, and what it says it had read, was given to it.  *)
SeenWasGiven ==
  /\ \A i \in 1..Len(inq) : inq[i] = 0 \/ Given(inq[i])
  /\ \A n \in seen : Given(n)
  /\ \A i \in 1..Len(outq) : \A n \in outq[i].seen : Given(n)
  /\ \A i \in 1..Len(held) : held[i].k = "output" => \A n \in held[i].chunk.seen : Given(n)
  /\ \A i \in 1..Len(events) : IsOutput(i) => \A n \in events[i].chunk.seen : Given(n)

(* A wait may be due only after an action, and has output only after it.    *)
WaitsAreDue ==
  /\ acted <= fed
  /\ waiting /\ script = "recording" => ops # <<>> /\ ops[Len(ops)].k # "wait"
  /\ waiting /\ outputSince => acted < fed

(* The last chunk that reached the channel.                                 *)
Queued == IF reader = "send" THEN lastRead - 1 ELSE lastRead

(* The chunks that were emitted and not fed are queued, held or in the PTY, *)
(* in order and without a gap.                                              *)
OutputOrder ==
  /\ \A i \in 1..Len(outq) : outq[i].n = lastRead + i
  /\ lastRead + Len(outq) = emitted
  /\ reader = "send" => Len(held) = 1 /\ held[1].k = "output" /\ held[1].chunk.n = lastRead
  /\ reader = "send" => lastRead > 0
  /\ reader \in {"read", "gone"} => held = <<>>
  /\ reader = "last" => held # <<>>
  /\ fed <= Queued
  /\ \A i \in 1..Len(events) : IsOutput(i) =>
       /\ fed < events[i].chunk.n /\ events[i].chunk.n <= Queued
       /\ \A j \in 1..Len(events) : IsOutput(j) /\ i < j => events[i].chunk.n < events[j].chunk.n
  /\ \A m \in (fed + 1)..Queued : \E i \in 1..Len(events) : IsOutput(i) /\ events[i].chunk.n = m

(* The reader's last word is that the PTY is at its end.                    *)
EndOrder ==
  /\ reader = "last" => /\ Len(held) \in 1..2 /\ held[Len(held)].k = "done"
                        /\ Len(held) = 2 => held[1].k = "fatal"
  /\ \A i \in 1..Len(events) : events[i].k = "done" =>
       reader = "gone" /\ \A j \in 1..Len(events) : i < j => events[j].k \in {"input", "resize"}
  /\ ptyDone => /\ reader = "gone"
                /\ \A i \in 1..Len(events) : events[i].k \in {"input", "resize"}

(* Why the reader stopped: the session was stopped, an error, or the end.   *)
EndHasReason ==
  /\ ~master => closer = "done"
  /\ closer # "none" => stopping \/ pc \in {"close", "done"}
  /\ reader \in {"last", "gone"} =>
       \/ stopping \/ runErr # "none"
       \/ ~slave /\ outq = <<>>
       \/ \E i \in 1..Len(held) : held[i].k = "fatal"
       \/ \E i \in 1..Len(events) : events[i].k = "fatal"

OutputsUpTo(n) ==
  /\ \A j \in 1..Len(log) : log[j].k = "output" =>
       /\ log[j].n \in 1..n
       /\ \A i \in 1..Len(log) : log[i].k = "output" /\ i < j => log[i].n < log[j].n
  /\ \A m \in 1..n : \E j \in 1..Len(log) : log[j].k = "output" /\ log[j].n = m

HasExit == \E j \in 1..Len(log) : log[j].k = "exit"

(* A trace recorded from the start has what was fed, and an exit last.      *)
TraceIsWhole ==
  /\ HasExit => pc \in {"close", "done"} /\ log[Len(log)].k = "exit"
  /\ pc \in {"close", "done"} => trace # "recording"
  /\ opts.trace =>
       /\ trace # "idle"
       /\ trace = "recording" => startedAt = 0
       /\ trace = "recording" \/ HasExit => OutputsUpTo(fed)

WrapInv ==
  /\ Domains /\ Phases /\ InputOrder /\ GivenIsPast /\ TraceHoldsInputs
  /\ NothingYet /\ ScriptHoldsInputs /\ SeenWasGiven /\ CauseBeforeEffect
  /\ WaitsAreDue /\ WaitsAreEarned /\ OutputOrder /\ EndOrder /\ EndHasReason /\ TraceIsWhole

-----------------------------------------------------------------------------
(* Sequences as queues.                                                     *)
LEMMA HeadTail ==
  ASSUME NEW S, NEW s \in Seq(S), s # <<>>
  PROVE  /\ Len(s) \in Nat \ {0} /\ Head(s) = s[1] /\ s[1] \in S
         /\ Tail(s) \in Seq(S) /\ Len(Tail(s)) = Len(s) - 1
         /\ \A i \in 1..Len(Tail(s)) : Tail(s)[i] = s[i + 1] /\ i + 1 \in 1..Len(s)
  OBVIOUS

(* The capacities are numbers.                                              *)
LEMMA Caps == InCap \in Nat /\ OutCap \in Nat /\ QueueCap \in Nat
  BY WrapAssumption

(* The bounds of the environment are numbers.                               *)
LEMMA Bounds ==
  ASSUME KernelType
  PROVE  /\ env.typed \in Nat /\ env.chunks \in Nat /\ env.resizes \in Nat
         /\ env.kinds \subseteq AllKinds
         /\ opts.trace \in BOOLEAN /\ opts.compositor \in BOOLEAN
  BY DEF KernelType, IsEnvironment, AllOptions

(* The event that the loop takes, and what remains.                         *)
LEMMA TakeEvent ==
  ASSUME QueueType, NEW k, Take(k)
  PROVE  /\ pc = "select" /\ ~ptyDone
         /\ Len(events) \in Nat \ {0} /\ Head(events) = events[1] /\ events[1] \in Event
         /\ events[1].k = k
         /\ events' \in Seq(Event) /\ Len(events') = Len(events) - 1
         /\ \A i \in 1..Len(events') : events'[i] = events[i + 1] /\ i + 1 \in 1..Len(events)
<1>1. events \in Seq(Event) /\ events # <<>> /\ events' = Tail(events)
  BY DEF QueueType, Take
<1>2. pc = "select" /\ ~ptyDone /\ Head(events).k = k
  BY DEF Take
<1>. QED
  BY <1>1, <1>2, HeadTail

(* The input that the loop handles, and what remains.                       *)
LEMMA HeadItem ==
  ASSUME QueueType, todo # <<>>
  PROVE  /\ Len(todo) \in Nat \ {0} /\ Head(todo) = todo[1] /\ todo[1] \in Item
         /\ todo[1].k \in AllKinds /\ todo[1].id \in Nat \ {0}
         /\ Tail(todo) \in Seq(Item) /\ Len(Tail(todo)) = Len(todo) - 1
         /\ \A i \in 1..Len(Tail(todo)) : Tail(todo)[i] = todo[i + 1] /\ i + 1 \in 1..Len(todo)
<1>1. todo \in Seq(Item)
  BY DEF QueueType
<1>2. todo[1] \in Item
  BY <1>1, HeadTail
<1>. QED
  BY <1>1, <1>2, HeadTail DEF Item

-----------------------------------------------------------------------------
(* The variables keep their types.                                          *)

(* The PTY never holds more than it can: the child's writes, forwarded      *)
(* inputs and replies wait for room.                                        *)
LEMMA KernelTypeStep ==
  ASSUME KernelType, QueueType, [Next]_vars
  PROVE  KernelType'
<1>. USE DEF KernelType, vars, kernel, runner, feeders, decoder, tracing,
            scripting, waits, screen, outcome, recorders
<1>1. CASE ChildWrites
  <2>. USE <1>1 DEF ChildWrites, twee
  <2>1. PICK asks \in BOOLEAN : outq' = Append(outq, [n |-> emitted + 1, seen |-> seen, asks |-> asks])
    OBVIOUS
  <2>2. [n |-> emitted + 1, seen |-> seen, asks |-> asks] \in Chunk
    BY DEF Chunk
  <2>3. outq' \in Seq(Chunk) /\ Len(outq') = Len(outq) + 1
    BY <2>1, <2>2
  <2>. QED
    BY <2>3, Caps
<1>2. CASE ChildReads
  <2>1. Head(inq) \in Nat /\ Tail(inq) \in Seq(Nat) /\ Len(Tail(inq)) = Len(inq) - 1
    BY <1>2, HeadTail DEF ChildReads
  <2>2. Len(Tail(inq)) <= InCap
    BY <2>1, Caps
  <2>. QED
    BY <1>2, <2>1, <2>2 DEF ChildReads, twee
<1>3. CASE ChildExits
  BY <1>3 DEF ChildExits, twee
<1>4. CASE SlaveCloses
  BY <1>4 DEF SlaveCloses, twee
<1>5. CASE Cancel
  BY <1>5 DEF Cancel
<1>6. CASE KillByContext
  BY <1>6 DEF KillByContext, twee
<1>7. CASE PublishExit
  BY <1>7 DEF PublishExit
<1>8. CASE CloserKills
  BY <1>8 DEF CloserKills
<1>9. CASE CloserCloses
  BY <1>9 DEF CloserCloses
<1>10. CASE ReadChunk
  <2>1. Tail(outq) \in Seq(Chunk) /\ Len(Tail(outq)) = Len(outq) - 1
    BY <1>10, HeadTail DEF ReadChunk
  <2>2. Len(Tail(outq)) <= OutCap
    BY <2>1, Caps
  <2>. QED
    BY <1>10, <2>1, <2>2 DEF ReadChunk
<1>11. CASE ReadEnd
  BY <1>11 DEF ReadEnd, loop
<1>12. CASE SendEvent
  BY <1>12 DEF SendEvent, Sent
<1>13. CASE HostResizes
  BY <1>13 DEF HostResizes, loop
<1>14. CASE \E k \in env.kinds : Type(k)
  BY <1>14 DEF Type, loop
<1>15. CASE TakeOutput
  BY <1>15 DEF TakeOutput, Take, RecordedOutput, ScheduleRedraw
<1>16. CASE WriteReply
  <2>1. Append(inq, 0) \in Seq(Nat) /\ Len(Append(inq, 0)) = Len(inq) + 1
    OBVIOUS
  <2>2. inq' \in Seq(Nat) /\ Len(inq') <= InCap
    <3>1. inq' = inq \/ (inq' = Append(inq, 0) /\ Len(inq) < InCap)
      BY <1>16 DEF WriteReply
    <3>2. Len(inq) \in Nat /\ inq \in Seq(Nat) /\ Len(inq) <= InCap
      OBVIOUS
    <3>3. Len(inq) < InCap => Len(inq) + 1 <= InCap
      BY <3>2, Caps
    <3>. HIDE DEF KernelType
    <3>. QED
      BY <3>1, <3>2, <3>3, <2>1
  <2>. QED
    BY <1>16, <2>2 DEF WriteReply
<1>17. CASE TakeInput
  BY <1>17 DEF TakeInput, Take, Decoded
<1>18. CASE TakeResize
  BY <1>18 DEF TakeResize, Take, Resized, Recorded, ArmAfterAction, Redraw,
     Fails, StopChild, others
<1>19. CASE TakeFatal
  BY <1>19 DEF TakeFatal, Take, Fails, StopChild, others
<1>20. CASE TakeDone
  BY <1>20 DEF TakeDone, Take, Redraw
<1>21. CASE RedrawFires
  BY <1>21 DEF RedrawFires, Redraw
<1>22. CASE QuietFires
  BY <1>22 DEF QuietFires, WithPendingWait, Wait, ClearQuiet
<1>23. CASE EscapeFires
  BY <1>23 DEF EscapeFires, Redraw
<1>24. CASE ContextDone
  BY <1>24 DEF ContextDone, StopChild, others
<1>25. CASE Prompt
  BY <1>25 DEF Prompt, Recorded, Redraw
<1>26. CASE Quit
  BY <1>26 DEF Quit, Handle, Redraw, StopChild, others
<1>27. CASE StartMarker
  BY <1>27 DEF StartMarker, Handle, Redraw
<1>28. CASE ToggleTrace
  BY <1>28 DEF ToggleTrace, Handle, Redraw, Succeeds, EndOf, Seed, Fails
<1>29. CASE ToggleScript
  BY <1>29 DEF ToggleScript, Handle, Redraw, Succeeds, EndOf, Fails,
     WithPendingWait, Wait, ClearQuiet, Resized, PartialStart
<1>30. CASE Forward
  <2>1. todo[1].id \in Nat /\ Head(todo) = todo[1]
    BY <1>30, HeadItem DEF Forward
  <2>2. Append(inq, todo[1].id) \in Seq(Nat) /\ Len(Append(inq, todo[1].id)) = Len(inq) + 1
    BY <2>1
  <2>3. inq' \in Seq(Nat) /\ Len(inq') <= InCap
    <3>1. inq' = inq \/ (inq' = Append(inq, todo[1].id) /\ Len(inq) < InCap)
      BY <1>30, <2>1 DEF Forward
    <3>2. Len(inq) \in Nat /\ inq \in Seq(Nat) /\ Len(inq) <= InCap
      OBVIOUS
    <3>3. Len(inq) < InCap => Len(inq) + 1 <= InCap
      BY <3>2, Caps
    <3>. HIDE DEF KernelType
    <3>. QED
      BY <3>1, <3>2, <3>3, <2>2
  <2>. QED
    BY <1>30, <2>3 DEF Forward
<1>31. CASE RecordForwarded
  BY <1>31 DEF RecordForwarded, Forwards, RecordedInput, Recorded, Input,
     Scripted, Operation, ArmAfterAction
<1>32. CASE Handled
  BY <1>32 DEF Handled
<1>33. CASE LoopEnds
  BY <1>33 DEF LoopEnds
<1>34. CASE Finalize
  BY <1>34 DEF Finalize, WithPendingWait, Wait, ClearQuiet, Redraw,
     Recorded, Succeeds, EndOf, Fails, others
<1>35. CASE Return
  BY <1>35 DEF Return
<1>36. CASE UNCHANGED vars
  BY <1>36
<1>. QED
  BY <1>1, <1>2, <1>3, <1>4, <1>5, <1>6, <1>7, <1>8, <1>9, <1>10, <1>11,
     <1>12, <1>13, <1>14, <1>15, <1>16, <1>17, <1>18, <1>19, <1>20, <1>21,
     <1>22, <1>23, <1>24, <1>25, <1>26, <1>27, <1>28, <1>29, <1>30, <1>31,
     <1>32, <1>33, <1>34, <1>35, <1>36 DEF Next, Loop, Over

(* The channel never holds more than its capacity: readPTY, readStdin and   *)
(* watchResize wait for room, and the loop handles what it decoded before   *)
(* it takes more.                                                           *)
LEMMA QueueTypeStep ==
  ASSUME KernelType, QueueType, Phases, [Next]_vars
  PROVE  QueueType'
<1>. USE DEF QueueType, Phases, vars, kernel, runner, feeders, decoder,
            tracing, scripting, waits, screen, outcome, recorders
<1>1. CASE ChildWrites
  BY <1>1 DEF ChildWrites, twee
<1>2. CASE ChildReads
  BY <1>2 DEF ChildReads, twee
<1>3. CASE ChildExits
  BY <1>3 DEF ChildExits, twee
<1>4. CASE SlaveCloses
  BY <1>4 DEF SlaveCloses, twee
<1>5. CASE Cancel
  BY <1>5 DEF Cancel
<1>6. CASE KillByContext
  BY <1>6 DEF KillByContext, twee
<1>7. CASE PublishExit
  BY <1>7 DEF PublishExit
<1>8. CASE CloserKills
  BY <1>8 DEF CloserKills
<1>9. CASE CloserCloses
  BY <1>9 DEF CloserCloses
<1>10. CASE ReadChunk
  <2>1. Head(outq) \in Chunk /\ Head(outq).n \in Nat
    <3>1. Head(outq) \in Chunk
      BY <1>10, HeadTail DEF ReadChunk, KernelType
    <3>. QED
      BY <3>1 DEF Chunk
  <2>2. Output(Head(outq)) \in Event
    BY <2>1 DEF Output, Event
  <2>3. held' \in Seq(Event)
    BY <1>10, <2>2 DEF ReadChunk
  <2>. QED
    BY <1>10, <2>1, <2>3 DEF ReadChunk, loop
<1>11. CASE ReadEnd
  <2>1. [k |-> "done"] \in Event /\ [k |-> "fatal"] \in Event
    BY DEF Event
  <2>2. <<[k |-> "done"]>> \in Seq(Event) /\ <<[k |-> "fatal"], [k |-> "done"]>> \in Seq(Event)
    BY <2>1
  <2>3. held' \in {<<[k |-> "done"]>>, <<[k |-> "fatal"], [k |-> "done"]>>}
    BY <1>11, <2>1 DEF ReadEnd
  <2>. QED
    BY <1>11, <2>2, <2>3 DEF ReadEnd, loop
<1>12. CASE SendEvent
  <2>1. Head(held) \in Event /\ Tail(held) \in Seq(Event)
    BY <1>12, HeadTail DEF SendEvent, Sent
  <2>2. events' \in Seq(Event) /\ Len(events') = Len(events) + 1
    BY <1>12, <2>1 DEF SendEvent, Sent
  <2>3. Len(events') <= QueueCap
    BY <1>12, <2>2, Caps DEF SendEvent
  <2>. QED
    BY <1>12, <2>1, <2>2, <2>3 DEF SendEvent, Sent
<1>13. CASE HostResizes
  <2>1. [k |-> "resize"] \in Event
    BY DEF Event
  <2>2. events' \in Seq(Event) /\ Len(events') = Len(events) + 1
    BY <1>13, <2>1 DEF HostResizes
  <2>3. Len(events') <= QueueCap
    BY <1>13, <2>2, Caps DEF HostResizes
  <2>. QED
    BY <1>13, <2>2, <2>3 DEF HostResizes, loop
<1>14. CASE \E k \in env.kinds : Type(k)
  <2>1. PICK kind \in env.kinds : Type(kind)
    BY <1>14
  <2>2. [k |-> kind, id |-> typed + 1] \in Item
    BY <2>1, Bounds DEF Item
  <2>3. [k |-> "input", item |-> [k |-> kind, id |-> typed + 1]] \in Event
    BY <2>2 DEF Event
  <2>4. events' \in Seq(Event) /\ Len(events') = Len(events) + 1
    BY <2>1, <2>3 DEF Type
  <2>5. Len(events') <= QueueCap
    BY <2>1, <2>4, Caps DEF Type
  <2>. QED
    BY <2>1, <2>4, <2>5 DEF Type, loop
<1>15. CASE TakeOutput
  BY <1>15, TakeEvent, Caps DEF TakeOutput, RecordedOutput, ScheduleRedraw
<1>16. CASE WriteReply
  BY <1>16 DEF WriteReply, WriteFails, Fails, Recorded
<1>17. CASE TakeInput
  <2>1. events[1].item \in Item /\ Head(events) = events[1]
    <3>1. events[1] \in Event /\ events[1].k = "input" /\ Head(events) = events[1]
      BY <1>17, TakeEvent DEF TakeInput
    <3>. QED
      BY <3>1 DEF Event
  <2>2. events[1].item.id \in Nat
    BY <2>1 DEF Item
  <2>3. pendingEsc # 0 => [k |-> "esc", id |-> pendingEsc] \in Item
    BY DEF Item, AllKinds
  <2>4. Decoded(events[1].item) \in Seq(Item)
    BY <2>1, <2>3 DEF Decoded
  <2>5. todo' \in Seq(Item) /\ pendingEsc' \in Nat
    BY <1>17, <2>2, <2>4, TakeEvent DEF TakeInput
  <2>6. events' \in Seq(Event) /\ Len(events') <= QueueCap
    BY <1>17, TakeEvent, Caps DEF TakeInput
  <2>7. pc' = "handle" /\ escape' = FALSE /\ UNCHANGED <<feeders, marker>>
    BY <1>17, <2>1 DEF TakeInput
  <2>. QED
    BY <2>5, <2>6, <2>7
<1>18. CASE TakeResize
  BY <1>18, TakeEvent, Caps DEF TakeResize, Resized, Recorded,
     ArmAfterAction, Redraw, Fails, StopChild, others
<1>19. CASE TakeFatal
  BY <1>19, TakeEvent, Caps DEF TakeFatal, Fails, StopChild, others
<1>20. CASE TakeDone
  BY <1>20, TakeEvent, Caps DEF TakeDone, Redraw
<1>21. CASE RedrawFires
  BY <1>21 DEF RedrawFires, Redraw
<1>22. CASE QuietFires
  BY <1>22 DEF QuietFires, WithPendingWait, Wait, ClearQuiet
<1>23. CASE EscapeFires
  <2>1. pendingEsc' \in Nat /\ marker' \in {"off", "empty", "label"} /\ escape' = FALSE
    BY <1>23 DEF EscapeFires
  <2>. QED
    BY <1>23, <2>1 DEF EscapeFires
<1>24. CASE ContextDone
  BY <1>24 DEF ContextDone, StopChild, others
<1>25. CASE Prompt
  BY <1>25, HeadItem DEF Prompt, Recorded, Redraw
<1>26. CASE Quit
  BY <1>26, HeadItem DEF Quit, Handle, Redraw, StopChild, others
<1>27. CASE StartMarker
  BY <1>27, HeadItem DEF StartMarker, Handle, Redraw
<1>28. CASE ToggleTrace
  BY <1>28, HeadItem DEF ToggleTrace, Handle, Redraw, Succeeds, EndOf, Seed,
     Fails
<1>29. CASE ToggleScript
  BY <1>29, HeadItem DEF ToggleScript, Handle, Redraw, Succeeds, EndOf,
     Fails, WithPendingWait, Wait, ClearQuiet, Resized, PartialStart
<1>30. CASE Forward
  BY <1>30 DEF Forward, Forwards, WriteFails, Fails
<1>31. CASE RecordForwarded
  BY <1>31, HeadItem DEF RecordForwarded, Forwards, RecordedInput, Recorded,
     Input, Scripted, Operation, ArmAfterAction
<1>32. CASE Handled
  BY <1>32 DEF Handled
<1>33. CASE LoopEnds
  <2>1. pendingEsc # 0 => [k |-> "esc", id |-> pendingEsc] \in Item
    BY DEF Item, AllKinds
  <2>. QED
    BY <1>33, <2>1 DEF LoopEnds
<1>34. CASE Finalize
  BY <1>34 DEF Finalize, WithPendingWait, Wait, ClearQuiet, Redraw,
     Recorded, Succeeds, EndOf, Fails, others
<1>35. CASE Return
  BY <1>35 DEF Return
<1>36. CASE UNCHANGED vars
  BY <1>36
<1>. QED
  BY <1>1, <1>2, <1>3, <1>4, <1>5, <1>6, <1>7, <1>8, <1>9, <1>10, <1>11,
     <1>12, <1>13, <1>14, <1>15, <1>16, <1>17, <1>18, <1>19, <1>20, <1>21,
     <1>22, <1>23, <1>24, <1>25, <1>26, <1>27, <1>28, <1>29, <1>30, <1>31,
     <1>32, <1>33, <1>34, <1>35, <1>36 DEF Next, Loop, Over

(* What the trace recorder is given are entries.                            *)
LEMMA EntryTypes ==
  /\ [k |-> "reply"] \in Entry /\ [k |-> "resize"] \in Entry
  /\ [k |-> "marker"] \in Entry /\ [k |-> "exit"] \in Entry
  /\ \A i \in Nat : [k |-> "input", id |-> i] \in Entry
  /\ \A i, n \in Nat : [k |-> "seed", n |-> n, id |-> i] \in Entry
  /\ \A n \in Nat, s \in SUBSET Nat : [k |-> "output", n |-> n, seen |-> s] \in Entry
  BY DEF Entry

(* traceController appends an entry, or nothing.                            *)
LEMMA RecordedType ==
  ASSUME RecorderType, NEW e \in Entry
  PROVE  Recorded(e) \in Seq(Entry)
  BY DEF RecorderType, Recorded

(* The chunk at the head of the channel.                                    *)
LEMMA TakeChunk ==
  ASSUME QueueType, Take("output")
  PROVE  /\ Head(events) = events[1] /\ events[1].k = "output" /\ events[1].chunk \in Chunk
         /\ events[1].chunk.n \in Nat /\ events[1].chunk.seen \subseteq Nat
<1>1. events[1] \in Event /\ events[1].k = "output" /\ Head(events) = events[1]
  BY TakeEvent
<1>2. events[1].chunk \in Chunk
  BY <1>1 DEF Event
<1>. QED
  BY <1>1, <1>2 DEF Chunk

(* What the script recorder holds once a pending wait is written.           *)
LEMMA PendingWaitType ==
  ASSUME RecorderType, OutcomeType
  PROVE  WithPendingWait \in Seq(Op)
<1>1. Wait \in Op
  BY DEF Wait, Op, RecorderType, OutcomeType
<1>2. ops \in Seq(Op)
  BY DEF RecorderType
<1>. QED
  BY <1>1, <1>2 DEF WithPendingWait

(* The first operation of a script is the terminal's size.                  *)
LEMMA ResizedType ==
  ASSUME OutcomeType
  PROVE  Resized \in Op
  BY DEF Resized, Op, OutcomeType

(* A text that is joined changes the last operation's inputs only.          *)
LEMMA ScriptedType ==
  ASSUME RecorderType, OutcomeType, NEW item \in Item
  PROVE  Scripted(item) \in Seq(Op)
<1>1. ops \in Seq(Op) /\ item.id \in Nat /\ item.k \in AllKinds
  BY DEF RecorderType, Item
<1>2. Operation(item) \in Op
  BY <1>1 DEF Operation, Op, OutcomeType
<1>3. CASE ops # <<>> /\ Last(ops).k = "text"
  <2>1. Len(ops) \in 1..Len(ops) /\ ops[Len(ops)] \in Op /\ ops[Len(ops)].k = "text"
    BY <1>1, <1>3 DEF Last
  <2>2. ops[Len(ops)] \in [k : AllKinds \cup {"resize"}, ids : SUBSET Nat, fed : Nat]
    BY <2>1 DEF Op
  <2>3. [ops[Len(ops)] EXCEPT !.ids = @ \cup {item.id}] \in Op
    BY <1>1, <2>2 DEF Op
  <2>4. [ops EXCEPT ![Len(ops)].ids = @ \cup {item.id}] \in Seq(Op)
    BY <1>1, <2>1, <2>3
  <2>. QED
    BY <1>1, <1>2, <1>3, <2>4 DEF Scripted
<1>4. CASE ~(ops # <<>> /\ Last(ops).k = "text")
  BY <1>1, <1>2, <1>4 DEF Scripted
<1>. QED
  BY <1>3, <1>4

(* What the recorders hold are entries and operations, whoever wrote them.  *)
LEMMA RecorderTypeStep ==
  ASSUME Domains, Phases, [Next]_vars
  PROVE  RecorderType'
<1>. USE DEF Domains, RecorderType, vars, kernel, runner, feeders, decoder, tracing,
            scripting, waits, screen, outcome, recorders
<1>1. CASE ChildWrites
  BY <1>1 DEF ChildWrites, twee
<1>2. CASE ChildReads
  BY <1>2 DEF ChildReads, twee
<1>3. CASE ChildExits
  BY <1>3 DEF ChildExits, twee
<1>4. CASE SlaveCloses
  BY <1>4 DEF SlaveCloses, twee
<1>5. CASE Cancel
  BY <1>5 DEF Cancel
<1>6. CASE KillByContext
  BY <1>6 DEF KillByContext, twee
<1>7. CASE PublishExit
  BY <1>7 DEF PublishExit
<1>8. CASE CloserKills
  BY <1>8 DEF CloserKills
<1>9. CASE CloserCloses
  BY <1>9 DEF CloserCloses
<1>10. CASE ReadChunk
  BY <1>10 DEF ReadChunk, Output, loop
<1>11. CASE ReadEnd
  BY <1>11 DEF ReadEnd, loop
<1>12. CASE SendEvent
  BY <1>12 DEF SendEvent, Sent
<1>13. CASE HostResizes
  BY <1>13 DEF HostResizes, loop
<1>14. CASE \E k \in env.kinds : Type(k)
  BY <1>14 DEF Type, loop
<1>15. CASE TakeOutput
  <2>1. [k |-> "output", n |-> events[1].chunk.n, seen |-> events[1].chunk.seen] \in Entry
    BY <1>15, TakeChunk, EntryTypes DEF TakeOutput, Domains
  <2>2. log' \in Seq(Entry)
    BY <1>15, <2>1, TakeChunk DEF TakeOutput, RecordedOutput, Domains
  <2>3. UNCHANGED <<trace, script, ops, startedAt, partial, acted>>
    BY <1>15 DEF TakeOutput
  <2>. QED
    BY <1>15, <2>2, <2>3 DEF TakeOutput
<1>16. CASE WriteReply
  BY <1>16, EntryTypes, RecordedType DEF WriteReply
<1>17. CASE TakeInput
  BY <1>17 DEF TakeInput, Decoded
<1>18. CASE TakeResize
  <2>1. log' \in Seq(Entry) /\ ops' \in Seq(Op)
    <3>1. Recorded([k |-> "resize"]) \in Seq(Entry) /\ Append(ops, Resized) \in Seq(Op)
      BY EntryTypes, RecordedType, ResizedType
    <3>. QED
      BY <1>18, <3>1 DEF TakeResize
  <2>2. waiting' \in BOOLEAN /\ outputSince' \in BOOLEAN /\ quiet' \in BOOLEAN /\ acted' \in Nat
    BY <1>18 DEF TakeResize, ArmAfterAction, Domains, OutcomeType
  <2>. QED
    BY <1>18, <2>1, <2>2 DEF TakeResize
<1>19. CASE TakeFatal
  BY <1>19 DEF TakeFatal, Fails, StopChild, others
<1>20. CASE TakeDone
  BY <1>20 DEF TakeDone, Redraw
<1>21. CASE RedrawFires
  BY <1>21 DEF RedrawFires, Redraw
<1>22. CASE QuietFires
  BY <1>22, PendingWaitType DEF QuietFires, ClearQuiet, Domains
<1>23. CASE EscapeFires
  BY <1>23 DEF EscapeFires, Redraw
<1>24. CASE ContextDone
  BY <1>24 DEF ContextDone, StopChild, others
<1>25. CASE Prompt
  BY <1>25, EntryTypes, RecordedType DEF Prompt
<1>26. CASE Quit
  BY <1>26, HeadItem DEF Quit, Handle, Redraw, StopChild, others
<1>27. CASE StartMarker
  BY <1>27, HeadItem DEF StartMarker, Handle, Redraw
<1>28. CASE ToggleTrace
  <2>1. Seed(Head(todo).id) \in Entry /\ lastRead \in Nat
    BY <1>28, HeadItem, EntryTypes DEF ToggleTrace, Handle, Seed, Domains, OutcomeType,
         QueueType
  <2>2. PICK ok \in Succeeds :
          IF opts.whole THEN UNCHANGED <<tracing, runErr>>
          ELSE /\ trace' = CASE trace = "idle"      -> IF ok THEN "recording" ELSE "failed"
                             [] trace = "recording" -> EndOf(ok)
                             [] OTHER -> trace
               /\ log' = IF trace' = "recording" THEN <<Seed(Head(todo).id)>> ELSE log
               /\ startedAt' = IF trace' = "recording" THEN lastRead ELSE startedAt
    BY <1>28 DEF ToggleTrace
  <2>3. trace' \in {"idle", "recording", "finalized", "failed"}
    BY <2>2 DEF EndOf
  <2>4. log' \in Seq(Entry) /\ startedAt' \in Nat
    <3>1. <<Seed(Head(todo).id)>> \in Seq(Entry)
      BY <2>1
    <3>. QED
      BY <2>1, <2>2, <3>1
  <2>. QED
    BY <1>28, <2>3, <2>4 DEF ToggleTrace
<1>29. CASE ToggleScript
  <2>1. script' \in {"idle", "recording", "finalized", "failed"}
    BY <1>29 DEF ToggleScript, EndOf
  <2>2. ops' \in Seq(Op)
    <3>1. <<Resized>> \in Seq(Op) /\ WithPendingWait \in Seq(Op) /\ ops \in Seq(Op)
      BY PendingWaitType, ResizedType
    <3>. QED
      BY <1>29, <3>1 DEF ToggleScript
  <2>3. waiting' \in BOOLEAN /\ outputSince' \in BOOLEAN /\ quiet' \in BOOLEAN /\ acted' \in Nat
    BY <1>29 DEF ToggleScript, ClearQuiet
  <2>4. partial' \in BOOLEAN /\ UNCHANGED <<tracing, active>>
    BY <1>29 DEF ToggleScript, PartialStart
  <2>. QED
    BY <2>1, <2>2, <2>3, <2>4
<1>30. CASE Forward
  BY <1>30 DEF Forward, Forwards, WriteFails, Fails
<1>31. CASE RecordForwarded
  <2>1. Head(todo) \in Item /\ Head(todo).id \in Nat
    BY <1>31, HeadItem DEF RecordForwarded, Domains, Phases
  <2>2. log' \in Seq(Entry)
    BY <1>31, <2>1, EntryTypes, RecordedType DEF RecordForwarded, RecordedInput, Input
  <2>3. ops' \in Seq(Op)
    BY <1>31, <2>1, ScriptedType DEF RecordForwarded, Domains
  <2>4. waiting' \in BOOLEAN /\ outputSince' \in BOOLEAN /\ quiet' \in BOOLEAN /\ acted' \in Nat
    BY <1>31 DEF RecordForwarded, ArmAfterAction, Domains, OutcomeType
  <2>. QED
    BY <1>31, <2>2, <2>3, <2>4 DEF RecordForwarded
<1>32. CASE Handled
  BY <1>32 DEF Handled
<1>33. CASE LoopEnds
  BY <1>33 DEF LoopEnds
<1>34. CASE Finalize
  <2>1. log' \in Seq(Entry) /\ ops' \in Seq(Op)
    BY <1>34, EntryTypes, RecordedType, PendingWaitType DEF Finalize, Domains
  <2>2. /\ trace' \in {"idle", "recording", "finalized", "failed"}
        /\ script' \in {"idle", "recording", "finalized", "failed"}
    BY <1>34 DEF Finalize, EndOf
  <2>. QED
    BY <1>34, <2>1, <2>2 DEF Finalize, ClearQuiet
<1>35. CASE Return
  BY <1>35 DEF Return
<1>36. CASE UNCHANGED vars
  BY <1>36
<1>. QED
  BY <1>1, <1>2, <1>3, <1>4, <1>5, <1>6, <1>7, <1>8, <1>9, <1>10, <1>11,
     <1>12, <1>13, <1>14, <1>15, <1>16, <1>17, <1>18, <1>19, <1>20, <1>21,
     <1>22, <1>23, <1>24, <1>25, <1>26, <1>27, <1>28, <1>29, <1>30, <1>31,
     <1>32, <1>33, <1>34, <1>35, <1>36 DEF Next, Loop, Over

(* An error, once noted, is one that Run can return.                        *)
LEMMA OutcomeTypeStep ==
  ASSUME Domains, Phases, [Next]_vars
  PROVE  OutcomeType'
<1>. USE DEF Domains, OutcomeType, vars, kernel, runner, feeders, decoder, tracing,
            scripting, waits, screen, outcome, recorders
<1>1. CASE ChildWrites
  BY <1>1 DEF ChildWrites, twee
<1>2. CASE ChildReads
  BY <1>2 DEF ChildReads, twee
<1>3. CASE ChildExits
  BY <1>3 DEF ChildExits, twee
<1>4. CASE SlaveCloses
  BY <1>4 DEF SlaveCloses, twee
<1>5. CASE Cancel
  BY <1>5 DEF Cancel
<1>6. CASE KillByContext
  BY <1>6 DEF KillByContext, twee
<1>7. CASE PublishExit
  BY <1>7 DEF PublishExit
<1>8. CASE CloserKills
  BY <1>8 DEF CloserKills
<1>9. CASE CloserCloses
  BY <1>9 DEF CloserCloses
<1>10. CASE ReadChunk
  BY <1>10 DEF ReadChunk, Output, loop
<1>11. CASE ReadEnd
  BY <1>11 DEF ReadEnd, loop
<1>12. CASE SendEvent
  BY <1>12 DEF SendEvent, Sent
<1>13. CASE HostResizes
  BY <1>13 DEF HostResizes, loop
<1>14. CASE \E k \in env.kinds : Type(k)
  BY <1>14 DEF Type, loop
<1>15. CASE TakeOutput
  <2>1. fed' \in Nat
    BY <1>15, TakeChunk DEF TakeOutput, Domains
  <2>2. shown' \in Nat /\ redraw' \in BOOLEAN
    BY <1>15, <2>1 DEF TakeOutput, ScheduleRedraw, Domains
  <2>. QED
    BY <1>15, <2>1, <2>2 DEF TakeOutput, Domains
<1>16. CASE WriteReply
  BY <1>16 DEF WriteReply, WriteFails, Fails, Recorded
<1>17. CASE TakeInput
  BY <1>17 DEF TakeInput, Decoded
<1>18. CASE TakeResize
  BY <1>18 DEF TakeResize, Resized, Recorded, ArmAfterAction, Redraw, Fails,
     StopChild, others
<1>19. CASE TakeFatal
  BY <1>19 DEF TakeFatal, Fails, StopChild, others
<1>20. CASE TakeDone
  BY <1>20 DEF TakeDone, Redraw
<1>21. CASE RedrawFires
  BY <1>21 DEF RedrawFires, Redraw
<1>22. CASE QuietFires
  BY <1>22 DEF QuietFires, WithPendingWait, Wait, ClearQuiet
<1>23. CASE EscapeFires
  BY <1>23 DEF EscapeFires, Redraw
<1>24. CASE ContextDone
  BY <1>24 DEF ContextDone, StopChild, others
<1>25. CASE Prompt
  BY <1>25 DEF Prompt, Recorded, Redraw
<1>26. CASE Quit
  BY <1>26, HeadItem DEF Quit, Handle, Redraw, StopChild, others
<1>27. CASE StartMarker
  BY <1>27, HeadItem DEF StartMarker, Handle, Redraw
<1>28. CASE ToggleTrace
  BY <1>28, HeadItem DEF ToggleTrace, Handle, Redraw, Succeeds, EndOf, Seed,
     Fails
<1>29. CASE ToggleScript
  BY <1>29, HeadItem DEF ToggleScript, Handle, Redraw, Succeeds, EndOf,
     Fails, WithPendingWait, Wait, ClearQuiet, Resized, PartialStart
<1>30. CASE Forward
  <2>1. Head(todo) \in Item
    BY <1>30, HeadItem DEF Forward, Domains
  <2>2. given' \subseteq Item
    BY <1>30, <2>1 DEF Forward, Domains
  <2>. QED
    BY <1>30, <2>2 DEF Forward, Fails, Domains
<1>31. CASE RecordForwarded
  BY <1>31, HeadItem DEF RecordForwarded, Forwards, RecordedInput, Recorded,
     Input, Scripted, Operation, ArmAfterAction
<1>32. CASE Handled
  BY <1>32 DEF Handled
<1>33. CASE LoopEnds
  BY <1>33 DEF LoopEnds
<1>34. CASE Finalize
  BY <1>34 DEF Finalize, WithPendingWait, Wait, ClearQuiet, Redraw,
     Recorded, Succeeds, EndOf, Fails, others
<1>35. CASE Return
  BY <1>35 DEF Return
<1>36. CASE UNCHANGED vars
  BY <1>36
<1>. QED
  BY <1>1, <1>2, <1>3, <1>4, <1>5, <1>6, <1>7, <1>8, <1>9, <1>10, <1>11,
     <1>12, <1>13, <1>14, <1>15, <1>16, <1>17, <1>18, <1>19, <1>20, <1>21,
     <1>22, <1>23, <1>24, <1>25, <1>26, <1>27, <1>28, <1>29, <1>30, <1>31,
     <1>32, <1>33, <1>34, <1>35, <1>36 DEF Next, Loop, Over

-----------------------------------------------------------------------------
(* Inputs, from the terminal to the child.                                  *)

(* A decoder flushes at most one escape byte before an input.               *)
LEMMA Pair ==
  ASSUME NEW a, NEW b
  PROVE  Len(<<a>> \o <<b>>) = 2 /\ (<<a>> \o <<b>>)[1] = a /\ (<<a>> \o <<b>>)[2] = b
  OBVIOUS

(* What an event sent to the channel changes in it.                         *)
LEMMA AppendEvent ==
  ASSUME QueueType, NEW e \in Event, events' = Append(events, e)
  PROVE  /\ Len(events) \in Nat /\ Len(events') = Len(events) + 1
         /\ \A i \in 1..Len(events) : events'[i] = events[i]
         /\ events'[Len(events')] = e
  BY DEF QueueType

(* The reader's next event.                                                 *)
LEMMA HeldEvent ==
  ASSUME QueueType, OutputOrder, EndOrder, held # <<>>
  PROVE  /\ held[1] \in Event /\ Head(held) = held[1] /\ Len(held) \in Nat \ {0}
         /\ Tail(held) \in Seq(Event) /\ Len(Tail(held)) = Len(held) - 1
         /\ \A i \in 1..Len(Tail(held)) : Tail(held)[i] = held[i + 1] /\ i + 1 \in 1..Len(held)
         /\ \/ reader = "send" /\ Len(held) = 1 /\ held[1].k = "output"
            \/ reader = "last" /\ Len(held) = 1 /\ held[1].k = "done"
            \/ reader = "last" /\ Len(held) = 2 /\ held[1].k = "fatal" /\ held[2].k = "done"
<1>1. held \in Seq(Event) /\ reader \in {"send", "last"}
  BY DEF QueueType, OutputOrder
<1>2. /\ held[1] \in Event /\ Head(held) = held[1] /\ Len(held) \in Nat \ {0}
      /\ Tail(held) \in Seq(Event) /\ Len(Tail(held)) = Len(held) - 1
      /\ \A i \in 1..Len(Tail(held)) : Tail(held)[i] = held[i + 1] /\ i + 1 \in 1..Len(held)
  BY <1>1, HeadTail
<1>3. \/ reader = "send" /\ Len(held) = 1 /\ held[1].k = "output"
      \/ reader = "last" /\ Len(held) = 1 /\ held[1].k = "done"
      \/ reader = "last" /\ Len(held) = 2 /\ held[1].k = "fatal" /\ held[2].k = "done"
  BY <1>1 DEF OutputOrder, EndOrder
<1>. QED
  BY <1>2, <1>3

(* What the decoder makes of an input: the escape byte that was pending, if *)
(* there was one, and then the input, unless it is an escape byte itself.   *)
LEMMA DecodedInput ==
  ASSUME QueueType, TakeInput
  PROVE  /\ events[1].item \in Item /\ events[1].item.id \in Nat \ {0}
         /\ Len(todo') \in 0..2
         /\ \A i \in 1..Len(todo') :
              \/ i = 1 /\ pendingEsc # 0 /\ todo'[i].id = pendingEsc
              \/ i = Len(todo') /\ todo'[i] = events[1].item /\ events[1].item.k # "esc"
         /\ pendingEsc' = IF events[1].item.k = "esc" THEN events[1].item.id ELSE 0
<1>1. Take("input") /\ Head(events) = events[1] /\ events[1] \in Event /\ events[1].k = "input"
  BY TakeEvent DEF TakeInput
<1>2. events[1].item \in Item
  BY <1>1 DEF Event
<1>3. events[1].item.id \in Nat \ {0}
  BY <1>2 DEF Item
<1>4. todo' = Decoded(events[1].item)
  BY <1>1 DEF TakeInput
<1>5. pendingEsc' = IF events[1].item.k = "esc" THEN events[1].item.id ELSE 0
  BY <1>1 DEF TakeInput
<1>6. CASE pendingEsc # 0 /\ events[1].item.k = "esc"
  <2>1. todo' = <<[k |-> "esc", id |-> pendingEsc]>>
    BY <1>4, <1>6 DEF Decoded
  <2>. QED
    BY <1>2, <1>3, <1>5, <1>6, <2>1
<1>7. CASE pendingEsc # 0 /\ events[1].item.k # "esc"
  <2>1. todo' = <<[k |-> "esc", id |-> pendingEsc]>> \o <<events[1].item>>
    BY <1>4, <1>7 DEF Decoded
  <2>2. Len(todo') = 2 /\ todo'[1] = [k |-> "esc", id |-> pendingEsc] /\ todo'[2] = events[1].item
    BY <2>1, Pair
  <2>. QED
    BY <1>2, <1>3, <1>5, <1>7, <2>2
<1>8. CASE pendingEsc = 0 /\ events[1].item.k = "esc"
  <2>1. todo' = <<>>
    BY <1>4, <1>8 DEF Decoded
  <2>. QED
    BY <1>2, <1>3, <1>5, <2>1
<1>9. CASE pendingEsc = 0 /\ events[1].item.k # "esc"
  <2>1. todo' = <<events[1].item>>
    BY <1>4, <1>9 DEF Decoded
  <2>. QED
    BY <1>2, <1>3, <1>5, <1>9, <2>1
<1>. QED
  BY <1>6, <1>7, <1>8, <1>9

(* The numbers of the inputs are numbers.                                   *)
LEMMA IdTypes ==
  ASSUME KernelType, QueueType
  PROVE  /\ \A i \in 1..Len(todo) : todo[i].id \in Nat
         /\ \A i \in 1..Len(events) : events[i].k = "input" => events[i].item.id \in Nat
         /\ typed \in Nat /\ pendingEsc \in Nat /\ env.typed \in Nat
<1>1. \A i \in 1..Len(todo) : todo[i] \in Item
  BY DEF QueueType
<1>2. \A i \in 1..Len(events) : events[i] \in Event
  BY DEF QueueType
<1>3. \A i \in 1..Len(events) : events[i].k = "input" => events[i].item \in Item
  BY <1>2 DEF Event
<1>. QED
  BY <1>1, <1>3, Bounds DEF Item, QueueType

(* Handling an input leaves the others in order.                            *)
LEMMA TodoShift ==
  ASSUME KernelType, QueueType, TodoOrder, todo # <<>>, todo' = Tail(todo), UNCHANGED <<typed, pendingEsc>>
  PROVE  TodoOrder'
<1>1. /\ Len(todo) \in Nat \ {0} /\ Len(todo') = Len(todo) - 1
      /\ \A i \in 1..Len(todo') : todo'[i] = todo[i + 1] /\ i + 1 \in 1..Len(todo)
  BY HeadItem
<1>2. SUFFICES ASSUME NEW i \in 1..Len(todo')
               PROVE  /\ todo'[i].id <= typed'
                      /\ pendingEsc' # 0 => todo'[i].id < pendingEsc'
                      /\ \A j \in 1..Len(todo') : i < j => todo'[i].id < todo'[j].id
  BY DEF TodoOrder
<1>3. todo'[i].id <= typed' /\ (pendingEsc' # 0 => todo'[i].id < pendingEsc')
  BY <1>1 DEF TodoOrder
<1>4. ASSUME NEW j \in 1..Len(todo'), i < j
      PROVE  todo'[i].id < todo'[j].id
  <2>1. i + 1 \in 1..Len(todo) /\ j + 1 \in 1..Len(todo) /\ i + 1 < j + 1
    BY <1>1, <1>4
  <2>. QED
    BY <1>1, <2>1 DEF TodoOrder
<1>. QED
  BY <1>3, <1>4

(* Taking an event that leaves the decoder alone keeps the queue in order.  *)
LEMMA QueueShift ==
  ASSUME QueueType, QueueOrder, NEW k, Take(k), UNCHANGED <<env, todo, typed, pendingEsc>>
  PROVE  QueueOrder'
<1>1. /\ Len(events) \in Nat \ {0} /\ Len(events') = Len(events) - 1
      /\ \A i \in 1..Len(events') : events'[i] = events[i + 1] /\ i + 1 \in 1..Len(events)
  BY TakeEvent
<1>2. SUFFICES ASSUME NEW i \in 1..Len(events'), IsInput(i)'
               PROVE  /\ pendingEsc < events'[i].item.id /\ events'[i].item.id <= typed
                      /\ \A j \in 1..Len(todo) : todo[j].id < events'[i].item.id
                      /\ \A j \in 1..Len(events') :
                           IsInput(j)' /\ i < j => events'[i].item.id < events'[j].item.id
  BY DEF QueueOrder
<1>3. IsInput(i + 1) /\ i + 1 \in 1..Len(events) /\ events'[i] = events[i + 1]
  BY <1>1, <1>2 DEF IsInput
<1>4. /\ pendingEsc < events'[i].item.id /\ events'[i].item.id <= typed
      /\ \A j \in 1..Len(todo) : todo[j].id < events'[i].item.id
  BY <1>3 DEF QueueOrder
<1>5. ASSUME NEW j \in 1..Len(events'), IsInput(j)', i < j
      PROVE  events'[i].item.id < events'[j].item.id
  <2>1. IsInput(j + 1) /\ j + 1 \in 1..Len(events) /\ events'[j] = events[j + 1] /\ i + 1 < j + 1
    BY <1>1, <1>5 DEF IsInput
  <2>. QED
    BY <1>3, <2>1 DEF QueueOrder
<1>. QED
  BY <1>4, <1>5

(* The loop only leaves an iteration when everything it decoded was         *)
(* handled.                                                                 *)
LEMMA PhasesStep ==
  ASSUME Domains, Phases, [Next]_vars
  PROVE  Phases'
<1>. USE DEF Domains, Phases, vars, kernel, runner, feeders, decoder,
            tracing, scripting, waits, screen, outcome, recorders
<1>1. CASE ChildWrites
  BY <1>1 DEF ChildWrites, twee
<1>2. CASE ChildReads
  BY <1>2 DEF ChildReads, twee
<1>3. CASE ChildExits
  BY <1>3 DEF ChildExits, twee
<1>4. CASE SlaveCloses
  BY <1>4 DEF SlaveCloses, twee
<1>5. CASE Cancel
  BY <1>5 DEF Cancel
<1>6. CASE KillByContext
  BY <1>6 DEF KillByContext, twee
<1>7. CASE PublishExit
  BY <1>7 DEF PublishExit
<1>8. CASE CloserKills
  BY <1>8 DEF CloserKills
<1>9. CASE CloserCloses
  BY <1>9 DEF CloserCloses
<1>10. CASE ReadChunk
  BY <1>10 DEF ReadChunk, Output, loop
<1>11. CASE ReadEnd
  BY <1>11 DEF ReadEnd, loop
<1>12. CASE SendEvent
  BY <1>12 DEF SendEvent, Sent
<1>13. CASE HostResizes
  BY <1>13 DEF HostResizes, loop
<1>14. CASE \E k \in env.kinds : Type(k)
  BY <1>14 DEF Type, loop
<1>15. CASE TakeOutput
  BY <1>15, TakeEvent DEF TakeOutput, RecordedOutput, ScheduleRedraw
<1>16. CASE WriteReply
  BY <1>16 DEF WriteReply, WriteFails, Fails, Recorded
<1>17. CASE TakeInput
  BY <1>17, TakeEvent DEF TakeInput, Decoded
<1>18. CASE TakeResize
  BY <1>18, TakeEvent DEF TakeResize, Resized, Recorded, ArmAfterAction,
     Redraw, Fails, StopChild, others
<1>19. CASE TakeFatal
  BY <1>19, TakeEvent DEF TakeFatal, Fails, StopChild, others
<1>20. CASE TakeDone
  BY <1>20, TakeEvent DEF TakeDone, Redraw
<1>21. CASE RedrawFires
  BY <1>21 DEF RedrawFires, Redraw
<1>22. CASE QuietFires
  BY <1>22 DEF QuietFires, WithPendingWait, Wait, ClearQuiet
<1>23. CASE EscapeFires
  BY <1>23 DEF EscapeFires, Redraw
<1>24. CASE ContextDone
  BY <1>24 DEF ContextDone, StopChild, others
<1>25. CASE Prompt
  BY <1>25 DEF Prompt, Recorded, Redraw
<1>26. CASE Quit
  BY <1>26 DEF Quit, Handle, Redraw, StopChild, others
<1>27. CASE StartMarker
  BY <1>27 DEF StartMarker, Handle, Redraw
<1>28. CASE ToggleTrace
  BY <1>28 DEF ToggleTrace, Handle, Redraw, Succeeds, EndOf, Seed, Fails
<1>29. CASE ToggleScript
  BY <1>29 DEF ToggleScript, Handle, Redraw, Succeeds, EndOf, Fails,
     WithPendingWait, Wait, ClearQuiet, Resized, PartialStart
<1>30. CASE Forward
  BY <1>30 DEF Forward, Forwards, WriteFails, Fails
<1>31. CASE RecordForwarded
  BY <1>31 DEF RecordForwarded, Forwards, RecordedInput, Recorded, Input,
     Scripted, Operation, ArmAfterAction
<1>32. CASE Handled
  BY <1>32 DEF Handled
<1>33. CASE LoopEnds
  BY <1>33 DEF LoopEnds
<1>34. CASE Finalize
  BY <1>34 DEF Finalize, WithPendingWait, Wait, ClearQuiet, Redraw,
     Recorded, Succeeds, EndOf, Fails, others
<1>35. CASE Return
  BY <1>35 DEF Return
<1>36. CASE UNCHANGED vars
  BY <1>36
<1>. QED
  BY <1>1, <1>2, <1>3, <1>4, <1>5, <1>6, <1>7, <1>8, <1>9, <1>10, <1>11,
     <1>12, <1>13, <1>14, <1>15, <1>16, <1>17, <1>18, <1>19, <1>20, <1>21,
     <1>22, <1>23, <1>24, <1>25, <1>26, <1>27, <1>28, <1>29, <1>30, <1>31,
     <1>32, <1>33, <1>34, <1>35, <1>36 DEF Next, Loop, Over

(* An input that is past stays past: whatever is typed later has a later    *)
(* number, and no goroutine puts an input back.                             *)
LEMMA AheadStep ==
  ASSUME Domains, Phases, OutputOrder, EndOrder, NEW n \in Nat, Ahead(n), [Next]_vars
  PROVE  Ahead(n)'
<1>. USE DEF Domains, Ahead, IsInput, vars, kernel, runner, feeders,
            decoder, tracing, scripting, waits, screen, outcome, recorders
<1>1. CASE ChildWrites
  BY <1>1 DEF ChildWrites, twee
<1>2. CASE ChildReads
  BY <1>2 DEF ChildReads, twee
<1>3. CASE ChildExits
  BY <1>3 DEF ChildExits, twee
<1>4. CASE SlaveCloses
  BY <1>4 DEF SlaveCloses, twee
<1>5. CASE Cancel
  BY <1>5 DEF Cancel
<1>6. CASE KillByContext
  BY <1>6 DEF KillByContext, twee
<1>7. CASE PublishExit
  BY <1>7 DEF PublishExit
<1>8. CASE CloserKills
  BY <1>8 DEF CloserKills
<1>9. CASE CloserCloses
  BY <1>9 DEF CloserCloses
<1>10. CASE ReadChunk
  BY <1>10 DEF ReadChunk, Output, loop
<1>11. CASE ReadEnd
  BY <1>11 DEF ReadEnd, loop
<1>12. CASE SendEvent
  <2>1. held # <<>> /\ held[1] \in Event /\ ~(held[1].k = "input") /\ events' = Append(events, held[1])
    BY <1>12, HeldEvent DEF SendEvent, Sent
  <2>2. UNCHANGED <<typed, todo, pendingEsc, env>>
    BY <1>12 DEF SendEvent, Sent
  <2>. QED
    BY <2>1, <2>2, AppendEvent
<1>13. CASE HostResizes
  <2>1. [k |-> "resize"] \in Event
    BY DEF Event
  <2>. QED
    BY <1>13, <2>1, AppendEvent DEF HostResizes, loop
<1>14. CASE \E k \in env.kinds : Type(k)
  <2>1. PICK kind \in env.kinds : Type(kind)
    BY <1>14
  <2> DEFINE e == [k |-> "input", item |-> [k |-> kind, id |-> typed + 1]]
  <2>2. [k |-> kind, id |-> typed + 1] \in Item
    BY <2>1, Bounds DEF Item, QueueType
  <2>3. e \in Event /\ e.k = "input" /\ e.item.id = typed + 1
    BY <2>2 DEF Event
  <2>4. events' = Append(events, e) /\ typed' = typed + 1 /\ typed < env.typed
    BY <2>1 DEF Type
  <2>5. UNCHANGED <<todo, pendingEsc, env>>
    BY <2>1 DEF Type, loop
  <2>6. typed \in Nat /\ pendingEsc \in Nat /\ env.typed \in Nat
    BY Bounds DEF QueueType
  <2>. HIDE DEF e
  <2>7. /\ Len(events) \in Nat /\ Len(events') = Len(events) + 1
        /\ \A i \in 1..Len(events) : events'[i] = events[i]
        /\ events'[Len(events')] = e
    BY <2>3, <2>4, AppendEvent
  <2>. QED
    BY <2>3, <2>4, <2>5, <2>6, <2>7
<1>15. CASE TakeOutput
  BY <1>15, TakeEvent DEF TakeOutput, RecordedOutput, ScheduleRedraw
<1>16. CASE WriteReply
  BY <1>16 DEF WriteReply, WriteFails, Fails, Recorded
<1>17. CASE TakeInput
  <2>1. /\ Len(events) \in Nat \ {0} /\ events[1].k = "input" /\ Len(events') = Len(events) - 1
        /\ \A i \in 1..Len(events') : events'[i] = events[i + 1] /\ i + 1 \in 1..Len(events)
    BY <1>17, TakeEvent DEF TakeInput
  <2>2. typed' = typed /\ env' = env /\ typed \in Nat /\ pendingEsc \in Nat
    BY <1>17 DEF TakeInput, QueueType
  <2>3. /\ events[1].item.id \in Nat \ {0} /\ Len(todo') \in 0..2
        /\ \A i \in 1..Len(todo') :
             \/ i = 1 /\ pendingEsc # 0 /\ todo'[i].id = pendingEsc
             \/ i = Len(todo') /\ todo'[i] = events[1].item /\ events[1].item.k # "esc"
        /\ pendingEsc' = IF events[1].item.k = "esc" THEN events[1].item.id ELSE 0
    BY <1>17, DecodedInput
  <2>4. n < events[1].item.id /\ events[1].item.id \in Nat
    BY <2>1, <2>3
  <2>5. \A i \in 1..Len(todo') : n < todo'[i].id
    BY <2>2, <2>3, <2>4
  <2>6. \A i \in 1..Len(events') : IsInput(i)' => n < events'[i].item.id
    BY <2>1
  <2>. QED
    BY <2>2, <2>3, <2>4, <2>5, <2>6
<1>18. CASE TakeResize
  BY <1>18, TakeEvent DEF TakeResize, Resized, Recorded, ArmAfterAction,
     Redraw, Fails, StopChild, others
<1>19. CASE TakeFatal
  BY <1>19, TakeEvent DEF TakeFatal, Fails, StopChild, others
<1>20. CASE TakeDone
  BY <1>20, TakeEvent DEF TakeDone, Redraw
<1>21. CASE RedrawFires
  BY <1>21 DEF RedrawFires, Redraw
<1>22. CASE QuietFires
  BY <1>22 DEF QuietFires, WithPendingWait, Wait, ClearQuiet
<1>23. CASE EscapeFires
  BY <1>23, IdTypes DEF EscapeFires, Redraw
<1>24. CASE ContextDone
  BY <1>24 DEF ContextDone, StopChild, others
<1>25. CASE Prompt
  BY <1>25, HeadItem DEF Prompt, Recorded, Redraw
<1>26. CASE Quit
  BY <1>26, HeadItem DEF Quit, Handle, Redraw, StopChild, others
<1>27. CASE StartMarker
  BY <1>27, HeadItem DEF StartMarker, Handle, Redraw
<1>28. CASE ToggleTrace
  BY <1>28, HeadItem DEF ToggleTrace, Handle, Redraw, Succeeds, EndOf, Seed,
     Fails
<1>29. CASE ToggleScript
  BY <1>29, HeadItem DEF ToggleScript, Handle, Redraw, Succeeds, EndOf,
     Fails, WithPendingWait, Wait, ClearQuiet, Resized, PartialStart
<1>30. CASE Forward
  BY <1>30 DEF Forward, Forwards, WriteFails, Fails
<1>31. CASE RecordForwarded
  BY <1>31, HeadItem DEF RecordForwarded, Forwards, RecordedInput, Recorded,
     Input, Scripted, Operation, ArmAfterAction
<1>32. CASE Handled
  BY <1>32 DEF Handled
<1>33. CASE LoopEnds
  BY <1>33, IdTypes DEF LoopEnds, QueueType, Phases
<1>34. CASE Finalize
  BY <1>34 DEF Finalize, WithPendingWait, Wait, ClearQuiet, Redraw,
     Recorded, Succeeds, EndOf, Fails, others
<1>35. CASE Return
  BY <1>35 DEF Return
<1>36. CASE UNCHANGED vars
  BY <1>36
<1>. QED
  BY <1>1, <1>2, <1>3, <1>4, <1>5, <1>6, <1>7, <1>8, <1>9, <1>10, <1>11,
     <1>12, <1>13, <1>14, <1>15, <1>16, <1>17, <1>18, <1>19, <1>20, <1>21,
     <1>22, <1>23, <1>24, <1>25, <1>26, <1>27, <1>28, <1>29, <1>30, <1>31,
     <1>32, <1>33, <1>34, <1>35, <1>36 DEF Next, Loop, Over

(* decoder.Decode and Flush give the escape byte before what came after     *)
(* it, so the loop handles inputs in the order they were typed in.          *)
LEMMA TodoOrderStep ==
  ASSUME Domains, Phases, OutputOrder, EndOrder, InputOrder, [Next]_vars
  PROVE  TodoOrder'
<1>. USE DEF Domains, TodoOrder, QueueOrder, InputOrder, IsInput, vars,
            kernel, runner, feeders, decoder, tracing, scripting, waits,
            screen, outcome, recorders
<1>1. CASE ChildWrites
  BY <1>1 DEF ChildWrites, twee
<1>2. CASE ChildReads
  BY <1>2 DEF ChildReads, twee
<1>3. CASE ChildExits
  BY <1>3 DEF ChildExits, twee
<1>4. CASE SlaveCloses
  BY <1>4 DEF SlaveCloses, twee
<1>5. CASE Cancel
  BY <1>5 DEF Cancel
<1>6. CASE KillByContext
  BY <1>6 DEF KillByContext, twee
<1>7. CASE PublishExit
  BY <1>7 DEF PublishExit
<1>8. CASE CloserKills
  BY <1>8 DEF CloserKills
<1>9. CASE CloserCloses
  BY <1>9 DEF CloserCloses
<1>10. CASE ReadChunk
  BY <1>10 DEF ReadChunk, Output, loop
<1>11. CASE ReadEnd
  BY <1>11 DEF ReadEnd, loop
<1>12. CASE SendEvent
  <2>1. held # <<>> /\ held[1] \in Event /\ ~(held[1].k = "input") /\ events' = Append(events, held[1])
    BY <1>12, HeldEvent DEF SendEvent, Sent
  <2>2. UNCHANGED <<typed, todo, pendingEsc, env>>
    BY <1>12 DEF SendEvent, Sent
  <2>. QED
    BY <2>1, <2>2, AppendEvent
<1>13. CASE HostResizes
  <2>1. [k |-> "resize"] \in Event
    BY DEF Event
  <2>. QED
    BY <1>13, <2>1, AppendEvent DEF HostResizes, loop
<1>14. CASE \E k \in env.kinds : Type(k)
  <2>1. PICK kind \in env.kinds : Type(kind)
    BY <1>14
  <2> DEFINE e == [k |-> "input", item |-> [k |-> kind, id |-> typed + 1]]
  <2>2. [k |-> kind, id |-> typed + 1] \in Item
    BY <2>1, Bounds DEF Item, QueueType
  <2>3. e \in Event /\ e.k = "input" /\ e.item.id = typed + 1
    BY <2>2 DEF Event
  <2>4. events' = Append(events, e) /\ typed' = typed + 1 /\ typed < env.typed
    BY <2>1 DEF Type
  <2>5. UNCHANGED <<todo, pendingEsc, env>>
    BY <2>1 DEF Type, loop
  <2>6. typed \in Nat /\ pendingEsc \in Nat /\ env.typed \in Nat
    BY Bounds DEF QueueType
  <2>. HIDE DEF e
  <2>7. /\ Len(events) \in Nat /\ Len(events') = Len(events) + 1
        /\ \A i \in 1..Len(events) : events'[i] = events[i]
        /\ events'[Len(events')] = e
    BY <2>3, <2>4, AppendEvent
  <2>. QED
    BY <2>3, <2>4, <2>5, <2>6, IdTypes
<1>15. CASE TakeOutput
  BY <1>15, TakeEvent DEF TakeOutput, RecordedOutput, ScheduleRedraw
<1>16. CASE WriteReply
  BY <1>16 DEF WriteReply, WriteFails, Fails, Recorded
<1>17. CASE TakeInput
  <2>1. /\ Len(events) \in Nat \ {0} /\ IsInput(1) /\ events[1].item.id \in Nat
    BY <1>17, TakeEvent, DecodedInput DEF TakeInput
  <2>2. typed' = typed /\ typed \in Nat /\ pendingEsc \in Nat
    BY <1>17 DEF TakeInput, QueueType
  <2>3. pendingEsc < events[1].item.id /\ events[1].item.id <= typed
    BY <2>1
  <2>. QED
    BY <1>17, <2>1, <2>2, <2>3, DecodedInput
<1>18. CASE TakeResize
  BY <1>18, TakeEvent DEF TakeResize, Resized, Recorded, ArmAfterAction,
     Redraw, Fails, StopChild, others
<1>19. CASE TakeFatal
  BY <1>19, TakeEvent DEF TakeFatal, Fails, StopChild, others
<1>20. CASE TakeDone
  BY <1>20, TakeEvent DEF TakeDone, Redraw
<1>21. CASE RedrawFires
  BY <1>21 DEF RedrawFires, Redraw
<1>22. CASE QuietFires
  BY <1>22 DEF QuietFires, WithPendingWait, Wait, ClearQuiet
<1>23. CASE EscapeFires
  BY <1>23, IdTypes DEF EscapeFires, Redraw
<1>24. CASE ContextDone
  BY <1>24 DEF ContextDone, StopChild, others
<1>25. CASE Prompt
  <2>1. todo # <<>> /\ todo' = Tail(todo) /\ UNCHANGED <<typed, pendingEsc>>
    BY <1>25 DEF Prompt, Handle
  <2>. QED
    BY <2>1, TodoShift
<1>26. CASE Quit
  <2>1. todo # <<>> /\ todo' = Tail(todo) /\ UNCHANGED <<typed, pendingEsc>>
    BY <1>26 DEF Quit, Handle
  <2>. QED
    BY <2>1, TodoShift
<1>27. CASE StartMarker
  <2>1. todo # <<>> /\ todo' = Tail(todo) /\ UNCHANGED <<typed, pendingEsc>>
    BY <1>27 DEF StartMarker, Handle
  <2>. QED
    BY <2>1, TodoShift
<1>28. CASE ToggleTrace
  <2>1. todo # <<>> /\ todo' = Tail(todo) /\ UNCHANGED <<typed, pendingEsc>>
    BY <1>28 DEF ToggleTrace, Handle
  <2>. QED
    BY <2>1, TodoShift
<1>29. CASE ToggleScript
  <2>1. todo # <<>> /\ todo' = Tail(todo) /\ UNCHANGED <<typed, pendingEsc>>
    BY <1>29 DEF ToggleScript, Handle
  <2>. QED
    BY <2>1, TodoShift
<1>30. CASE Forward
  BY <1>30 DEF Forward, Forwards, WriteFails, Fails
<1>31. CASE RecordForwarded
  BY <1>31, HeadItem DEF RecordForwarded, Forwards, RecordedInput, Recorded,
     Input, Scripted, Operation, ArmAfterAction
<1>32. CASE Handled
  BY <1>32 DEF Handled
<1>33. CASE LoopEnds
  BY <1>33, IdTypes DEF LoopEnds, QueueType, Phases
<1>34. CASE Finalize
  BY <1>34 DEF Finalize, WithPendingWait, Wait, ClearQuiet, Redraw,
     Recorded, Succeeds, EndOf, Fails, others
<1>35. CASE Return
  BY <1>35 DEF Return
<1>36. CASE UNCHANGED vars
  BY <1>36
<1>. QED
  BY <1>1, <1>2, <1>3, <1>4, <1>5, <1>6, <1>7, <1>8, <1>9, <1>10, <1>11,
     <1>12, <1>13, <1>14, <1>15, <1>16, <1>17, <1>18, <1>19, <1>20, <1>21,
     <1>22, <1>23, <1>24, <1>25, <1>26, <1>27, <1>28, <1>29, <1>30, <1>31,
     <1>32, <1>33, <1>34, <1>35, <1>36 DEF Next, Loop, Over

(* readStdin sends in the order it reads, and nobody else sends inputs.     *)
LEMMA QueueOrderStep ==
  ASSUME Domains, Phases, OutputOrder, EndOrder, InputOrder, [Next]_vars
  PROVE  QueueOrder'
<1>. USE DEF Domains, TodoOrder, QueueOrder, InputOrder, IsInput, vars,
            kernel, runner, feeders, decoder, tracing, scripting, waits,
            screen, outcome, recorders
<1>1. CASE ChildWrites
  BY <1>1 DEF ChildWrites, twee
<1>2. CASE ChildReads
  BY <1>2 DEF ChildReads, twee
<1>3. CASE ChildExits
  BY <1>3 DEF ChildExits, twee
<1>4. CASE SlaveCloses
  BY <1>4 DEF SlaveCloses, twee
<1>5. CASE Cancel
  BY <1>5 DEF Cancel
<1>6. CASE KillByContext
  BY <1>6 DEF KillByContext, twee
<1>7. CASE PublishExit
  BY <1>7 DEF PublishExit
<1>8. CASE CloserKills
  BY <1>8 DEF CloserKills
<1>9. CASE CloserCloses
  BY <1>9 DEF CloserCloses
<1>10. CASE ReadChunk
  BY <1>10 DEF ReadChunk, Output, loop
<1>11. CASE ReadEnd
  BY <1>11 DEF ReadEnd, loop
<1>12. CASE SendEvent
  <2>1. held # <<>> /\ held[1] \in Event /\ ~(held[1].k = "input") /\ events' = Append(events, held[1])
    BY <1>12, HeldEvent DEF SendEvent, Sent
  <2>2. UNCHANGED <<typed, todo, pendingEsc, env>>
    BY <1>12 DEF SendEvent, Sent
  <2>. QED
    BY <2>1, <2>2, AppendEvent
<1>13. CASE HostResizes
  <2>1. [k |-> "resize"] \in Event
    BY DEF Event
  <2>. QED
    BY <1>13, <2>1, AppendEvent DEF HostResizes, loop
<1>14. CASE \E k \in env.kinds : Type(k)
  <2>1. PICK kind \in env.kinds : Type(kind)
    BY <1>14
  <2> DEFINE e == [k |-> "input", item |-> [k |-> kind, id |-> typed + 1]]
  <2>2. [k |-> kind, id |-> typed + 1] \in Item
    BY <2>1, Bounds DEF Item, QueueType
  <2>3. e \in Event /\ e.k = "input" /\ e.item.id = typed + 1
    BY <2>2 DEF Event
  <2>4. events' = Append(events, e) /\ typed' = typed + 1 /\ typed < env.typed
    BY <2>1 DEF Type
  <2>5. UNCHANGED <<todo, pendingEsc, env>>
    BY <2>1 DEF Type, loop
  <2>6. typed \in Nat /\ pendingEsc \in Nat /\ env.typed \in Nat
    BY Bounds DEF QueueType
  <2>. HIDE DEF e
  <2>7. /\ Len(events) \in Nat /\ Len(events') = Len(events) + 1
        /\ \A i \in 1..Len(events) : events'[i] = events[i]
        /\ events'[Len(events')] = e
    BY <2>3, <2>4, AppendEvent
  <2>8. typed <= typed' /\ typed' <= env.typed /\ pendingEsc <= typed'
    BY <2>4, <2>6
  <2>9. ASSUME NEW i \in 1..Len(events'), IsInput(i)'
        PROVE  \/ i \in 1..Len(events) /\ IsInput(i) /\ events'[i] = events[i]
               \/ i = Len(events') /\ events'[i].item.id = typed + 1
    BY <2>3, <2>7, <2>9
  <2>10. SUFFICES ASSUME NEW i \in 1..Len(events'), IsInput(i)'
                  PROVE  /\ pendingEsc < events'[i].item.id /\ events'[i].item.id <= typed'
                         /\ \A j \in 1..Len(todo) : todo[j].id < events'[i].item.id
                         /\ \A j \in 1..Len(events') :
                              IsInput(j)' /\ i < j => events'[i].item.id < events'[j].item.id
    BY <2>5, <2>8
  <2>11. CASE i \in 1..Len(events) /\ IsInput(i) /\ events'[i] = events[i]
    <3>1. events[i].item.id <= typed /\ events[i].item.id \in Nat
      BY <2>11, IdTypes
    <3>2. events[i].item.id < typed + 1 /\ events[i].item.id <= typed'
      BY <3>1, <2>4, <2>6
    <3>3. ASSUME NEW j \in 1..Len(events'), IsInput(j)', i < j
          PROVE  events'[i].item.id < events'[j].item.id
      BY <2>9, <2>11, <3>2, <3>3
    <3>. QED
      BY <2>11, <3>2, <3>3
  <2>12. CASE i = Len(events') /\ events'[i].item.id = typed + 1
    <3>1. \A j \in 1..Len(todo) : todo[j].id < typed + 1
      BY <2>6, IdTypes
    <3>2. pendingEsc < typed + 1 /\ typed + 1 <= typed'
      BY <2>4, <2>6, <2>8
    <3>. QED
      BY <2>7, <2>12, <3>1, <3>2
  <2>. QED
    BY <2>9, <2>10, <2>11, <2>12
<1>15. CASE TakeOutput
  <2>1. Take("output") /\ UNCHANGED <<env, todo, typed, pendingEsc>>
    BY <1>15 DEF TakeOutput
  <2>. QED
    BY <2>1, QueueShift
<1>16. CASE WriteReply
  BY <1>16 DEF WriteReply, WriteFails, Fails, Recorded
<1>17. CASE TakeInput
  <2>1. /\ Len(events) \in Nat \ {0} /\ events[1].k = "input" /\ Len(events') = Len(events) - 1
        /\ \A i \in 1..Len(events') : events'[i] = events[i + 1] /\ i + 1 \in 1..Len(events)
    BY <1>17, TakeEvent DEF TakeInput
  <2>2. typed' = typed /\ env' = env /\ typed \in Nat /\ pendingEsc \in Nat
    BY <1>17 DEF TakeInput, QueueType
  <2>3. \A j \in 1..Len(todo') : todo'[j].id \in {pendingEsc, events[1].item.id}
    BY <1>17, DecodedInput
  <2>4. pendingEsc' \in {0, events[1].item.id} /\ events[1].item.id \in Nat
    BY <1>17, DecodedInput
  <2>5. pendingEsc < events[1].item.id /\ events[1].item.id <= typed
    BY <2>1
  <2>6. SUFFICES ASSUME NEW i \in 1..Len(events'), IsInput(i)'
                 PROVE  /\ pendingEsc' < events'[i].item.id /\ events'[i].item.id <= typed
                        /\ \A j \in 1..Len(todo') : todo'[j].id < events'[i].item.id
                        /\ \A j \in 1..Len(events') :
                             IsInput(j)' /\ i < j => events'[i].item.id < events'[j].item.id
    BY <2>2, <2>4, <2>5
  <2>7. i + 1 \in 1..Len(events) /\ IsInput(i + 1) /\ events'[i] = events[i + 1] /\ 1 < i + 1
    BY <2>1, <2>6
  <2>8. /\ pendingEsc < events'[i].item.id /\ events[1].item.id < events'[i].item.id
        /\ events'[i].item.id <= typed /\ events'[i].item.id \in Nat /\ 0 < events'[i].item.id
    BY <2>1, <2>2, <2>7, IdTypes
  <2>9. ASSUME NEW j \in 1..Len(events'), IsInput(j)', i < j
        PROVE  events'[i].item.id < events'[j].item.id
    <3>1. j + 1 \in 1..Len(events) /\ IsInput(j + 1) /\ events'[j] = events[j + 1] /\ i + 1 < j + 1
      BY <2>1, <2>9
    <3>. QED
      BY <2>7, <3>1
  <2>. QED
    BY <2>3, <2>4, <2>8, <2>9
<1>18. CASE TakeResize
  <2>1. Take("resize") /\ UNCHANGED <<env, todo, typed, pendingEsc>>
    BY <1>18 DEF TakeResize
  <2>. QED
    BY <2>1, QueueShift
<1>19. CASE TakeFatal
  <2>1. Take("fatal") /\ UNCHANGED <<env, todo, typed, pendingEsc>>
    BY <1>19 DEF TakeFatal
  <2>. QED
    BY <2>1, QueueShift
<1>20. CASE TakeDone
  <2>1. Take("done") /\ UNCHANGED <<env, todo, typed, pendingEsc>>
    BY <1>20 DEF TakeDone
  <2>. QED
    BY <2>1, QueueShift
<1>21. CASE RedrawFires
  BY <1>21 DEF RedrawFires, Redraw
<1>22. CASE QuietFires
  BY <1>22 DEF QuietFires, WithPendingWait, Wait, ClearQuiet
<1>23. CASE EscapeFires
  BY <1>23, IdTypes DEF EscapeFires, Redraw
<1>24. CASE ContextDone
  BY <1>24 DEF ContextDone, StopChild, others
<1>25. CASE Prompt
  BY <1>25, HeadItem DEF Prompt, Recorded, Redraw
<1>26. CASE Quit
  BY <1>26, HeadItem DEF Quit, Handle, Redraw, StopChild, others
<1>27. CASE StartMarker
  BY <1>27, HeadItem DEF StartMarker, Handle, Redraw
<1>28. CASE ToggleTrace
  BY <1>28, HeadItem DEF ToggleTrace, Handle, Redraw, Succeeds, EndOf, Seed,
     Fails
<1>29. CASE ToggleScript
  BY <1>29, HeadItem DEF ToggleScript, Handle, Redraw, Succeeds, EndOf,
     Fails, WithPendingWait, Wait, ClearQuiet, Resized, PartialStart
<1>30. CASE Forward
  BY <1>30 DEF Forward, Forwards, WriteFails, Fails
<1>31. CASE RecordForwarded
  BY <1>31, HeadItem DEF RecordForwarded, Forwards, RecordedInput, Recorded,
     Input, Scripted, Operation, ArmAfterAction
<1>32. CASE Handled
  BY <1>32 DEF Handled
<1>33. CASE LoopEnds
  BY <1>33, IdTypes DEF LoopEnds, QueueType, Phases
<1>34. CASE Finalize
  BY <1>34 DEF Finalize, WithPendingWait, Wait, ClearQuiet, Redraw,
     Recorded, Succeeds, EndOf, Fails, others
<1>35. CASE Return
  BY <1>35 DEF Return
<1>36. CASE UNCHANGED vars
  BY <1>36
<1>. QED
  BY <1>1, <1>2, <1>3, <1>4, <1>5, <1>6, <1>7, <1>8, <1>9, <1>10, <1>11,
     <1>12, <1>13, <1>14, <1>15, <1>16, <1>17, <1>18, <1>19, <1>20, <1>21,
     <1>22, <1>23, <1>24, <1>25, <1>26, <1>27, <1>28, <1>29, <1>30, <1>31,
     <1>32, <1>33, <1>34, <1>35, <1>36 DEF Next, Loop, Over

(* An input that was in hand is past once it is handled.                    *)
LEMMA HandledIsPast ==
  ASSUME KernelType, QueueType, InputOrder, todo # <<>>, todo' = Tail(todo),
         UNCHANGED <<typed, pendingEsc, events>>, NEW n, n = todo[1].id
  PROVE  Ahead(n)'
<1>1. /\ Len(todo) \in Nat \ {0} /\ Len(todo') = Len(todo) - 1
      /\ \A i \in 1..Len(todo') : todo'[i] = todo[i + 1] /\ i + 1 \in 1..Len(todo)
  BY HeadItem
<1>2. \A i \in 1..Len(todo') : n < todo'[i].id
  BY <1>1 DEF InputOrder, TodoOrder
<1>3. /\ n <= typed
      /\ pendingEsc # 0 => n < pendingEsc
      /\ \A i \in 1..Len(events) : IsInput(i) => n < events[i].item.id
  BY <1>1 DEF InputOrder, TodoOrder, QueueOrder
<1>. QED
  BY <1>1, <1>2, <1>3 DEF Ahead, IsInput

(* writePTY is called once for an input, and recordInput right after it.    *)
LEMMA GivenIsPastStep ==
  ASSUME Domains, Phases, InputOrder, OutputOrder, EndOrder, GivenIsPast, [Next]_vars
  PROVE  GivenIsPast'
<1>. USE DEF Domains, GivenIsPast, vars, kernel, runner, feeders, decoder,
            tracing, scripting, waits, screen, outcome, recorders
<1>1. \A g \in given : Ahead(g.id) => Ahead(g.id)'
  BY AheadStep DEF OutcomeType, Item
<1>2. CASE ChildWrites \/ ChildReads \/ ChildExits \/ SlaveCloses \/ Cancel
  BY <1>2, <1>1 DEF ChildWrites, twee, ChildReads, ChildExits, SlaveCloses,
     Cancel
<1>3. CASE KillByContext \/ PublishExit \/ CloserKills \/ CloserCloses
  BY <1>3, <1>1 DEF KillByContext, twee, PublishExit, CloserKills,
     CloserCloses
<1>4. CASE ReadChunk \/ ReadEnd
  BY <1>4, <1>1 DEF ReadChunk, Output, loop, ReadEnd
<1>5. CASE SendEvent
  BY <1>5, <1>1 DEF SendEvent, Sent
<1>6. CASE HostResizes
  BY <1>6, <1>1 DEF HostResizes, loop
<1>7. CASE \E k \in env.kinds : Type(k)
  BY <1>7, <1>1 DEF Type, loop
<1>8. CASE TakeOutput
  BY <1>8, <1>1, TakeEvent DEF TakeOutput, RecordedOutput, ScheduleRedraw
<1>9. CASE WriteReply
  BY <1>9, <1>1 DEF WriteReply, WriteFails, Fails, Recorded
<1>10. CASE TakeInput
  BY <1>10, <1>1, TakeEvent DEF TakeInput, Decoded
<1>11. CASE TakeResize
  BY <1>11, <1>1, TakeEvent DEF TakeResize, Resized, Recorded,
     ArmAfterAction, Redraw, Fails, StopChild, others
<1>12. CASE TakeFatal
  BY <1>12, <1>1, TakeEvent DEF TakeFatal, Fails, StopChild, others
<1>13. CASE TakeDone
  BY <1>13, <1>1, TakeEvent DEF TakeDone, Redraw
<1>14. CASE RedrawFires
  BY <1>14, <1>1 DEF RedrawFires, Redraw
<1>15. CASE QuietFires
  BY <1>15, <1>1 DEF QuietFires, WithPendingWait, Wait, ClearQuiet
<1>16. CASE EscapeFires
  BY <1>16, <1>1 DEF EscapeFires, Redraw
<1>17. CASE ContextDone
  BY <1>17, <1>1 DEF ContextDone, StopChild, others
<1>18. CASE Prompt
  BY <1>18, <1>1 DEF Prompt, Recorded, Redraw
<1>19. CASE Quit
  BY <1>19, <1>1 DEF Quit, Handle, Redraw, StopChild, others
<1>20. CASE StartMarker
  BY <1>20, <1>1 DEF StartMarker, Handle, Redraw
<1>21. CASE ToggleTrace
  BY <1>21, <1>1 DEF ToggleTrace, Handle, Redraw, Succeeds, EndOf, Seed,
     Fails
<1>22. CASE ToggleScript
  BY <1>22, <1>1 DEF ToggleScript, Handle, Redraw, Succeeds, EndOf, Fails,
     WithPendingWait, Wait, ClearQuiet, Resized, PartialStart
<1>23. CASE Forward
  <2>1. pc' = "record" /\ todo' = todo /\ todo # <<>> /\ ptyDone' = ptyDone
    BY <1>23 DEF Forward
  <2>2. Head(todo) = todo[1]
    BY <2>1, HeadItem
  <2>3. \A g \in given' : Ahead(g.id)' \/ g = todo[1]
    BY <1>1, <1>23, <2>2 DEF Forward
  <2>4. ptyDone => given' = given
    BY <1>23 DEF Forward, Forwards
  <2>5. ~ptyDone /\ runErr' = "none" => todo[1] \in given'
    BY <1>23, <2>2 DEF Forward, Forwards, Fails
  <2>6. \A g \in given : Ahead(g.id)
    BY <1>23 DEF Forward
  <2>7. todo[1] \notin given
    BY <2>1, <2>6, HeadItem DEF Ahead
  <2>. QED
    BY <2>1, <2>3, <2>4, <2>5, <2>7
<1>24. CASE RecordForwarded
  <2>1. pc = "record" /\ pc' = "handle" /\ given' = given
    BY <1>24 DEF RecordForwarded
  <2>2. \A g \in given : g = todo[1] => Ahead(g.id)'
    BY <1>24, HandledIsPast DEF RecordForwarded, Phases
  <2>. QED
    BY <1>1, <2>1, <2>2
<1>25. CASE Handled
  BY <1>25, <1>1 DEF Handled
<1>26. CASE LoopEnds
  BY <1>26, <1>1 DEF LoopEnds
<1>27. CASE Finalize
  BY <1>27, <1>1 DEF Finalize, WithPendingWait, Wait, ClearQuiet, Redraw,
     Recorded, Succeeds, EndOf, Fails, others
<1>28. CASE Return
  BY <1>28, <1>1 DEF Return
<1>29. CASE UNCHANGED vars
  BY <1>29, <1>1
<1>. QED
  BY <1>2, <1>3, <1>4, <1>5, <1>6, <1>7, <1>8, <1>9, <1>10, <1>11, <1>12,
     <1>13, <1>14, <1>15, <1>16, <1>17, <1>18, <1>19, <1>20, <1>21, <1>22,
     <1>23, <1>24, <1>25, <1>26, <1>27, <1>28, <1>29 DEF Next, Loop, Over

(* hadSessionActivity is set by whatever is recorded or fed: before that,   *)
(* only the input in hand was written.                                      *)
LEMMA NothingYetStep ==
  ASSUME Domains, Phases, NothingYet, [Next]_vars
  PROVE  NothingYet'
<1>. USE DEF Domains, NothingYet, vars, kernel, runner, feeders, decoder,
            tracing, scripting, waits, screen, outcome, recorders
<1>1. CASE ChildWrites \/ ChildReads \/ ChildExits \/ SlaveCloses \/ Cancel
  BY <1>1 DEF ChildWrites, twee, ChildReads, ChildExits, SlaveCloses, Cancel
<1>2. CASE KillByContext \/ PublishExit \/ CloserKills \/ CloserCloses
  BY <1>2 DEF KillByContext, twee, PublishExit, CloserKills, CloserCloses
<1>3. CASE ReadChunk \/ ReadEnd
  BY <1>3 DEF ReadChunk, Output, loop, ReadEnd
<1>4. CASE SendEvent
  BY <1>4 DEF SendEvent, Sent
<1>5. CASE HostResizes
  BY <1>5 DEF HostResizes, loop
<1>6. CASE \E k \in env.kinds : Type(k)
  BY <1>6 DEF Type, loop
<1>7. CASE TakeOutput
  BY <1>7, TakeEvent DEF TakeOutput, RecordedOutput, ScheduleRedraw
<1>8. CASE WriteReply
  BY <1>8 DEF WriteReply, WriteFails, Fails, Recorded
<1>9. CASE TakeInput
  BY <1>9, TakeEvent DEF TakeInput, Decoded
<1>10. CASE TakeResize
  BY <1>10, TakeEvent DEF TakeResize, Resized, Recorded, ArmAfterAction,
     Redraw, Fails, StopChild, others
<1>11. CASE TakeFatal
  BY <1>11, TakeEvent DEF TakeFatal, Fails, StopChild, others
<1>12. CASE TakeDone
  BY <1>12, TakeEvent DEF TakeDone, Redraw
<1>13. CASE RedrawFires
  BY <1>13 DEF RedrawFires, Redraw
<1>14. CASE QuietFires
  BY <1>14 DEF QuietFires, WithPendingWait, Wait, ClearQuiet
<1>15. CASE EscapeFires
  BY <1>15 DEF EscapeFires, Redraw
<1>16. CASE ContextDone
  BY <1>16 DEF ContextDone, StopChild, others
<1>17. CASE Prompt
  BY <1>17 DEF Prompt, Recorded, Redraw
<1>18. CASE Quit
  BY <1>18 DEF Quit, Handle, Redraw, StopChild, others
<1>19. CASE StartMarker
  BY <1>19 DEF StartMarker, Handle, Redraw
<1>20. CASE ToggleTrace
  BY <1>20 DEF ToggleTrace, Handle, Redraw, Succeeds, EndOf, Seed, Fails
<1>21. CASE ToggleScript
  BY <1>21 DEF ToggleScript, Handle, Redraw, Succeeds, EndOf, Fails,
     WithPendingWait, Wait, ClearQuiet, Resized, PartialStart
<1>22. CASE Forward
  <2>1. Head(todo) = todo[1]
    BY <1>22, HeadItem DEF Forward, Domains
  <2>. QED
    BY <1>22, <2>1 DEF Forward
<1>23. CASE RecordForwarded
  BY <1>23 DEF RecordForwarded, Forwards, RecordedInput, Recorded, Input,
     Scripted, Operation, ArmAfterAction
<1>24. CASE Handled
  BY <1>24 DEF Handled
<1>25. CASE LoopEnds
  BY <1>25 DEF LoopEnds
<1>26. CASE Finalize
  BY <1>26 DEF Finalize, WithPendingWait, Wait, ClearQuiet, Redraw,
     Recorded, Succeeds, EndOf, Fails, others
<1>27. CASE Return
  BY <1>27 DEF Return
<1>28. CASE UNCHANGED vars
  BY <1>28
<1>. QED
  BY <1>1, <1>2, <1>3, <1>4, <1>5, <1>6, <1>7, <1>8, <1>9, <1>10, <1>11,
     <1>12, <1>13, <1>14, <1>15, <1>16, <1>17, <1>18, <1>19, <1>20, <1>21,
     <1>22, <1>23, <1>24, <1>25, <1>26, <1>27, <1>28 DEF Next, Loop, Over

-----------------------------------------------------------------------------
(* Inputs, in the recordings.                                               *)

(* The loop does not touch the input in hand.                               *)
SameHand == pc = "record" \/ pc' = "record" => pc' = pc /\ todo' = todo

(* At most an entry that is no input is added to the log.                   *)
LogsNoInput ==
  trace' = "recording" =>
    /\ trace = "recording"
    /\ log' = log \/ \E e \in Entry : e.k # "input" /\ log' = Append(log, e)

(* A trace that records no input while none is given goes on holding all.   *)
LEMMA NoInputLogged ==
  ASSUME RecorderType, TraceHoldsInputs, SameHand, LogsNoInput, given' = given,
         \A n \in Nat : Ahead(n) => Ahead(n)', runErr' = "none" => runErr = "none"
  PROVE  TraceHoldsInputs'
<1>1. SUFFICES ASSUME trace' = "recording"
               PROVE  TraceHoldsInputs'
  BY DEF TraceHoldsInputs
<1>2. trace = "recording" /\ log \in Seq(Entry) /\ log # <<>> /\ log[1].k = "seed" /\ Ahead(log[1].id)
  BY <1>1 DEF LogsNoInput, TraceHoldsInputs, RecorderType
<1>3. log[1] \in Entry /\ Len(log) \in Nat /\ 1 \in 1..Len(log)
  BY <1>2
<1>4. log[1].id \in Nat
  BY <1>2, <1>3 DEF Entry
<1>5. /\ Len(log') \in Nat /\ Len(log') >= Len(log) /\ log' # <<>>
      /\ \A j \in 1..Len(log) : j \in 1..Len(log') /\ log'[j] = log[j]
      /\ \A j \in 1..Len(log') : j \in 1..Len(log) \/ log'[j].k # "input"
  BY <1>1, <1>2, <1>3 DEF LogsNoInput
<1>6. log'[1] = log[1]
  BY <1>3, <1>5
<1>7. \A n \in Nat : Ahead(n) => Ahead(n)'
  OBVIOUS
<1>8. (Ahead(log[1].id))'
  BY <1>2, <1>4, <1>6, <1>7 DEF Ahead, IsInput
<1>9. \A n : InHand(n)' <=> InHand(n)
  BY DEF InHand, SameHand
<1>10. \A n : Kept(n) => Kept(n)'
  BY <1>5 DEF Kept
<1>11. \A g \in given' : g.id > log'[1].id /\ ~InHand(g.id)' => Kept(g.id)'
  BY <1>2, <1>6, <1>9, <1>10 DEF TraceHoldsInputs
<1>12. ASSUME runErr' = "none", NEW j \in 1..Len(log'), log'[j].k = "input", NEW n, n = log'[j].id
       PROVE  Given(n)' /\ n > log'[1].id /\ ~InHand(n)'
  <2>1. j \in 1..Len(log) /\ log'[j] = log[j] /\ log[j].k = "input"
    BY <1>5, <1>12
  <2>2. Given(n) /\ n > log[1].id /\ ~InHand(n)
    BY <1>2, <1>12, <2>1 DEF TraceHoldsInputs
  <2>. QED
    BY <1>6, <1>9, <2>2 DEF Given
<1>. QED
  BY <1>5, <1>6, <1>2, <1>8, <1>11, <1>12 DEF TraceHoldsInputs, InHand, Kept, Given

(* A recording trace holds the inputs given since its seed: handleInput     *)
(* records every input that writePTY was called for, and a trace that       *)
(* starts or stops between two inputs loses and repeats none.               *)
LEMMA TraceHoldsInputsStep ==
  ASSUME Domains, Phases, InputOrder, OutputOrder, EndOrder, GivenIsPast, TraceHoldsInputs, [Next]_vars
  PROVE  TraceHoldsInputs'
<1>. USE DEF vars, kernel, runner, feeders, decoder, tracing,
            scripting, waits, screen, outcome, recorders
<1>1. \A n \in Nat : Ahead(n) => Ahead(n)'
  BY AheadStep
<1>2. CASE ChildWrites \/ ChildReads \/ ChildExits \/ SlaveCloses \/ Cancel
  <2>1. SameHand /\ LogsNoInput /\ given' = given /\ runErr' = runErr
    BY <1>2 DEF
       ChildWrites, twee, ChildReads, ChildExits, SlaveCloses, Cancel,
       SameHand, LogsNoInput
  <2>. QED
    BY <1>1, <2>1, NoInputLogged DEF Domains
<1>3. CASE KillByContext \/ PublishExit \/ CloserKills \/ CloserCloses
  <2>1. SameHand /\ LogsNoInput /\ given' = given /\ runErr' = runErr
    BY <1>3 DEF
       KillByContext, twee, PublishExit, CloserKills, CloserCloses,
       SameHand, LogsNoInput
  <2>. QED
    BY <1>1, <2>1, NoInputLogged DEF Domains
<1>4. CASE ReadChunk \/ ReadEnd
  <2>1. SameHand /\ LogsNoInput /\ given' = given /\ runErr' = runErr
    BY <1>4 DEF
       ReadChunk, Output, loop, ReadEnd, SameHand, LogsNoInput
  <2>. QED
    BY <1>1, <2>1, NoInputLogged DEF Domains
<1>5. CASE SendEvent
  <2>1. SameHand /\ LogsNoInput /\ given' = given /\ runErr' = runErr
    BY <1>5 DEF
       SendEvent, Sent, SameHand, LogsNoInput
  <2>. QED
    BY <1>1, <2>1, NoInputLogged DEF Domains
<1>6. CASE HostResizes
  <2>1. SameHand /\ LogsNoInput /\ given' = given /\ runErr' = runErr
    BY <1>6 DEF
       HostResizes, loop, SameHand, LogsNoInput
  <2>. QED
    BY <1>1, <2>1, NoInputLogged DEF Domains
<1>7. CASE \E k \in env.kinds : Type(k)
  <2>1. SameHand /\ LogsNoInput /\ given' = given /\ runErr' = runErr
    BY <1>7 DEF
       Type, loop, SameHand, LogsNoInput
  <2>. QED
    BY <1>1, <2>1, NoInputLogged DEF Domains
<1>8. CASE TakeOutput
  <2>1. SameHand /\ given' = given
    BY <1>8, TakeEvent DEF TakeOutput, RecordedOutput, ScheduleRedraw, SameHand, Domains
  <2>2. LogsNoInput
    BY <1>8, TakeChunk, EntryTypes DEF TakeOutput, RecordedOutput, LogsNoInput, Domains
  <2>3. runErr' = "none" => runErr = "none"
    BY <1>8 DEF TakeOutput
  <2>. QED
    BY <1>1, <2>1, <2>2, <2>3, NoInputLogged DEF Domains
<1>9. CASE WriteReply
  <2>1. SameHand /\ given' = given
    BY <1>9 DEF WriteReply, WriteFails, Fails, Recorded, SameHand
  <2>2. LogsNoInput
    BY <1>9, EntryTypes DEF WriteReply, Recorded, LogsNoInput
  <2>3. runErr' = "none" => runErr = "none"
    BY <1>9 DEF WriteReply, Fails
  <2>. QED
    BY <1>1, <2>1, <2>2, <2>3, NoInputLogged DEF Domains
<1>10. CASE TakeInput
  <2>1. SameHand /\ given' = given
    BY <1>10, TakeEvent DEF TakeInput, Decoded, SameHand, Domains
  <2>2. LogsNoInput
    BY <1>10 DEF TakeInput, Decoded, LogsNoInput
  <2>3. runErr' = "none" => runErr = "none"
    BY <1>10 DEF TakeInput
  <2>. QED
    BY <1>1, <2>1, <2>2, <2>3, NoInputLogged DEF Domains
<1>11. CASE TakeResize
  <2>1. SameHand /\ given' = given
    BY <1>11, TakeEvent DEF TakeResize, Resized, Recorded, ArmAfterAction, Redraw, Fails,
         StopChild, others, SameHand, Domains
  <2>2. LogsNoInput
    BY <1>11, EntryTypes DEF TakeResize, Recorded, LogsNoInput
  <2>3. runErr' = "none" => runErr = "none"
    BY <1>11 DEF TakeResize, Fails
  <2>. QED
    BY <1>1, <2>1, <2>2, <2>3, NoInputLogged DEF Domains
<1>12. CASE TakeFatal
  <2>1. SameHand /\ given' = given
    BY <1>12, TakeEvent DEF TakeFatal, Fails, StopChild, others, SameHand, Domains
  <2>2. LogsNoInput
    BY <1>12 DEF TakeFatal, Fails, StopChild, others, LogsNoInput
  <2>3. runErr' = "none" => runErr = "none"
    BY <1>12 DEF TakeFatal, Fails
  <2>. QED
    BY <1>1, <2>1, <2>2, <2>3, NoInputLogged DEF Domains
<1>13. CASE TakeDone
  <2>1. SameHand /\ given' = given
    BY <1>13, TakeEvent DEF TakeDone, Redraw, SameHand, Domains
  <2>2. LogsNoInput
    BY <1>13 DEF TakeDone, Redraw, LogsNoInput
  <2>3. runErr' = "none" => runErr = "none"
    BY <1>13 DEF TakeDone
  <2>. QED
    BY <1>1, <2>1, <2>2, <2>3, NoInputLogged DEF Domains
<1>14. CASE RedrawFires
  <2>1. SameHand /\ given' = given
    BY <1>14 DEF RedrawFires, Redraw, SameHand
  <2>2. LogsNoInput
    BY <1>14 DEF RedrawFires, Redraw, LogsNoInput
  <2>3. runErr' = "none" => runErr = "none"
    BY <1>14 DEF RedrawFires
  <2>. QED
    BY <1>1, <2>1, <2>2, <2>3, NoInputLogged DEF Domains
<1>15. CASE QuietFires
  <2>1. SameHand /\ given' = given
    BY <1>15 DEF QuietFires, WithPendingWait, Wait, ClearQuiet, SameHand
  <2>2. LogsNoInput
    BY <1>15 DEF QuietFires, WithPendingWait, Wait, ClearQuiet, LogsNoInput
  <2>3. runErr' = "none" => runErr = "none"
    BY <1>15 DEF QuietFires
  <2>. QED
    BY <1>1, <2>1, <2>2, <2>3, NoInputLogged DEF Domains
<1>16. CASE EscapeFires
  <2>1. SameHand /\ given' = given
    BY <1>16 DEF EscapeFires, Redraw, SameHand
  <2>2. LogsNoInput
    BY <1>16 DEF EscapeFires, Redraw, LogsNoInput
  <2>3. runErr' = "none" => runErr = "none"
    BY <1>16 DEF EscapeFires
  <2>. QED
    BY <1>1, <2>1, <2>2, <2>3, NoInputLogged DEF Domains
<1>17. CASE ContextDone
  <2>1. SameHand /\ given' = given
    BY <1>17 DEF ContextDone, StopChild, others, SameHand
  <2>2. LogsNoInput
    BY <1>17 DEF ContextDone, StopChild, others, LogsNoInput
  <2>3. runErr' = "none" => runErr = "none"
    BY <1>17 DEF ContextDone
  <2>. QED
    BY <1>1, <2>1, <2>2, <2>3, NoInputLogged DEF Domains
<1>18. CASE Prompt
  <2>1. SameHand /\ given' = given
    BY <1>18 DEF Prompt, Recorded, Redraw, SameHand
  <2>2. LogsNoInput
    BY <1>18, EntryTypes DEF Prompt, Recorded, LogsNoInput
  <2>3. runErr' = "none" => runErr = "none"
    BY <1>18 DEF Prompt
  <2>. QED
    BY <1>1, <2>1, <2>2, <2>3, NoInputLogged DEF Domains
<1>19. CASE Quit
  <2>1. SameHand /\ given' = given
    BY <1>19 DEF Quit, Handle, Redraw, StopChild, others, SameHand
  <2>2. LogsNoInput
    BY <1>19 DEF Quit, Handle, Redraw, StopChild, others, LogsNoInput
  <2>3. runErr' = "none" => runErr = "none"
    BY <1>19 DEF Quit
  <2>. QED
    BY <1>1, <2>1, <2>2, <2>3, NoInputLogged DEF Domains
<1>20. CASE StartMarker
  <2>1. SameHand /\ given' = given
    BY <1>20 DEF StartMarker, Handle, Redraw, SameHand
  <2>2. LogsNoInput
    BY <1>20 DEF StartMarker, Handle, Redraw, LogsNoInput
  <2>3. runErr' = "none" => runErr = "none"
    BY <1>20 DEF StartMarker
  <2>. QED
    BY <1>1, <2>1, <2>2, <2>3, NoInputLogged DEF Domains
<1>21. CASE ToggleTrace
  <2>1. /\ pc = "handle" /\ pc' = "handle" /\ todo # <<>> /\ todo' = Tail(todo) /\ given' = given
        /\ UNCHANGED <<typed, pendingEsc, events>>
    BY <1>21 DEF ToggleTrace, Handle
  <2>2. SameHand
    BY <2>1 DEF SameHand
  <2>3. runErr' = "none" => runErr = "none"
    BY <1>21 DEF ToggleTrace, Fails
  <2>4. CASE ~(trace' = "recording") \/ UNCHANGED tracing
    <3>1. LogsNoInput
      BY <2>4 DEF LogsNoInput
    <3>. QED
      BY <1>1, <2>1, <2>2, <2>3, <3>1, NoInputLogged DEF Domains
  <2>5. CASE trace' = "recording" /\ log' = <<Seed(todo[1].id)>>
    <3>1. todo[1].id \in Nat \ {0}
      BY <2>1, HeadItem DEF Domains
    <3>2. /\ Len(log') = 1 /\ log' # <<>> /\ log'[1] = Seed(todo[1].id)
          /\ log'[1].k = "seed" /\ log'[1].id = todo[1].id
      BY <2>5 DEF Seed
    <3>3. \A n : n = todo[1].id => Ahead(n)'
      BY <2>1, HandledIsPast DEF Domains
    <3>4. \A g \in given : g.id \in Nat /\ g.id < todo[1].id
      <4>1. 1 \in 1..Len(todo)
        <5>1. Len(todo) \in Nat \ {0}
          BY <2>1, HeadItem DEF Domains
        <5>. QED
          BY <5>1
      <4>2. \A g \in given : g.id \in Nat
        BY DEF Domains, OutcomeType, Item
      <4>3. \A g \in given : Ahead(g.id)
        BY <2>1 DEF GivenIsPast
      <4>. QED
        BY <4>1, <4>2, <4>3 DEF Ahead
    <3>5. \A g \in given : ~(g.id > todo[1].id)
      BY <3>1, <3>4
    <3>6. \A j \in 1..Len(log') : log'[j].k # "input"
      BY <3>2
    <3>7. Ahead(log[1].id)'
      BY <3>2, <3>3 DEF Ahead, IsInput
    <3>. QED
      BY <2>1, <3>2, <3>5, <3>6, <3>7 DEF TraceHoldsInputs
  <2>6. Head(todo) = todo[1]
    BY <2>1, HeadItem DEF Domains
  <2>7. \/ ~(trace' = "recording") \/ UNCHANGED tracing
        \/ trace' = "recording" /\ log' = <<Seed(Head(todo).id)>>
    BY <1>21 DEF ToggleTrace
  <2>. QED
    BY <2>4, <2>5, <2>6, <2>7
<1>22. CASE ToggleScript
  <2>1. SameHand /\ given' = given
    BY <1>22 DEF ToggleScript, Handle, Redraw, Succeeds, EndOf, Fails, WithPendingWait,
         Wait, ClearQuiet, Resized, PartialStart, SameHand
  <2>2. LogsNoInput
    BY <1>22 DEF ToggleScript, Handle, Redraw, Succeeds, EndOf, Fails, WithPendingWait,
         Wait, ClearQuiet, Resized, PartialStart, LogsNoInput
  <2>3. runErr' = "none" => runErr = "none"
    BY <1>22 DEF ToggleScript, Fails
  <2>. QED
    BY <1>1, <2>1, <2>2, <2>3, NoInputLogged DEF Domains
<1>23. CASE Forward
  <2>1. pc = "handle" /\ pc' = "record" /\ todo' = todo /\ todo # <<>> /\ UNCHANGED <<trace, log>>
    BY <1>23 DEF Forward
  <2>2. /\ Head(todo) = todo[1] /\ todo[1].id \in Nat
        /\ \A g \in given' : g \in given \/ g = todo[1]
        /\ given \subseteq given'
    BY <1>23, <2>1, HeadItem DEF Forward, Domains
  <2>3. SUFFICES ASSUME trace = "recording"
                 PROVE  TraceHoldsInputs'
    BY <2>1 DEF TraceHoldsInputs
  <2>4. log \in Seq(Entry) /\ log # <<>> /\ log[1].id \in Nat /\ Ahead(log[1].id)
    <3>1. log \in Seq(Entry) /\ log # <<>> /\ log[1].k = "seed" /\ Ahead(log[1].id)
      BY <2>3 DEF TraceHoldsInputs, Domains, RecorderType
    <3>2. log[1] \in Entry
      BY <3>1
    <3>. QED
      BY <3>1, <3>2 DEF Entry
  <2>5. (Ahead(log[1].id))'
    BY <1>1, <2>1, <2>4 DEF Ahead, IsInput
  <2>6. \A g \in given : g.id < todo[1].id /\ g.id \in Nat
    BY <2>1, HeadItem DEF GivenIsPast, Ahead, Domains, OutcomeType, Item
  <2>7. \A n : InHand(n)' <=> n = todo[1].id
    BY <2>1 DEF InHand
  <2>8. \A n : ~InHand(n)
    BY <2>1 DEF InHand
  <2>9. runErr' = "none" => runErr = "none"
    BY <1>23 DEF Forward, Fails
  <2>10. \A n : Kept(n)' <=> Kept(n)
    BY <2>1 DEF Kept
  <2>11. \A g \in given' : g.id > log[1].id /\ ~InHand(g.id)' => Kept(g.id)'
    BY <2>2, <2>3, <2>7, <2>8, <2>10 DEF TraceHoldsInputs
  <2>12. ASSUME runErr' = "none", NEW j \in 1..Len(log), log[j].k = "input", NEW n, n = log[j].id
         PROVE  Given(n)' /\ n > log[1].id /\ ~InHand(n)'
    <3>1. Given(n) /\ n > log[1].id
      BY <2>3, <2>9, <2>12 DEF TraceHoldsInputs
    <3>2. n < todo[1].id /\ n \in Nat
      BY <2>6, <3>1 DEF Given
    <3>. QED
      BY <2>2, <2>7, <3>1, <3>2 DEF Given
  <2>. QED
    BY <2>1, <2>3, <2>4, <2>5, <2>11, <2>12 DEF TraceHoldsInputs, InHand, Kept, Given
<1>24. CASE RecordForwarded
  <2>1. /\ pc = "record" /\ pc' = "handle" /\ todo # <<>> /\ todo' = Tail(todo) /\ trace' = trace
        /\ UNCHANGED <<typed, pendingEsc, events, given, runErr, ptyDone>>
    BY <1>24 DEF RecordForwarded, Phases, Domains
  <2>2. Head(todo) = todo[1] /\ todo[1].id \in Nat
    BY <2>1, HeadItem DEF Domains
  <2>3. SUFFICES ASSUME trace = "recording"
                 PROVE  TraceHoldsInputs'
    BY <2>1 DEF TraceHoldsInputs
  <2>4. log \in Seq(Entry) /\ log # <<>> /\ log[1].id \in Nat /\ log[1].k = "seed" /\ Ahead(log[1].id)
    <3>1. log \in Seq(Entry) /\ log # <<>> /\ log[1].k = "seed" /\ Ahead(log[1].id)
      BY <2>3 DEF TraceHoldsInputs, Domains, RecorderType
    <3>2. log[1] \in Entry
      BY <3>1
    <3>. QED
      BY <3>1, <3>2 DEF Entry
  <2>5. log[1].id < todo[1].id
    BY <2>1, <2>4, HeadItem DEF Ahead, Domains
  <2>6. \A n : InHand(n) <=> n = todo[1].id
    BY <2>1 DEF InHand
  <2>7. \A n : ~InHand(n)'
    BY <2>1 DEF InHand
  <2>8. CASE ptyDone
    <3>1. log' = log
      BY <1>24, <2>8 DEF RecordForwarded, Forwards
    <3>2. (Ahead(log[1].id))'
      BY <1>1, <2>4, <3>1 DEF Ahead, IsInput
    <3>3. \A g \in given : Ahead(g.id)
      BY <2>1, <2>8 DEF GivenIsPast
    <3>4. \A g \in given : g.id # todo[1].id
      BY <2>1, <2>2, <3>3, HeadItem DEF Ahead, Domains
    <3>5. \A g \in given : g.id > log[1].id => Kept(g.id)
      BY <2>3, <2>6, <3>4 DEF TraceHoldsInputs
    <3>6. runErr = "none" => \A j \in 1..Len(log) : log[j].k = "input" =>
            Given(log[j].id) /\ log[j].id > log[1].id
      BY <2>3 DEF TraceHoldsInputs
    <3>7. log' # <<>> /\ log'[1] = log[1] /\ log[1].k = "seed"
      BY <2>4, <3>1
    <3>8. \A g \in given' : g.id > log'[1].id /\ ~InHand(g.id)' => Kept(g.id)'
      BY <2>1, <3>1, <3>5 DEF Kept
    <3>9. ASSUME runErr' = "none", NEW j \in 1..Len(log'), log'[j].k = "input", NEW n, n = log'[j].id
          PROVE  Given(n)' /\ n > log'[1].id /\ ~InHand(n)'
      BY <2>1, <2>7, <3>1, <3>6, <3>9 DEF Given
    <3>. QED
      BY <3>2, <3>7, <3>8, <3>9 DEF TraceHoldsInputs, InHand, Kept, Given
  <2>9. CASE ~ptyDone
    <3> DEFINE e == [k |-> "input", id |-> todo[1].id]
    <3>1. e \in Entry /\ e.k = "input" /\ e.id = todo[1].id
      BY <2>2, EntryTypes
    <3>2. log' = Append(log, e)
      BY <1>24, <2>2, <2>3, <2>9 DEF RecordForwarded, Forwards, RecordedInput, Input,
           Recorded
    <3>. HIDE DEF e
    <3>3. /\ Len(log') = Len(log) + 1 /\ Len(log) \in Nat \ {0} /\ log'[Len(log')] = e
          /\ \A j \in 1..Len(log) : j \in 1..Len(log') /\ log'[j] = log[j]
          /\ log' # <<>> /\ log'[1] = log[1]
      BY <2>4, <3>1, <3>2
    <3>4. (Ahead(log[1].id))'
      BY <1>1, <2>4, <3>3 DEF Ahead, IsInput
    <3>5. \A n : Kept(n) \/ n = todo[1].id => Kept(n)'
      BY <3>1, <3>3 DEF Kept
    <3>6. \A g \in given' : g.id > log'[1].id /\ ~InHand(g.id)' => Kept(g.id)'
      BY <2>1, <2>3, <2>6, <3>3, <3>5 DEF TraceHoldsInputs
    <3>7. ASSUME runErr = "none", NEW j \in 1..Len(log'), log'[j].k = "input", NEW n, n = log'[j].id
          PROVE  Given(n) /\ n > log[1].id
      <4>1. CASE j \in 1..Len(log)
        BY <2>3, <3>3, <3>7, <4>1 DEF TraceHoldsInputs
      <4>2. CASE j = Len(log')
        <5>1. n = todo[1].id /\ todo[1] \in given
          BY <2>1, <2>9, <3>1, <3>3, <3>7, <4>2 DEF GivenIsPast
        <5>. QED
          BY <2>2, <2>4, <2>5, <5>1 DEF Given
      <4>. QED
        BY <3>3, <4>1, <4>2
    <3>8. ASSUME runErr' = "none", NEW j \in 1..Len(log'), log'[j].k = "input", NEW n, n = log'[j].id
          PROVE  Given(n)' /\ n > log'[1].id /\ ~InHand(n)'
      BY <2>1, <2>7, <3>3, <3>7, <3>8 DEF Given
    <3>. QED
      BY <2>4, <3>3, <3>4, <3>6, <3>8 DEF TraceHoldsInputs, InHand, Kept, Given
  <2>. QED
    BY <2>8, <2>9
<1>25. CASE Handled
  <2>1. SameHand /\ given' = given
    BY <1>25 DEF Handled, SameHand
  <2>2. LogsNoInput
    BY <1>25 DEF Handled, LogsNoInput
  <2>3. runErr' = "none" => runErr = "none"
    BY <1>25 DEF Handled
  <2>. QED
    BY <1>1, <2>1, <2>2, <2>3, NoInputLogged DEF Domains
<1>26. CASE LoopEnds
  <2>1. SameHand /\ given' = given
    BY <1>26 DEF LoopEnds, SameHand
  <2>2. LogsNoInput
    BY <1>26 DEF LoopEnds, LogsNoInput
  <2>3. runErr' = "none" => runErr = "none"
    BY <1>26 DEF LoopEnds
  <2>. QED
    BY <1>1, <2>1, <2>2, <2>3, NoInputLogged DEF Domains
<1>27. CASE Finalize
  <2>1. SameHand /\ given' = given
    BY <1>27 DEF Finalize, WithPendingWait, Wait, ClearQuiet, Redraw, Recorded, Succeeds,
         EndOf, Fails, others, SameHand
  <2>2. LogsNoInput
    BY <1>27 DEF Finalize, Succeeds, EndOf, LogsNoInput
  <2>3. runErr' = "none" => runErr = "none"
    BY <1>27 DEF Finalize, Fails
  <2>. QED
    BY <1>1, <2>1, <2>2, <2>3, NoInputLogged DEF Domains
<1>28. CASE Return
  <2>1. SameHand /\ given' = given
    BY <1>28 DEF Return, SameHand
  <2>2. LogsNoInput
    BY <1>28 DEF Return, LogsNoInput
  <2>3. runErr' = "none" => runErr = "none"
    BY <1>28 DEF Return
  <2>. QED
    BY <1>1, <2>1, <2>2, <2>3, NoInputLogged DEF Domains
<1>29. CASE UNCHANGED vars
  <2>1. SameHand /\ LogsNoInput /\ given' = given /\ runErr' = runErr
    BY <1>29 DEF SameHand, LogsNoInput
  <2>. QED
    BY <1>1, <2>1, NoInputLogged DEF Domains
<1>. QED
  BY <1>2, <1>3, <1>4, <1>5, <1>6, <1>7, <1>8, <1>9, <1>10, <1>11, <1>12,
     <1>13, <1>14, <1>15, <1>16, <1>17, <1>18, <1>19, <1>20, <1>21, <1>22,
     <1>23, <1>24, <1>25, <1>26, <1>27, <1>28, <1>29 DEF Next, Loop, Over

(* At most a resize or a wait is added to the script.                       *)
ScriptsNoInput ==
  script' = "recording" =>
    /\ script = "recording"
    /\ ops' = ops \/ \E o \in Op : o.ids = {} /\ ops' = Append(ops, o)

(* A script that records no input while none is given goes on holding all.  *)
LEMMA NoInputScripted ==
  ASSUME RecorderType, ScriptHoldsInputs, SameHand, ScriptsNoInput, given' = given,
         partial' = partial, ~ptyDone' => ~ptyDone, runErr' = "none" => runErr = "none"
  PROVE  ScriptHoldsInputs'
<1>1. SUFFICES ASSUME script' = "recording"
               PROVE  ScriptHoldsInputs'
  BY DEF ScriptHoldsInputs
<1>2. script = "recording" /\ ops \in Seq(Op) /\ ops # <<>>
  BY <1>1 DEF ScriptsNoInput, ScriptHoldsInputs, RecorderType
<1>3. Len(ops) \in Nat /\ 1 \in 1..Len(ops)
  BY <1>2
<1>4. /\ Len(ops') \in Nat /\ Len(ops') >= Len(ops) /\ ops' # <<>>
      /\ \A j \in 1..Len(ops) : j \in 1..Len(ops') /\ ops'[j] = ops[j]
      /\ \A j \in 1..Len(ops') : j \in 1..Len(ops) \/ ops'[j].ids = {}
  BY <1>1, <1>2, <1>3 DEF ScriptsNoInput
<1>5. ops'[1] = ops[1]
  BY <1>3, <1>4
<1>6. \A n : InHand(n)' <=> InHand(n)
  BY DEF InHand, SameHand
<1>7. \A n : Written(n) => Written(n)'
  BY <1>4 DEF Written
<1>8. SUFFICES ASSUME ~partial, ~ptyDone
               PROVE  /\ ops'[1].fed = 0
                      /\ \A g \in given' : g.k # "unknown" /\ ~InHand(g.id)' => Written(g.id)'
                      /\ runErr' = "none" => \A j \in 1..Len(ops') : \A n \in ops'[j].ids :
                           Expressed(n)' /\ ~InHand(n)'
  BY <1>4 DEF ScriptHoldsInputs
<1>9. \A g \in given' : g.k # "unknown" /\ ~InHand(g.id)' => Written(g.id)'
  BY <1>2, <1>6, <1>7, <1>8 DEF ScriptHoldsInputs
<1>10. ASSUME runErr' = "none", NEW j \in 1..Len(ops'), NEW n \in ops'[j].ids
       PROVE  Expressed(n)' /\ ~InHand(n)'
  <2>1. j \in 1..Len(ops) /\ n \in ops[j].ids
    BY <1>4, <1>10
  <2>. QED
    BY <1>2, <1>6, <1>8, <1>10, <2>1 DEF ScriptHoldsInputs, Expressed
<1>. QED
  BY <1>2, <1>5, <1>8, <1>9, <1>10 DEF ScriptHoldsInputs

(* What Scripted does: the item's number is written, and no other, and an   *)
(* operation recorded before keeps its kind and its place.                  *)
LEMMA ScriptedInput ==
  ASSUME RecorderType, OutcomeType, NEW item \in Item, item.k # "unknown",
         script = "recording", ops # <<>>, ops' = Scripted(item)
  PROVE  /\ Len(ops) \in Nat \ {0} /\ Len(ops') \in Nat /\ ops' # <<>>
         /\ \A j \in 1..Len(ops) :
              /\ j \in 1..Len(ops') /\ ops'[j].k = ops[j].k /\ ops'[j].fed = ops[j].fed
              /\ ops[j].k = "wait" => ops'[j] = ops[j]
         /\ \A j \in 1..Len(ops') : j \in 1..Len(ops) \/ (j = Len(ops') /\ ops'[j].k = item.k)
         /\ ops'[Len(ops')].k # "wait"
         /\ \A n : Written(n)' <=> Written(n) \/ n = item.id
<1>1. ops \in Seq(Op) /\ item.id \in Nat /\ item.k \in AllKinds /\ item.k # "wait"
  BY DEF RecorderType, Item, AllKinds
<1>2. Len(ops) \in Nat \ {0} /\ Len(ops) \in 1..Len(ops) /\ Last(ops) = ops[Len(ops)]
  BY <1>1 DEF Last
<1>3. CASE item.k = "text" /\ Last(ops).k = "text"
  <2> DEFINE o == [ops[Len(ops)] EXCEPT !.ids = @ \cup {item.id}]
  <2>1. ops' = [ops EXCEPT ![Len(ops)] = o]
    BY <1>2, <1>3 DEF Scripted
  <2>2. ops[Len(ops)] \in [k : AllKinds \cup {"resize"}, ids : SUBSET Nat, fed : Nat]
    BY <1>1, <1>2, <1>3 DEF Op
  <2>3. o.k = "text" /\ o.fed = ops[Len(ops)].fed /\ o.ids = ops[Len(ops)].ids \cup {item.id}
    BY <1>2, <1>3, <2>2
  <2>. HIDE DEF o
  <2>4. /\ Len(ops') = Len(ops) /\ ops'[Len(ops)] = o
        /\ \A j \in 1..Len(ops) : j # Len(ops) => ops'[j] = ops[j]
    BY <1>1, <1>2, <2>1
  <2>5. \A n : Written(n)' <=> Written(n) \/ n = item.id
    BY <1>2, <2>3, <2>4 DEF Written
  <2>6. \A j \in 1..Len(ops) :
          /\ ops'[j].k = ops[j].k /\ ops'[j].fed = ops[j].fed
          /\ ops[j].k = "wait" => ops'[j] = ops[j]
    BY <1>2, <1>3, <2>3, <2>4
  <2>7. Len(ops') \in Nat /\ ops' # <<>>
    BY <1>2, <2>4
  <2>8. ops'[Len(ops')].k # "wait"
    BY <1>2, <2>3, <2>4
  <2>9. \A j \in 1..Len(ops') : j \in 1..Len(ops) \/ (j = Len(ops') /\ ops'[j].k = item.k)
    BY <2>4
  <2>10. \A j \in 1..Len(ops) :
           /\ j \in 1..Len(ops') /\ ops'[j].k = ops[j].k /\ ops'[j].fed = ops[j].fed
           /\ ops[j].k = "wait" => ops'[j] = ops[j]
    BY <2>4, <2>6
  <2>. QED
    BY <1>2, <2>5, <2>7, <2>8, <2>9, <2>10
<1>4. CASE ~(item.k = "text" /\ Last(ops).k = "text")
  <2>1. ops' = Append(ops, Operation(item))
    BY <1>4 DEF Scripted
  <2>2. Operation(item).k = item.k /\ Operation(item).ids = {item.id}
    BY DEF Operation
  <2>3. /\ Len(ops') = Len(ops) + 1 /\ ops'[Len(ops')] = Operation(item)
        /\ \A j \in 1..Len(ops) : ops'[j] = ops[j]
    BY <1>1, <2>1
  <2>4. \A n : Written(n)' <=> Written(n) \/ n = item.id
    BY <1>2, <2>2, <2>3 DEF Written
  <2>5. Len(ops') \in Nat /\ ops' # <<>>
    BY <1>2, <2>3
  <2>6. ops'[Len(ops')].k # "wait" /\ ops'[Len(ops')].k = item.k
    BY <1>1, <2>2, <2>3
  <2>7. \A j \in 1..Len(ops) : j \in 1..Len(ops') /\ ops'[j] = ops[j]
    BY <1>2, <2>3
  <2>8. \A j \in 1..Len(ops') : j \in 1..Len(ops) \/ j = Len(ops')
    BY <1>2, <2>3
  <2>9. \A j \in 1..Len(ops) :
          /\ j \in 1..Len(ops') /\ ops'[j].k = ops[j].k /\ ops'[j].fed = ops[j].fed
          /\ ops[j].k = "wait" => ops'[j] = ops[j]
    BY <2>7
  <2>10. \A j \in 1..Len(ops') : j \in 1..Len(ops) \/ (j = Len(ops') /\ ops'[j].k = item.k)
    BY <2>5, <2>6, <2>8
  <2>. QED
    BY <1>2, <2>4, <2>5, <2>6, <2>9, <2>10
<1>. QED
  BY <1>3, <1>4

(* A script that is not partial holds the inputs given: scriptController    *)
(* starts partial once there was activity, and every input it can express   *)
(* is recorded.                                                             *)
LEMMA ScriptHoldsInputsStep ==
  ASSUME Domains, Phases, GivenIsPast, NothingYet, ScriptHoldsInputs, [Next]_vars
  PROVE  ScriptHoldsInputs'
<1>. USE DEF vars, kernel, runner, feeders, decoder, tracing,
            scripting, waits, screen, outcome, recorders
<1>1. CASE ChildWrites \/ ChildReads \/ ChildExits \/ SlaveCloses \/ Cancel
  <2>1. /\ SameHand /\ ScriptsNoInput /\ given' = given /\ partial' = partial
        /\ ~ptyDone' => ~ptyDone
    BY <1>1 DEF
       ChildWrites, twee, ChildReads, ChildExits, SlaveCloses, Cancel,
       SameHand, ScriptsNoInput
  <2>2. runErr' = "none" => runErr = "none"
    BY <1>1 DEF ChildWrites,
       twee, ChildReads, ChildExits, SlaveCloses, Cancel
  <2>. QED
    BY <2>1, <2>2, NoInputScripted DEF Domains
<1>2. CASE KillByContext \/ PublishExit \/ CloserKills \/ CloserCloses
  <2>1. /\ SameHand /\ ScriptsNoInput /\ given' = given /\ partial' = partial
        /\ ~ptyDone' => ~ptyDone
    BY <1>2 DEF
       KillByContext, twee, PublishExit, CloserKills, CloserCloses,
       SameHand, ScriptsNoInput
  <2>2. runErr' = "none" => runErr = "none"
    BY <1>2 DEF KillByContext,
       twee, PublishExit, CloserKills, CloserCloses
  <2>. QED
    BY <2>1, <2>2, NoInputScripted DEF Domains
<1>3. CASE ReadChunk \/ ReadEnd
  <2>1. /\ SameHand /\ ScriptsNoInput /\ given' = given /\ partial' = partial
        /\ ~ptyDone' => ~ptyDone
    BY <1>3 DEF
       ReadChunk, Output, loop, ReadEnd, SameHand, ScriptsNoInput
  <2>2. runErr' = "none" => runErr = "none"
    BY <1>3 DEF ReadChunk,
       Output, loop, ReadEnd
  <2>. QED
    BY <2>1, <2>2, NoInputScripted DEF Domains
<1>4. CASE SendEvent
  <2>1. /\ SameHand /\ ScriptsNoInput /\ given' = given /\ partial' = partial
        /\ ~ptyDone' => ~ptyDone
    BY <1>4 DEF
       SendEvent, Sent, SameHand, ScriptsNoInput
  <2>2. runErr' = "none" => runErr = "none"
    BY <1>4 DEF SendEvent, Sent
  <2>. QED
    BY <2>1, <2>2, NoInputScripted DEF Domains
<1>5. CASE HostResizes
  <2>1. /\ SameHand /\ ScriptsNoInput /\ given' = given /\ partial' = partial
        /\ ~ptyDone' => ~ptyDone
    BY <1>5 DEF
       HostResizes, loop, SameHand, ScriptsNoInput
  <2>2. runErr' = "none" => runErr = "none"
    BY <1>5 DEF HostResizes,
       loop
  <2>. QED
    BY <2>1, <2>2, NoInputScripted DEF Domains
<1>6. CASE \E k \in env.kinds : Type(k)
  <2>1. /\ SameHand /\ ScriptsNoInput /\ given' = given /\ partial' = partial
        /\ ~ptyDone' => ~ptyDone
    BY <1>6 DEF
       Type, loop, SameHand, ScriptsNoInput
  <2>2. runErr' = "none" => runErr = "none"
    BY <1>6 DEF Type, loop
  <2>. QED
    BY <2>1, <2>2, NoInputScripted DEF Domains
<1>7. CASE TakeOutput
  <2>1. /\ SameHand /\ ScriptsNoInput /\ given' = given /\ partial' = partial
        /\ ~ptyDone' => ~ptyDone
    BY <1>7, TakeEvent DEF
       TakeOutput, RecordedOutput, ScheduleRedraw, SameHand, ScriptsNoInput,
       Domains
  <2>2. runErr' = "none" => runErr = "none"
    BY <1>7 DEF TakeOutput,
       RecordedOutput, ScheduleRedraw
  <2>. QED
    BY <2>1, <2>2, NoInputScripted DEF Domains
<1>8. CASE WriteReply
  <2>1. /\ SameHand /\ ScriptsNoInput /\ given' = given /\ partial' = partial
        /\ ~ptyDone' => ~ptyDone
    BY <1>8 DEF
       WriteReply, WriteFails, Fails, Recorded, SameHand, ScriptsNoInput
  <2>2. runErr' = "none" => runErr = "none"
    BY <1>8 DEF WriteReply,
       WriteFails, Fails, Recorded
  <2>. QED
    BY <2>1, <2>2, NoInputScripted DEF Domains
<1>9. CASE TakeInput
  <2>1. /\ SameHand /\ ScriptsNoInput /\ given' = given /\ partial' = partial
        /\ ~ptyDone' => ~ptyDone
    BY <1>9, TakeEvent DEF
       TakeInput, Decoded, SameHand, ScriptsNoInput, Domains
  <2>2. runErr' = "none" => runErr = "none"
    BY <1>9 DEF TakeInput,
       Decoded
  <2>. QED
    BY <2>1, <2>2, NoInputScripted DEF Domains
<1>10. CASE TakeResize
  <2>1. SameHand /\ given' = given /\ partial' = partial /\ ptyDone' = ptyDone
    BY <1>10, TakeEvent DEF TakeResize, SameHand, Domains
  <2>2. runErr' = "none" => runErr = "none"
    BY <1>10 DEF TakeResize, Fails
  <2>3. Resized \in Op /\ Resized.ids = {}
    BY ResizedType DEF Resized, Domains
  <2>4. ScriptsNoInput
    BY <1>10, <2>3 DEF TakeResize, ScriptsNoInput
  <2>. QED
    BY <2>1, <2>2, <2>4, NoInputScripted DEF Domains
<1>11. CASE TakeFatal
  <2>1. /\ SameHand /\ ScriptsNoInput /\ given' = given /\ partial' = partial
        /\ ~ptyDone' => ~ptyDone
    BY <1>11, TakeEvent DEF
       TakeFatal, Fails, StopChild, others, SameHand, ScriptsNoInput,
       Domains
  <2>2. runErr' = "none" => runErr = "none"
    BY <1>11 DEF TakeFatal,
       Fails, StopChild, others
  <2>. QED
    BY <2>1, <2>2, NoInputScripted DEF Domains
<1>12. CASE TakeDone
  <2>1. /\ SameHand /\ ScriptsNoInput /\ given' = given /\ partial' = partial
        /\ ~ptyDone' => ~ptyDone
    BY <1>12, TakeEvent DEF
       TakeDone, Redraw, SameHand, ScriptsNoInput, Domains
  <2>2. runErr' = "none" => runErr = "none"
    BY <1>12 DEF TakeDone,
       Redraw
  <2>. QED
    BY <2>1, <2>2, NoInputScripted DEF Domains
<1>13. CASE RedrawFires
  <2>1. /\ SameHand /\ ScriptsNoInput /\ given' = given /\ partial' = partial
        /\ ~ptyDone' => ~ptyDone
    BY <1>13 DEF
       RedrawFires, Redraw, SameHand, ScriptsNoInput
  <2>2. runErr' = "none" => runErr = "none"
    BY <1>13 DEF RedrawFires,
       Redraw
  <2>. QED
    BY <2>1, <2>2, NoInputScripted DEF Domains
<1>14. CASE QuietFires
  <2>1. SameHand /\ given' = given /\ UNCHANGED <<script, partial, ptyDone, runErr>>
    BY <1>14 DEF QuietFires, SameHand
  <2>2. Wait \in Op /\ Wait.ids = {}
    BY DEF Wait, Op, Domains, RecorderType, OutcomeType
  <2>3. ScriptsNoInput
    BY <1>14, <2>1, <2>2 DEF QuietFires, WithPendingWait, ScriptsNoInput
  <2>. QED
    BY <2>1, <2>3, NoInputScripted DEF Domains
<1>15. CASE EscapeFires
  <2>1. /\ SameHand /\ ScriptsNoInput /\ given' = given /\ partial' = partial
        /\ ~ptyDone' => ~ptyDone
    BY <1>15 DEF
       EscapeFires, Redraw, SameHand, ScriptsNoInput
  <2>2. runErr' = "none" => runErr = "none"
    BY <1>15 DEF EscapeFires,
       Redraw
  <2>. QED
    BY <2>1, <2>2, NoInputScripted DEF Domains
<1>16. CASE ContextDone
  <2>1. /\ SameHand /\ ScriptsNoInput /\ given' = given /\ partial' = partial
        /\ ~ptyDone' => ~ptyDone
    BY <1>16 DEF
       ContextDone, StopChild, others, SameHand, ScriptsNoInput
  <2>2. runErr' = "none" => runErr = "none"
    BY <1>16 DEF ContextDone,
       StopChild, others
  <2>. QED
    BY <2>1, <2>2, NoInputScripted DEF Domains
<1>17. CASE Prompt
  <2>1. /\ SameHand /\ ScriptsNoInput /\ given' = given /\ partial' = partial
        /\ ~ptyDone' => ~ptyDone
    BY <1>17 DEF
       Prompt, Recorded, Redraw, SameHand, ScriptsNoInput
  <2>2. runErr' = "none" => runErr = "none"
    BY <1>17 DEF Prompt,
       Recorded, Redraw
  <2>. QED
    BY <2>1, <2>2, NoInputScripted DEF Domains
<1>18. CASE Quit
  <2>1. /\ SameHand /\ ScriptsNoInput /\ given' = given /\ partial' = partial
        /\ ~ptyDone' => ~ptyDone
    BY <1>18 DEF
       Quit, Handle, Redraw, StopChild, others, SameHand, ScriptsNoInput
  <2>2. runErr' = "none" => runErr = "none"
    BY <1>18 DEF Quit, Handle,
       Redraw, StopChild, others
  <2>. QED
    BY <2>1, <2>2, NoInputScripted DEF Domains
<1>19. CASE StartMarker
  <2>1. /\ SameHand /\ ScriptsNoInput /\ given' = given /\ partial' = partial
        /\ ~ptyDone' => ~ptyDone
    BY <1>19 DEF
       StartMarker, Handle, Redraw, SameHand, ScriptsNoInput
  <2>2. runErr' = "none" => runErr = "none"
    BY <1>19 DEF StartMarker,
       Handle, Redraw
  <2>. QED
    BY <2>1, <2>2, NoInputScripted DEF Domains
<1>20. CASE ToggleTrace
  <2>1. /\ SameHand /\ ScriptsNoInput /\ given' = given /\ partial' = partial
        /\ ~ptyDone' => ~ptyDone
    BY <1>20 DEF
       ToggleTrace, Handle, Redraw, Succeeds, EndOf, Seed, Fails, SameHand,
       ScriptsNoInput
  <2>2. runErr' = "none" => runErr = "none"
    BY <1>20 DEF ToggleTrace,
       Handle, Redraw, Succeeds, EndOf, Seed, Fails
  <2>. QED
    BY <2>1, <2>2, NoInputScripted DEF Domains
<1>21. CASE ToggleScript
  <2>1. SameHand /\ pc = "handle" /\ pc' = "handle" /\ given' = given /\ UNCHANGED ptyDone
    BY <1>21 DEF ToggleScript, Handle, SameHand
  <2>2. runErr' = "none" => runErr = "none"
    BY <1>21 DEF ToggleScript, Fails
  <2>3. CASE script = "idle"
    <3>1. partial' = active /\ (script' = "recording" => ops' = <<Resized>>)
      BY <1>21, <2>3 DEF ToggleScript, PartialStart
    <3>2. SUFFICES ASSUME script' = "recording"
                   PROVE  ScriptHoldsInputs'
      BY DEF ScriptHoldsInputs
    <3>3. Len(ops') = 1 /\ ops' # <<>> /\ ops'[1] = Resized
      BY <3>1, <3>2
    <3>4. ops'[1].fed = fed /\ ops'[1].ids = {} /\ \A j \in 1..Len(ops') : ops'[j].ids = {}
      BY <3>3 DEF Resized
    <3>5. ~active => fed = 0 /\ given = {}
      BY <2>1 DEF NothingYet
    <3>. QED
      BY <2>1, <3>1, <3>3, <3>4, <3>5 DEF ScriptHoldsInputs
  <2>4. CASE script # "idle"
    <3>1. script' = "recording" => script = "recording" /\ ops' = ops
      BY <1>21, <2>4 DEF ToggleScript, EndOf
    <3>2. ScriptsNoInput /\ partial' = partial
      BY <1>21, <2>4, <3>1 DEF ToggleScript, ScriptsNoInput
    <3>. QED
      BY <2>1, <2>2, <3>2, NoInputScripted DEF Domains
  <2>. QED
    BY <2>3, <2>4
<1>22. CASE Forward
  <2>1. /\ pc = "handle" /\ pc' = "record" /\ todo' = todo /\ todo # <<>>
        /\ UNCHANGED <<script, ops, partial, ptyDone>>
    BY <1>22 DEF Forward
  <2>2. /\ Head(todo) = todo[1] /\ \A g \in given' : g \in given \/ g = todo[1]
        /\ given \subseteq given'
    BY <1>22, <2>1, HeadItem DEF Forward, Domains
  <2>3. \A g \in given : g.id < todo[1].id /\ g.id \in Nat
    BY <2>1, HeadItem DEF GivenIsPast, Ahead, Domains, OutcomeType, Item
  <2>4. \A g \in given : g.id # todo[1].id
    BY <2>1, <2>3, HeadItem DEF Domains
  <2>5. \A n : (InHand(n)' <=> n = todo[1].id) /\ ~InHand(n)
    BY <2>1 DEF InHand
  <2>6. runErr' = "none" => runErr = "none"
    BY <1>22 DEF Forward, Fails
  <2>7. \A n : Written(n)' <=> Written(n)
    BY <2>1 DEF Written
  <2>8. SUFFICES ASSUME script = "recording", ~partial, ~ptyDone
                 PROVE  /\ ops[1].fed = 0
                        /\ \A g \in given' : g.k # "unknown" /\ ~InHand(g.id)' => Written(g.id)'
                        /\ runErr' = "none" => \A j \in 1..Len(ops) : \A n \in ops[j].ids :
                             Expressed(n)' /\ ~InHand(n)'
    BY <2>1 DEF ScriptHoldsInputs
  <2>9. \A g \in given' : g.k # "unknown" /\ ~InHand(g.id)' => Written(g.id)'
    BY <2>2, <2>5, <2>7, <2>8 DEF ScriptHoldsInputs
  <2>10. ASSUME runErr' = "none", NEW j \in 1..Len(ops), NEW n \in ops[j].ids
         PROVE  Expressed(n)' /\ ~InHand(n)'
    <3>1. Expressed(n)
      BY <2>6, <2>8, <2>10 DEF ScriptHoldsInputs
    <3>. QED
      BY <2>2, <2>4, <2>5, <3>1 DEF Expressed
  <2>. QED
    BY <2>8, <2>9, <2>10 DEF ScriptHoldsInputs
<1>23. CASE RecordForwarded
  <2>1. /\ pc = "record" /\ pc' = "handle" /\ todo # <<>>
        /\ UNCHANGED <<script, partial, ptyDone, given, runErr>>
    BY <1>23 DEF RecordForwarded, Phases, Domains
  <2>2. Head(todo) = todo[1] /\ todo[1] \in Item /\ todo[1].id \in Nat
    BY <2>1, HeadItem DEF Domains
  <2>3. ops' = Scripted(todo[1])
    BY <1>23, <2>2 DEF RecordForwarded
  <2>4. \A n : (InHand(n) <=> n = todo[1].id) /\ ~InHand(n)'
    BY <2>1 DEF InHand
  <2>5. \A n : Expressed(n)' <=> Expressed(n)
    BY <2>1 DEF Expressed
  <2>6. SUFFICES ASSUME script = "recording"
                 PROVE  ScriptHoldsInputs'
    BY <2>1 DEF ScriptHoldsInputs
  <2>7. ops # <<>> /\ Len(ops) \in Nat \ {0} /\ 1 \in 1..Len(ops)
    BY <2>6 DEF ScriptHoldsInputs, Domains, RecorderType
  <2>8. CASE todo[1].k = "unknown"
    <3>1. ops' = ops
      BY <2>3, <2>8 DEF Scripted
    <3>2. \A g \in given : g = todo[1] \/ g.id # todo[1].id
      BY <2>1, <2>2, HeadItem DEF GivenIsPast, Ahead, Domains
    <3>3. \A g \in given : g.k # "unknown" => ~InHand(g.id)
      BY <2>4, <2>8, <3>2
    <3>4. \A n : Written(n)' <=> Written(n)
      BY <3>1 DEF Written
    <3>5. SUFFICES ASSUME ~partial, ~ptyDone
                   PROVE  /\ ops[1].fed = 0
                          /\ \A g \in given : g.k # "unknown" => Written(g.id)
                          /\ runErr = "none" => \A j \in 1..Len(ops) : \A n \in ops[j].ids : Expressed(n)
      BY <2>1, <2>4, <2>5, <2>7, <3>1, <3>4 DEF ScriptHoldsInputs
    <3>. QED
      BY <2>6, <3>3, <3>5 DEF ScriptHoldsInputs
  <2>9. CASE todo[1].k # "unknown"
    <3>1. /\ Len(ops') \in Nat /\ ops' # <<>> /\ ops'[1].fed = ops[1].fed
          /\ \A n : Written(n)' <=> Written(n) \/ n = todo[1].id
      BY <2>2, <2>3, <2>6, <2>7, <2>9, ScriptedInput DEF Domains
    <3>2. SUFFICES ASSUME ~partial, ~ptyDone
                   PROVE  /\ ops[1].fed = 0
                          /\ \A g \in given : g.k # "unknown" => Written(g.id)'
                          /\ runErr = "none" => \A n : Written(n)' => Expressed(n)
      BY <2>1, <2>4, <2>5, <3>1 DEF ScriptHoldsInputs, Written
    <3>3. \A g \in given : g.k # "unknown" => Written(g.id)'
      BY <2>4, <2>6, <3>1, <3>2 DEF ScriptHoldsInputs
    <3>4. runErr = "none" => \A n : Written(n) => Expressed(n)
      BY <2>6, <3>2 DEF ScriptHoldsInputs, Written
    <3>5. runErr = "none" => Expressed(todo[1].id)
      BY <2>1, <2>9, <3>2 DEF GivenIsPast, Expressed
    <3>. QED
      BY <2>6, <3>1, <3>2, <3>3, <3>4, <3>5 DEF ScriptHoldsInputs
  <2>. QED
    BY <2>8, <2>9
<1>24. CASE Handled
  <2>1. /\ SameHand /\ ScriptsNoInput /\ given' = given /\ partial' = partial
        /\ ~ptyDone' => ~ptyDone
    BY <1>24 DEF
       Handled, SameHand, ScriptsNoInput
  <2>2. runErr' = "none" => runErr = "none"
    BY <1>24 DEF Handled
  <2>. QED
    BY <2>1, <2>2, NoInputScripted DEF Domains
<1>25. CASE LoopEnds
  <2>1. /\ SameHand /\ ScriptsNoInput /\ given' = given /\ partial' = partial
        /\ ~ptyDone' => ~ptyDone
    BY <1>25 DEF
       LoopEnds, SameHand, ScriptsNoInput
  <2>2. runErr' = "none" => runErr = "none"
    BY <1>25 DEF LoopEnds
  <2>. QED
    BY <2>1, <2>2, NoInputScripted DEF Domains
<1>26. CASE Finalize
  <2>1. script' # "recording"
    BY <1>26 DEF Finalize, Succeeds, EndOf
  <2>. QED
    BY <2>1 DEF ScriptHoldsInputs
<1>27. CASE Return
  <2>1. /\ SameHand /\ ScriptsNoInput /\ given' = given /\ partial' = partial
        /\ ~ptyDone' => ~ptyDone
    BY <1>27 DEF
       Return, SameHand, ScriptsNoInput
  <2>2. runErr' = "none" => runErr = "none"
    BY <1>27 DEF Return
  <2>. QED
    BY <2>1, <2>2, NoInputScripted DEF Domains
<1>28. CASE UNCHANGED vars
  <2>1. /\ SameHand /\ ScriptsNoInput /\ given' = given /\ partial' = partial
        /\ ptyDone' = ptyDone /\ runErr' = runErr
    BY <1>28 DEF SameHand, ScriptsNoInput
  <2>. QED
    BY <2>1, NoInputScripted DEF Domains
<1>. QED
  BY <1>1, <1>2, <1>3, <1>4, <1>5, <1>6, <1>7, <1>8, <1>9, <1>10, <1>11,
     <1>12, <1>13, <1>14, <1>15, <1>16, <1>17, <1>18, <1>19, <1>20, <1>21,
     <1>22, <1>23, <1>24, <1>25, <1>26, <1>27, <1>28 DEF Next, Loop, Over

-----------------------------------------------------------------------------
(* Chunks, from the child to the model.                                     *)

(* The chunk that the reader takes from the PTY.                            *)
LEMMA ReadFacts ==
  ASSUME KernelType, ReadChunk
  PROVE  /\ Len(outq) \in Nat \ {0} /\ Head(outq) = outq[1] /\ outq[1] \in Chunk
         /\ outq[1].n \in Nat
         /\ outq' \in Seq(Chunk) /\ Len(outq') = Len(outq) - 1
         /\ \A i \in 1..Len(outq') : outq'[i] = outq[i + 1] /\ i + 1 \in 1..Len(outq)
         /\ held' = <<[k |-> "output", chunk |-> outq[1]]>>
         /\ lastRead' = outq[1].n /\ reader = "read" /\ reader' = "send"
<1>1. outq \in Seq(Chunk) /\ outq # <<>> /\ outq' = Tail(outq)
  BY DEF KernelType, ReadChunk
<1>2. /\ Len(outq) \in Nat \ {0} /\ Head(outq) = outq[1] /\ outq[1] \in Chunk
      /\ outq' \in Seq(Chunk) /\ Len(outq') = Len(outq) - 1
      /\ \A i \in 1..Len(outq') : outq'[i] = outq[i + 1] /\ i + 1 \in 1..Len(outq)
  BY <1>1, HeadTail
<1>3. outq[1].n \in Nat
  BY <1>2 DEF Chunk
<1>. QED
  BY <1>2, <1>3 DEF ReadChunk, Output

(* A chunk that the child writes joins those in the PTY.                    *)
LEMMA WriteFacts ==
  ASSUME KernelType, ChildWrites
  PROVE  /\ Len(outq) \in Nat /\ Len(outq') = Len(outq) + 1
         /\ \A i \in 1..Len(outq) : outq'[i] = outq[i]
         /\ outq'[Len(outq')].n = emitted + 1 /\ outq'[Len(outq')].seen = seen
         /\ emitted' = emitted + 1 /\ slave
<1>1. PICK asks \in BOOLEAN : outq' = Append(outq, [n |-> emitted + 1, seen |-> seen, asks |-> asks])
  BY DEF ChildWrites
<1>2. outq \in Seq(Chunk)
  BY DEF KernelType
<1>3. /\ Len(outq) \in Nat /\ Len(outq') = Len(outq) + 1
      /\ \A i \in 1..Len(outq) : outq'[i] = outq[i]
      /\ outq'[Len(outq')] = [n |-> emitted + 1, seen |-> seen, asks |-> asks]
  BY <1>1, <1>2
<1>. QED
  BY <1>3 DEF ChildWrites

(* The event that the reader sends.                                         *)
LEMMA SendFacts ==
  ASSUME QueueType, OutputOrder, EndOrder, SendEvent
  PROVE  /\ held # <<>> /\ held[1] \in Event
         /\ Len(events) \in Nat /\ Len(events') = Len(events) + 1
         /\ \A i \in 1..Len(events) : events'[i] = events[i]
         /\ events'[Len(events')] = held[1]
         /\ held' = Tail(held)
<1>1. held # <<>> /\ held[1] \in Event /\ events' = Append(events, held[1]) /\ held' = Tail(held)
  BY HeldEvent DEF SendEvent, Sent
<1>. QED
  BY <1>1, AppendEvent

(* What the user's terminal sends.                                          *)
LEMMA TerminalFacts ==
  ASSUME KernelType, QueueType, HostResizes \/ \E k \in env.kinds : Type(k)
  PROVE  /\ Len(events) \in Nat /\ Len(events') = Len(events) + 1
         /\ \A i \in 1..Len(events) : events'[i] = events[i]
         /\ events'[Len(events')].k \in {"input", "resize"}
         /\ UNCHANGED <<reader, held, lastRead, kernel, runner, loop>>
<1>1. CASE HostResizes
  <2>1. [k |-> "resize"] \in Event
    BY DEF Event
  <2>. QED
    BY <1>1, <2>1, AppendEvent DEF HostResizes
<1>2. CASE \E k \in env.kinds : Type(k)
  <2>1. PICK kind \in env.kinds : Type(kind)
    BY <1>2
  <2> DEFINE e == [k |-> "input", item |-> [k |-> kind, id |-> typed + 1]]
  <2>2. [k |-> kind, id |-> typed + 1] \in Item
    BY <2>1, Bounds DEF Item, QueueType
  <2>3. e \in Event /\ e.k = "input"
    BY <2>2 DEF Event
  <2>4. events' = Append(events, e) /\ UNCHANGED <<reader, held, lastRead, kernel, runner, loop>>
    BY <2>1 DEF Type
  <2>. HIDE DEF e
  <2>. QED
    BY <2>3, <2>4, AppendEvent
<1>. QED
  BY <1>1, <1>2

(* Taking an event only moves the later ones up.                            *)
LEMMA SeenStaysGiven ==
  ASSUME Domains, SeenWasGiven, NEW k, Take(k), UNCHANGED <<inq, seen, outq, held, given>>
  PROVE  SeenWasGiven'
<1>1. \A i \in 1..Len(events') : events'[i] = events[i + 1] /\ i + 1 \in 1..Len(events)
  BY TakeEvent DEF Domains
<1>2. \A n : Given(n)' <=> Given(n)
  BY DEF Given
<1>3. \A i \in 1..Len(events') : IsOutput(i)' => \A n \in events'[i].chunk.seen : Given(n)
  BY <1>1 DEF SeenWasGiven, IsOutput
<1>. QED
  BY <1>2, <1>3 DEF SeenWasGiven

(* What the child has read was written to the PTY, and a chunk only says    *)
(* it had read what the child had read by then.                             *)
LEMMA SeenWasGivenStep ==
  ASSUME Domains, OutputOrder, EndOrder, SeenWasGiven, [Next]_vars
  PROVE  SeenWasGiven'
<1>. USE DEF SeenWasGiven, IsOutput, Given, vars, kernel, runner, feeders,
            decoder, tracing, scripting, waits, screen, outcome, recorders
<1>1. CASE ChildWrites
  BY <1>1, WriteFacts DEF ChildWrites, twee, Domains
<1>2. CASE ChildReads
  <2>1. /\ Len(inq) \in Nat \ {0} /\ Head(inq) = inq[1] /\ Len(inq') = Len(inq) - 1
        /\ \A i \in 1..Len(inq') : inq'[i] = inq[i + 1] /\ i + 1 \in 1..Len(inq)
    BY <1>2, HeadTail DEF ChildReads, Domains, KernelType
  <2>2. \A n \in seen' : n \in seen \/ (n = inq[1] /\ n # 0)
    BY <1>2, <2>1 DEF ChildReads
  <2>3. inq[1] = 0 \/ Given(inq[1])
    BY <2>1
  <2>4. \A n \in seen' : Given(n)
    BY <2>2, <2>3
  <2>5. \A i \in 1..Len(inq') : inq'[i] = 0 \/ Given(inq'[i])
    BY <2>1
  <2>6. UNCHANGED <<outq, held, events, given>>
    BY <1>2 DEF ChildReads, twee
  <2>. QED
    BY <2>4, <2>5, <2>6
<1>3. CASE ChildExits \/ SlaveCloses \/ Cancel \/ KillByContext \/ PublishExit
         \/ CloserKills \/ CloserCloses
  BY <1>3 DEF ChildExits, twee, SlaveCloses, Cancel, KillByContext,
     PublishExit, CloserKills, CloserCloses
<1>4. CASE ReadChunk
  <2>1. UNCHANGED <<inq, seen, events, given>>
    BY <1>4 DEF ReadChunk, loop
  <2>2. Len(held') = 1 /\ held'[1].chunk = outq[1]
    BY <1>4, ReadFacts DEF Domains
  <2>3. \A n \in outq[1].seen : Given(n)
    BY <1>4, ReadFacts DEF Domains
  <2>4. \A i \in 1..Len(outq') : \A n \in outq'[i].seen : Given(n)
    BY <1>4, ReadFacts DEF Domains
  <2>. QED
    BY <2>1, <2>2, <2>3, <2>4
<1>5. CASE ReadEnd
  <2>1. UNCHANGED <<inq, seen, outq, events, given>>
    BY <1>5 DEF ReadEnd, loop
  <2>2. \A i \in 1..Len(held') : held'[i].k # "output"
    BY <1>5 DEF ReadEnd
  <2>. QED
    BY <2>1, <2>2
<1>6. CASE SendEvent
  <2>1. UNCHANGED <<inq, seen, outq, given>>
    BY <1>6 DEF SendEvent, Sent
  <2>2. Len(held) \in Nat \ {0} /\ \A i \in 1..Len(held') : held'[i] = held[i + 1] /\ i + 1 \in 1..Len(held)
    BY <1>6, SendFacts, HeldEvent DEF Domains
  <2>3. held[1].k = "output" => \A n \in held[1].chunk.seen : Given(n)
    BY <2>2
  <2>. QED
    <3>1. /\ Len(events) \in Nat /\ Len(events') = Len(events) + 1
          /\ \A i \in 1..Len(events) : events'[i] = events[i]
          /\ events'[Len(events')] = held[1]
      BY <1>6, SendFacts DEF Domains
    <3>2. \A i \in 1..Len(events') : IsOutput(i)' => \A n \in events'[i].chunk.seen : Given(n)
      BY <2>3, <3>1
    <3>3. \A i \in 1..Len(held') : held'[i].k = "output" => \A n \in held'[i].chunk.seen : Given(n)
      BY <2>2
    <3>. QED
      BY <2>1, <3>2, <3>3
<1>7. CASE HostResizes
  BY <1>7, TerminalFacts DEF Domains, loop
<1>8. CASE \E k \in env.kinds : Type(k)
  BY <1>8, TerminalFacts DEF Domains, loop
<1>9. CASE TakeOutput
  <2>1. UNCHANGED <<inq, seen, outq, held, given>> /\ Take("output")
    BY <1>9 DEF TakeOutput
  <2>. QED
    BY <2>1, SeenStaysGiven
<1>10. CASE WriteReply
  <2>1. UNCHANGED <<seen, outq, held, events, given>>
    BY <1>10 DEF WriteReply
  <2>2. inq' = inq \/ inq' = Append(inq, 0)
    BY <1>10 DEF WriteReply
  <2>3. \A i \in 1..Len(inq') : (i \in 1..Len(inq) /\ inq'[i] = inq[i]) \/ inq'[i] = 0
    BY <2>2 DEF Domains, KernelType
  <2>. QED
    BY <2>1, <2>3
<1>11. CASE TakeInput
  <2>1. UNCHANGED <<inq, seen, outq, held, given>> /\ Take("input")
    BY <1>11 DEF TakeInput
  <2>. QED
    BY <2>1, SeenStaysGiven
<1>12. CASE TakeResize
  <2>1. UNCHANGED <<inq, seen, outq, held, given>> /\ Take("resize")
    BY <1>12 DEF TakeResize
  <2>. QED
    BY <2>1, SeenStaysGiven
<1>13. CASE TakeFatal
  <2>1. UNCHANGED <<inq, seen, outq, held, given>> /\ Take("fatal")
    BY <1>13 DEF TakeFatal
  <2>. QED
    BY <2>1, SeenStaysGiven
<1>14. CASE TakeDone
  <2>1. UNCHANGED <<inq, seen, outq, held, given>> /\ Take("done")
    BY <1>14 DEF TakeDone
  <2>. QED
    BY <2>1, SeenStaysGiven
<1>15. CASE RedrawFires
  BY <1>15 DEF RedrawFires, Redraw
<1>16. CASE QuietFires
  BY <1>16 DEF QuietFires, WithPendingWait, Wait, ClearQuiet
<1>17. CASE EscapeFires
  BY <1>17 DEF EscapeFires, Redraw
<1>18. CASE ContextDone
  BY <1>18 DEF ContextDone, StopChild, others
<1>19. CASE Prompt
  BY <1>19 DEF Prompt, Recorded, Redraw
<1>20. CASE Quit
  BY <1>20 DEF Quit, Handle, Redraw, StopChild, others
<1>21. CASE StartMarker
  BY <1>21 DEF StartMarker, Handle, Redraw
<1>22. CASE ToggleTrace
  BY <1>22 DEF ToggleTrace, Handle, Redraw, Succeeds, EndOf, Seed, Fails
<1>23. CASE ToggleScript
  BY <1>23 DEF ToggleScript, Handle, Redraw, Succeeds, EndOf, Fails,
     WithPendingWait, Wait, ClearQuiet, Resized, PartialStart
<1>24. CASE Forward
  <2>1. UNCHANGED <<seen, outq, held, events>> /\ given \subseteq given'
    BY <1>24 DEF Forward
  <2>2. Head(todo) = todo[1] /\ todo[1].id \in Nat
    BY <1>24, HeadItem DEF Forward, Domains
  <2>3. inq' = inq \/ (inq' = Append(inq, todo[1].id) /\ todo[1] \in given')
    BY <1>24, <2>2 DEF Forward
  <2>4. \A i \in 1..Len(inq') : \/ i \in 1..Len(inq) /\ inq'[i] = inq[i]
                                \/ inq'[i] = todo[1].id /\ todo[1] \in given'
    <3>1. inq \in Seq(Nat)
      BY DEF Domains, KernelType
    <3>2. CASE inq' = inq
      BY <3>2
    <3>3. CASE inq' = Append(inq, todo[1].id) /\ todo[1] \in given'
      BY <2>2, <3>1, <3>3
    <3>. QED
      BY <2>3, <3>2, <3>3
  <2>5. \A n : Given(n) => Given(n)'
    BY <2>1 DEF Given
  <2>6. \A i \in 1..Len(inq') : inq'[i] = 0 \/ \E g \in given' : g.id = inq'[i]
    BY <2>1, <2>4
  <2>. QED
    BY <2>1, <2>5, <2>6
<1>25. CASE RecordForwarded
  BY <1>25 DEF RecordForwarded, Forwards, RecordedInput, Recorded, Input,
     Scripted, Operation, ArmAfterAction
<1>26. CASE Handled
  BY <1>26 DEF Handled
<1>27. CASE LoopEnds
  BY <1>27 DEF LoopEnds
<1>28. CASE Finalize
  BY <1>28 DEF Finalize, WithPendingWait, Wait, ClearQuiet, Redraw,
     Recorded, Succeeds, EndOf, Fails, others
<1>29. CASE Return
  BY <1>29 DEF Return
<1>30. CASE UNCHANGED vars
  BY <1>30
<1>. QED
  BY <1>1, <1>2, <1>3, <1>4, <1>5, <1>6, <1>7, <1>8, <1>9, <1>10, <1>11,
     <1>12, <1>13, <1>14, <1>15, <1>16, <1>17, <1>18, <1>19, <1>20, <1>21,
     <1>22, <1>23, <1>24, <1>25, <1>26, <1>27, <1>28, <1>29, <1>30 DEF Next, Loop, Over

(* An entry that is no output keeps causes before effects.                  *)
LogsNoOutput ==
  \/ log' = log
  \/ \E e \in Entry : e.k # "output" /\ log' \in {<<e>>, Append(log, e)}

(* A trace keeps causes before effects when it records no output.           *)
LEMMA NoOutputLogged ==
  ASSUME RecorderType, CauseBeforeEffect, LogsNoOutput
  PROVE  CauseBeforeEffect'
<1>1. CASE log' = log
  BY <1>1 DEF CauseBeforeEffect
<1>2. ASSUME NEW e \in Entry, e.k # "output", log' = <<e>>
      PROVE  CauseBeforeEffect'
  BY <1>2 DEF CauseBeforeEffect
<1>3. ASSUME NEW e \in Entry, e.k # "output", log' = Append(log, e)
      PROVE  CauseBeforeEffect'
  <2>1. /\ Len(log) \in Nat /\ Len(log') = Len(log) + 1 /\ log'[Len(log')] = e
        /\ \A j \in 1..Len(log) : j \in 1..Len(log') /\ log'[j] = log[j]
        /\ log # <<>> => Head(log') = Head(log)
    BY <1>3 DEF RecorderType
  <2>2. SUFFICES ASSUME NEW j \in 1..Len(log'), log'[j].k = "output", NEW i \in log'[j].seen,
                        i > Head(log').id
                 PROVE  \E k \in 1..(j - 1) : log'[k].k = "input" /\ log'[k].id = i
    BY DEF CauseBeforeEffect
  <2>3. j \in 1..Len(log) /\ log'[j] = log[j]
    BY <1>3, <2>1, <2>2
  <2>4. log # <<>>
    BY <2>1, <2>3
  <2>5. PICK k \in 1..(j - 1) : log[k].k = "input" /\ log[k].id = i
    BY <2>1, <2>2, <2>3, <2>4 DEF CauseBeforeEffect
  <2>. QED
    BY <2>1, <2>3, <2>5
<1>. QED
  BY <1>1, <1>2, <1>3 DEF LogsNoOutput

(* The trace shows inputs before the output they caused: the loop records   *)
(* an input before it takes the next event, so the output that answers it   *)
(* is recorded later.                                                       *)
LEMMA CauseBeforeEffectStep ==
  ASSUME Domains, Phases, TraceHoldsInputs, SeenWasGiven, CauseBeforeEffect, [Next]_vars
  PROVE  CauseBeforeEffect'
<1>. USE DEF vars, kernel, runner, feeders, decoder, tracing,
            scripting, waits, screen, outcome, recorders
<1>1. CASE ChildWrites \/ ChildReads \/ ChildExits \/ SlaveCloses \/ Cancel
  <2>1. LogsNoOutput
    BY <1>1 DEF ChildWrites, twee, ChildReads,
       ChildExits, SlaveCloses, Cancel, LogsNoOutput
  <2>. QED
    BY <2>1, NoOutputLogged DEF Domains
<1>2. CASE KillByContext \/ PublishExit \/ CloserKills \/ CloserCloses
  <2>1. LogsNoOutput
    BY <1>2 DEF KillByContext, twee, PublishExit,
       CloserKills, CloserCloses, LogsNoOutput
  <2>. QED
    BY <2>1, NoOutputLogged DEF Domains
<1>3. CASE ReadChunk \/ ReadEnd \/ SendEvent
  <2>1. LogsNoOutput
    BY <1>3 DEF ReadChunk, Output, loop, ReadEnd,
       SendEvent, Sent, LogsNoOutput
  <2>. QED
    BY <2>1, NoOutputLogged DEF Domains
<1>4. CASE HostResizes \/ (\E k \in env.kinds : Type(k))
  <2>1. LogsNoOutput
    BY <1>4 DEF HostResizes, loop, Type, LogsNoOutput
  <2>. QED
    BY <2>1, NoOutputLogged DEF Domains
<1>5. CASE TakeInput \/ TakeFatal \/ TakeDone \/ RedrawFires \/ QuietFires
         \/ EscapeFires
  <2>1. LogsNoOutput
    BY <1>5 DEF TakeInput, Decoded, TakeFatal, Fails,
       StopChild, others, TakeDone, Redraw, RedrawFires, QuietFires,
       WithPendingWait, Wait, ClearQuiet, EscapeFires, LogsNoOutput
  <2>. QED
    BY <2>1, NoOutputLogged DEF Domains
<1>6. CASE ContextDone \/ Quit \/ StartMarker \/ ToggleScript \/ Forward
  <2>1. LogsNoOutput
    BY <1>6 DEF ContextDone, StopChild, others, Quit,
       Handle, Redraw, StartMarker, ToggleScript, Succeeds, EndOf, Fails,
       WithPendingWait, Wait, ClearQuiet, Resized, PartialStart, Forward,
       Forwards, WriteFails, LogsNoOutput
  <2>. QED
    BY <2>1, NoOutputLogged DEF Domains
<1>7. CASE Handled \/ LoopEnds \/ Return
  <2>1. LogsNoOutput
    BY <1>7 DEF Handled, LoopEnds, Return, LogsNoOutput
  <2>. QED
    BY <2>1, NoOutputLogged DEF Domains
<1>8. CASE WriteReply
  <2>1. LogsNoOutput
    BY <1>8, EntryTypes DEF WriteReply, Recorded, LogsNoOutput
  <2>. QED
    BY <2>1, NoOutputLogged DEF Domains
<1>9. CASE TakeResize
  <2>1. LogsNoOutput
    BY <1>9, EntryTypes DEF TakeResize, Recorded, LogsNoOutput
  <2>. QED
    BY <2>1, NoOutputLogged DEF Domains
<1>10. CASE Prompt
  <2>1. LogsNoOutput
    BY <1>10, EntryTypes DEF Prompt, Recorded, LogsNoOutput
  <2>. QED
    BY <2>1, NoOutputLogged DEF Domains
<1>11. CASE ToggleTrace
  <2>1. todo[1].id \in Nat /\ Head(todo) = todo[1]
    BY <1>11, HeadItem DEF ToggleTrace, Handle, Domains
  <2>2. Seed(todo[1].id) \in Entry /\ Seed(todo[1].id).k # "output"
    BY <2>1, EntryTypes DEF Seed, Domains, OutcomeType
  <2>3. log' = log \/ log' = <<Seed(todo[1].id)>>
    BY <1>11, <2>1 DEF ToggleTrace
  <2>4. LogsNoOutput
    BY <2>2, <2>3 DEF LogsNoOutput
  <2>. QED
    BY <2>4, NoOutputLogged DEF Domains
<1>12. CASE RecordForwarded
  <2>1. todo[1].id \in Nat /\ Head(todo) = todo[1]
    BY <1>12, HeadItem DEF RecordForwarded, Domains, Phases
  <2>2. LogsNoOutput
    BY <1>12, <2>1, EntryTypes DEF RecordForwarded, RecordedInput, Input, Recorded,
         LogsNoOutput
  <2>. QED
    BY <2>2, NoOutputLogged DEF Domains
<1>13. CASE Finalize
  <2>1. LogsNoOutput
    BY <1>13, EntryTypes DEF Finalize, Recorded, LogsNoOutput
  <2>. QED
    BY <2>1, NoOutputLogged DEF Domains
<1>14. CASE TakeOutput
  <2> DEFINE e == [k |-> "output", n |-> events[1].chunk.n, seen |-> events[1].chunk.seen]
  <2>1. Head(events) = events[1] /\ events[1].k = "output" /\ pc = "select" /\ Len(events) \in Nat \ {0}
    BY <1>14, TakeEvent DEF TakeOutput, Domains
  <2>2. log' = log \/ (trace = "recording" /\ log' = Append(log, e))
    BY <1>14, <2>1 DEF TakeOutput, RecordedOutput
  <2>3. CASE log' = log
    BY <2>3 DEF CauseBeforeEffect
  <2>4. CASE trace = "recording" /\ log' = Append(log, e)
    <3>1. log \in Seq(Entry) /\ log # <<>> /\ Len(log) \in Nat \ {0}
      BY <2>4 DEF TraceHoldsInputs, Domains, RecorderType
    <3>2. e.k = "output" /\ e.seen = events[1].chunk.seen
      OBVIOUS
    <3>. HIDE DEF e
    <3>3. /\ Len(log') = Len(log) + 1 /\ log'[Len(log')] = e
          /\ \A j \in 1..Len(log) : j \in 1..Len(log') /\ log'[j] = log[j]
          /\ Head(log') = log[1] /\ Head(log) = log[1]
      BY <2>4, <3>1
    <3>4. SUFFICES ASSUME NEW j \in 1..Len(log'), log'[j].k = "output", NEW i \in log'[j].seen,
                          i > log[1].id
                   PROVE  \E k \in 1..(j - 1) : log'[k].k = "input" /\ log'[k].id = i
      BY <3>3 DEF CauseBeforeEffect
    <3>5. CASE j \in 1..Len(log)
      <4>1. PICK k \in 1..(j - 1) : log[k].k = "input" /\ log[k].id = i
        BY <3>3, <3>4, <3>5 DEF CauseBeforeEffect
      <4>. QED
        BY <3>1, <3>3, <3>5, <4>1
    <3>6. CASE j = Len(log')
      <4>1. i \in events[1].chunk.seen
        BY <3>2, <3>3, <3>4, <3>6
      <4>2. Given(i)
        BY <2>1, <4>1 DEF SeenWasGiven, IsOutput
      <4>3. Kept(i)
        BY <2>1, <2>4, <3>4, <4>2 DEF TraceHoldsInputs, Given, InHand
      <4>4. PICK k \in 1..Len(log) : log[k].k = "input" /\ log[k].id = i
        BY <4>3 DEF Kept
      <4>. QED
        BY <3>1, <3>3, <3>6, <4>4
    <3>. QED
      BY <3>1, <3>3, <3>5, <3>6
  <2>. QED
    BY <2>2, <2>3, <2>4
<1>15. CASE UNCHANGED vars
  BY <1>15 DEF CauseBeforeEffect
<1>. QED
  BY <1>1, <1>2, <1>3, <1>4, <1>5, <1>6, <1>7, <1>8, <1>9, <1>10, <1>11,
     <1>12, <1>13, <1>14, <1>15 DEF Next, Loop, Over

(* The chunk taken is the next one to be fed.                               *)
LEMMA NextChunk ==
  ASSUME QueueType, OutcomeType, OutputOrder, Take("output")
  PROVE  events[1].chunk.n = fed + 1 /\ IsOutput(1) /\ fed + 1 <= Queued
<1>1. Len(events) \in Nat \ {0} /\ IsOutput(1) /\ events[1].chunk.n \in Nat /\ fed \in Nat
  BY TakeEvent, TakeChunk DEF IsOutput, OutcomeType
<1>2. fed < events[1].chunk.n /\ events[1].chunk.n <= Queued
  BY <1>1 DEF OutputOrder
<1>3. Queued \in Int
  BY DEF Queued, QueueType
<1>4. fed + 1 \in (fed + 1)..Queued
  BY <1>1, <1>2, <1>3
<1>5. PICK i \in 1..Len(events) : IsOutput(i) /\ events[i].chunk.n = fed + 1
  BY <1>4 DEF OutputOrder
<1>6. i = 1 \/ events[1].chunk.n < events[i].chunk.n
  BY <1>1, <1>5 DEF OutputOrder
<1>. QED
  BY <1>1, <1>2, <1>5, <1>6

(* Taking another event leaves the chunks in their order.                   *)
LEMMA OtherTaken ==
  ASSUME OutputOrder, Len(events) \in Nat \ {0}, ~IsOutput(1), Len(events') = Len(events) - 1,
         \A i \in 1..Len(events') : events'[i] = events[i + 1] /\ i + 1 \in 1..Len(events),
         UNCHANGED <<outq, lastRead, emitted, reader, held, fed>>
  PROVE  OutputOrder'
<1>1. Queued' = Queued
  BY DEF Queued
<1>2. ASSUME NEW i \in 1..Len(events'), IsOutput(i)'
      PROVE  /\ fed < events'[i].chunk.n /\ events'[i].chunk.n <= Queued
             /\ \A j \in 1..Len(events') :
                  IsOutput(j)' /\ i < j => events'[i].chunk.n < events'[j].chunk.n
  <2>1. i + 1 \in 1..Len(events) /\ IsOutput(i + 1) /\ events'[i] = events[i + 1]
    BY <1>2 DEF IsOutput
  <2>2. fed < events'[i].chunk.n /\ events'[i].chunk.n <= Queued
    BY <2>1 DEF OutputOrder
  <2>3. ASSUME NEW j \in 1..Len(events'), IsOutput(j)', i < j
        PROVE  events'[i].chunk.n < events'[j].chunk.n
    <3>1. j + 1 \in 1..Len(events) /\ IsOutput(j + 1) /\ events'[j] = events[j + 1] /\ i + 1 < j + 1
      BY <2>3 DEF IsOutput
    <3>. QED
      BY <2>1, <3>1 DEF OutputOrder
  <2>. QED
    BY <2>2, <2>3
<1>3. ASSUME NEW m \in (fed + 1)..Queued
      PROVE  \E i \in 1..Len(events') : IsOutput(i)' /\ events'[i].chunk.n = m
  <2>1. PICK i \in 1..Len(events) : IsOutput(i) /\ events[i].chunk.n = m
    BY DEF OutputOrder
  <2>2. i # 1
    BY <2>1
  <2>3. i - 1 \in 1..Len(events') /\ events'[i - 1] = events[i]
    BY <2>2
  <2>. QED
    BY <2>1, <2>3 DEF IsOutput
<1>. QED
  BY <1>1, <1>2, <1>3 DEF OutputOrder

(* A step that moves no chunk leaves them in their order.                   *)
LEMMA NoneMoved ==
  ASSUME OutputOrder, UNCHANGED <<outq, lastRead, emitted, reader, held, fed, events>>
  PROVE  OutputOrder'
BY DEF OutputOrder, IsOutput, Queued

(* The chunks reach the model in the order they were written in and         *)
(* without a gap: one reader, one channel, one loop.                        *)
LEMMA OutputOrderStep ==
  ASSUME Domains, OutputOrder, EndOrder, [Next]_vars
  PROVE  OutputOrder'
<1>. USE DEF OutputOrder, Queued, IsOutput, vars, kernel, runner, feeders,
            decoder, tracing, scripting, waits, screen, outcome, recorders
<1>1. CASE ChildWrites
  <2>1. UNCHANGED <<lastRead, reader, held, fed, events>>
    BY <1>1 DEF ChildWrites, twee
  <2>2. emitted \in Nat /\ lastRead \in Nat
    BY DEF Domains, KernelType, QueueType
  <2>3. ASSUME NEW i \in 1..Len(outq')
        PROVE  outq'[i].n = lastRead + i
    <3>1. i \in 1..Len(outq) \/ i = Len(outq')
      BY <1>1, WriteFacts DEF Domains
    <3>2. lastRead + Len(outq) = emitted
      OBVIOUS
    <3>3. CASE i \in 1..Len(outq)
      BY <1>1, <3>3, WriteFacts DEF Domains
    <3>4. CASE i = Len(outq')
      <4>1. outq'[i].n = emitted + 1 /\ i = Len(outq) + 1 /\ Len(outq) \in Nat
        BY <1>1, <3>4, WriteFacts DEF Domains
      <4>. QED
        BY <2>2, <3>2, <4>1
    <3>. QED
      BY <3>1, <3>3, <3>4
  <2>. QED
    BY <1>1, <2>1, <2>2, <2>3, WriteFacts DEF Domains
<1>2. CASE ChildReads \/ ChildExits \/ SlaveCloses \/ Cancel
  <2>1. UNCHANGED <<outq, lastRead, emitted, reader, held, fed, events>>
    BY <1>2 DEF
       ChildReads, twee, ChildExits, SlaveCloses, Cancel
  <2>. QED
    BY <2>1, NoneMoved
<1>3. CASE KillByContext \/ PublishExit \/ CloserKills \/ CloserCloses
  <2>1. UNCHANGED <<outq, lastRead, emitted, reader, held, fed, events>>
    BY <1>3 DEF
       KillByContext, twee, PublishExit, CloserKills, CloserCloses
  <2>. QED
    BY <2>1, NoneMoved
<1>4. CASE ReadChunk
  <2>1. UNCHANGED <<emitted, fed, events>>
    BY <1>4 DEF ReadChunk, loop
  <2>2. /\ outq[1].n = lastRead + 1 /\ lastRead \in Nat /\ lastRead' = lastRead + 1
        /\ Len(outq) \in Nat \ {0} /\ reader = "read" /\ reader' = "send"
    BY <1>4, ReadFacts DEF Domains, QueueType
  <2>3. \A i \in 1..Len(outq') : outq'[i].n = lastRead' + i
    BY <1>4, <2>2, ReadFacts DEF Domains
  <2>4. Len(held') = 1 /\ held'[1].k = "output" /\ held'[1].chunk.n = lastRead'
    BY <1>4, <2>2, ReadFacts DEF Domains
  <2>5. Queued' = Queued
    BY <2>2
  <2>6. lastRead' + Len(outq') = emitted
    BY <1>4, <2>2, ReadFacts DEF Domains
  <2>. HIDE DEF Queued
  <2>7. /\ fed' <= Queued'
        /\ \A i \in 1..Len(events') : IsOutput(i)' =>
             /\ fed' < events'[i].chunk.n /\ events'[i].chunk.n <= Queued'
             /\ \A j \in 1..Len(events') :
                  IsOutput(j)' /\ i < j => events'[i].chunk.n < events'[j].chunk.n
        /\ \A m \in (fed' + 1)..Queued' :
             \E i \in 1..Len(events') : IsOutput(i)' /\ events'[i].chunk.n = m
    BY <2>1, <2>5
  <2>. QED
    BY <2>2, <2>3, <2>4, <2>6, <2>7, <2>1
<1>5. CASE ReadEnd
  <2>1. UNCHANGED <<outq, lastRead, emitted, fed, events>> /\ reader = "read" /\ reader' = "last"
    BY <1>5 DEF ReadEnd, loop
  <2>2. held' # <<>>
    BY <1>5 DEF ReadEnd
  <2>. QED
    BY <2>1, <2>2
<1>6. CASE SendEvent
  <2>1. UNCHANGED <<outq, lastRead, emitted, fed>>
    BY <1>6 DEF SendEvent, Sent
  <2>2. /\ Len(events) \in Nat /\ Len(events') = Len(events) + 1
        /\ \A i \in 1..Len(events) : i \in 1..Len(events') /\ events'[i] = events[i]
        /\ events'[Len(events')] = held[1] /\ held' = Tail(held) /\ held # <<>>
    BY <1>6, SendFacts DEF Domains
  <2>3. reader' = IF held' # <<>> THEN "last" ELSE IF reader = "send" THEN "read" ELSE "gone"
    BY <1>6 DEF SendEvent, Sent
  <2>4. lastRead \in Nat /\ fed \in Nat /\ held \in Seq(Event)
    BY DEF Domains, QueueType, OutcomeType
  <2>5. CASE reader = "send"
    <3>1. Len(held) = 1 /\ held[1].k = "output" /\ held[1].chunk.n = lastRead /\ lastRead > 0
      BY <2>5
    <3>2. held' = <<>> /\ reader' = "read"
      BY <2>2, <2>3, <2>4, <2>5, <3>1
    <3>3. Queued = lastRead - 1 /\ Queued' = lastRead
      BY <2>1, <2>5, <3>2
    <3>. HIDE DEF Queued
    <3>4. fed <= Queued'
      BY <2>4, <3>3
    <3>5. \A i \in 1..Len(events') : \/ (i \in 1..Len(events) /\ events'[i] = events[i])
                                    \/ (i = Len(events') /\ events'[i] = held[1])
      BY <2>2
    <3>6. ASSUME NEW i \in 1..Len(events'), IsOutput(i)'
          PROVE  /\ fed < events'[i].chunk.n /\ events'[i].chunk.n <= Queued'
                 /\ \A j \in 1..Len(events') :
                      IsOutput(j)' /\ i < j => events'[i].chunk.n < events'[j].chunk.n
      <4>1. CASE i \in 1..Len(events) /\ events'[i] = events[i]
        <5>1. fed < events[i].chunk.n /\ events[i].chunk.n <= lastRead - 1 /\ events[i].chunk.n \in Nat
          <6>1. IsOutput(i)
            BY <3>6, <4>1
          <6>2. events[i] \in Event /\ events[i].k = "output"
            BY <4>1, <6>1 DEF Domains, QueueType
          <6>3. events[i].chunk \in Chunk
            BY <6>2 DEF Event
          <6>4. events[i].chunk.n \in Nat
            BY <6>3 DEF Chunk
          <6>5. fed < events[i].chunk.n /\ events[i].chunk.n <= Queued
            BY <4>1, <6>1
          <6>. QED
            BY <3>3, <6>4, <6>5
        <5>2. events[i].chunk.n < lastRead /\ events[i].chunk.n <= lastRead
          BY <2>4, <5>1
        <5>3. ASSUME NEW j \in 1..Len(events'), IsOutput(j)', i < j
              PROVE  events'[i].chunk.n < events'[j].chunk.n
          BY <3>1, <3>5, <3>6, <4>1, <5>2, <5>3
        <5>. QED
          BY <3>3, <4>1, <5>1, <5>2, <5>3
      <4>2. CASE i = Len(events') /\ events'[i] = held[1]
        BY <2>2, <2>4, <3>1, <3>3, <4>2
      <4>. QED
        BY <3>5, <4>1, <4>2
    <3>7. ASSUME NEW m \in (fed + 1)..Queued'
          PROVE  \E i \in 1..Len(events') : IsOutput(i)' /\ events'[i].chunk.n = m
      <4>1. m \in (fed + 1)..Queued \/ m = lastRead
        BY <2>4, <3>3
      <4>2. CASE m = lastRead
        BY <2>2, <3>1, <4>2
      <4>3. CASE m \in (fed + 1)..Queued
        <5>1. PICK i \in 1..Len(events) : IsOutput(i) /\ events[i].chunk.n = m
          BY <4>3
        <5>. QED
          BY <2>2, <5>1
      <4>. QED
        BY <4>1, <4>2, <4>3
    <3>. QED
      BY <2>1, <3>2, <3>4, <3>6, <3>7
  <2>6. CASE reader = "last"
    <3>1. held[1].k # "output"
      BY <2>2, <2>6, HeldEvent DEF Domains
    <3>2. reader' \in {"last", "gone"} /\ (reader' = "last" => held' # <<>>)
          /\ (reader' = "gone" => held' = <<>>)
      BY <2>3, <2>6
    <3>3. Queued' = Queued
      BY <2>1, <2>6, <3>2
    <3>. HIDE DEF Queued
    <3>4. \A i \in 1..Len(events') : IsOutput(i)' =>
            i \in 1..Len(events) /\ IsOutput(i) /\ events'[i] = events[i]
      BY <2>2, <3>1
    <3>5. \A i \in 1..Len(events) : IsOutput(i) => IsOutput(i)'
      BY <2>2
    <3>6. fed' <= Queued'
      BY <2>1, <3>3
    <3>7. ASSUME NEW i \in 1..Len(events'), IsOutput(i)'
          PROVE  /\ fed' < events'[i].chunk.n /\ events'[i].chunk.n <= Queued'
                 /\ \A j \in 1..Len(events') :
                      IsOutput(j)' /\ i < j => events'[i].chunk.n < events'[j].chunk.n
      <4>1. i \in 1..Len(events) /\ IsOutput(i) /\ events'[i] = events[i]
        BY <3>4, <3>7
      <4>2. fed < events[i].chunk.n /\ events[i].chunk.n <= Queued
        BY <4>1
      <4>3. ASSUME NEW j \in 1..Len(events'), IsOutput(j)', i < j
            PROVE  events'[i].chunk.n < events'[j].chunk.n
        <5>1. j \in 1..Len(events) /\ IsOutput(j) /\ events'[j] = events[j]
          BY <3>4, <4>3
        <5>. QED
          BY <4>1, <4>3, <5>1
      <4>. QED
        BY <2>1, <3>3, <4>1, <4>2, <4>3
    <3>8. ASSUME NEW m \in (fed' + 1)..Queued'
          PROVE  \E i \in 1..Len(events') : IsOutput(i)' /\ events'[i].chunk.n = m
      <4>1. PICK i \in 1..Len(events) : IsOutput(i) /\ events[i].chunk.n = m
        BY <2>1, <3>3
      <4>. QED
        BY <2>2, <4>1
    <3>. QED
      BY <2>1, <2>2, <3>2, <3>6, <3>7, <3>8
  <2>7. reader \in {"send", "last"}
    BY <2>2 DEF Domains, QueueType
  <2>. QED
    BY <2>5, <2>6, <2>7
<1>7. CASE HostResizes \/ (\E k \in env.kinds : Type(k))
  <2>1. UNCHANGED <<outq, lastRead, emitted, reader, held, fed>>
    BY <1>7, TerminalFacts DEF loop, Domains
  <2>2. /\ Len(events) \in Nat /\ Len(events') = Len(events) + 1
        /\ \A i \in 1..Len(events) : i \in 1..Len(events') /\ events'[i] = events[i]
        /\ events'[Len(events')].k # "output"
    BY <1>7, TerminalFacts DEF Domains
  <2>3. Queued' = Queued
    BY <2>1
  <2>. HIDE DEF Queued
  <2>4. \A i \in 1..Len(events') : IsOutput(i)' =>
          i \in 1..Len(events) /\ IsOutput(i) /\ events'[i] = events[i]
    BY <2>2
  <2>5. \A i \in 1..Len(events) : IsOutput(i) => IsOutput(i)'
    BY <2>2
  <2>. QED
    BY <2>1, <2>2, <2>3, <2>4, <2>5
<1>8. CASE TakeOutput
  <2>1. /\ Len(events) \in Nat \ {0} /\ Head(events) = events[1] /\ Len(events') = Len(events) - 1
        /\ \A i \in 1..Len(events') : events'[i] = events[i + 1] /\ i + 1 \in 1..Len(events)
    BY <1>8, TakeEvent DEF TakeOutput, Domains
  <2>2. fed' = fed + 1 /\ fed + 1 <= Queued /\ events[1].chunk.n = fed + 1 /\ IsOutput(1)
    BY <1>8, <2>1, NextChunk DEF TakeOutput, Domains
  <2>3. UNCHANGED <<outq, lastRead, emitted, reader, held>>
    BY <1>8 DEF TakeOutput
  <2>4. Queued' = Queued /\ Queued \in Int /\ fed \in Nat
    BY <2>3 DEF Domains, QueueType, OutcomeType
  <2>. HIDE DEF Queued
  <2>5. ASSUME NEW i \in 1..Len(events'), IsOutput(i)'
        PROVE  /\ fed' < events'[i].chunk.n /\ events'[i].chunk.n <= Queued
               /\ \A j \in 1..Len(events') :
                    IsOutput(j)' /\ i < j => events'[i].chunk.n < events'[j].chunk.n
    <3>1. i + 1 \in 1..Len(events) /\ IsOutput(i + 1) /\ events'[i] = events[i + 1] /\ 1 < i + 1
      BY <2>1, <2>5
    <3>2. fed' < events'[i].chunk.n /\ events'[i].chunk.n <= Queued
      BY <2>1, <2>2, <3>1
    <3>3. ASSUME NEW j \in 1..Len(events'), IsOutput(j)', i < j
          PROVE  events'[i].chunk.n < events'[j].chunk.n
      <4>1. j + 1 \in 1..Len(events) /\ IsOutput(j + 1) /\ events'[j] = events[j + 1] /\ i + 1 < j + 1
        BY <2>1, <3>3
      <4>. QED
        BY <3>1, <4>1
    <3>. QED
      BY <3>2, <3>3
  <2>6. ASSUME NEW m \in (fed' + 1)..Queued
        PROVE  \E i \in 1..Len(events') : IsOutput(i)' /\ events'[i].chunk.n = m
    <3>1. m \in (fed + 1)..Queued /\ m # fed + 1
      BY <2>2, <2>4
    <3>2. PICK i \in 1..Len(events) : IsOutput(i) /\ events[i].chunk.n = m
      BY <3>1
    <3>3. i # 1
      BY <2>2, <3>1, <3>2
    <3>4. i - 1 \in 1..Len(events') /\ events'[i - 1] = events[i]
      BY <2>1, <3>3
    <3>. QED
      BY <3>2, <3>4
  <2>. QED
    BY <2>2, <2>3, <2>4, <2>5, <2>6
<1>9. CASE TakeInput
  <2>1. /\ Len(events) \in Nat \ {0} /\ events[1].k # "output" /\ Len(events') = Len(events) - 1
        /\ \A i \in 1..Len(events') : events'[i] = events[i + 1] /\ i + 1 \in 1..Len(events)
    BY <1>9, TakeEvent DEF TakeInput, Domains
  <2>2. UNCHANGED <<outq, lastRead, emitted, reader, held, fed>>
    BY <1>9 DEF TakeInput
  <2>. QED
    BY <2>1, <2>2, OtherTaken
<1>10. CASE TakeResize
  <2>1. /\ Len(events) \in Nat \ {0} /\ events[1].k # "output" /\ Len(events') = Len(events) - 1
        /\ \A i \in 1..Len(events') : events'[i] = events[i + 1] /\ i + 1 \in 1..Len(events)
    BY <1>10, TakeEvent DEF TakeResize, Domains
  <2>2. UNCHANGED <<outq, lastRead, emitted, reader, held, fed>>
    BY <1>10 DEF TakeResize, Redraw
  <2>. QED
    BY <2>1, <2>2, OtherTaken
<1>11. CASE TakeFatal
  <2>1. /\ Len(events) \in Nat \ {0} /\ events[1].k # "output" /\ Len(events') = Len(events) - 1
        /\ \A i \in 1..Len(events') : events'[i] = events[i + 1] /\ i + 1 \in 1..Len(events)
    BY <1>11, TakeEvent DEF TakeFatal, Domains
  <2>2. UNCHANGED <<outq, lastRead, emitted, reader, held, fed>>
    BY <1>11 DEF TakeFatal
  <2>. QED
    BY <2>1, <2>2, OtherTaken
<1>12. CASE TakeDone
  <2>1. /\ Len(events) \in Nat \ {0} /\ events[1].k # "output" /\ Len(events') = Len(events) - 1
        /\ \A i \in 1..Len(events') : events'[i] = events[i + 1] /\ i + 1 \in 1..Len(events)
    BY <1>12, TakeEvent DEF TakeDone, Domains
  <2>2. UNCHANGED <<outq, lastRead, emitted, reader, held, fed>>
    BY <1>12 DEF TakeDone, Redraw
  <2>. QED
    BY <2>1, <2>2, OtherTaken
<1>13. CASE WriteReply \/ RedrawFires \/ QuietFires \/ EscapeFires
          \/ ContextDone \/ Prompt \/ Quit
  <2>1. UNCHANGED <<outq, lastRead, emitted, reader, held, fed, events>>
    BY <1>13 DEF
       WriteReply, WriteFails, Fails, Recorded, RedrawFires, Redraw,
       QuietFires, WithPendingWait, Wait, ClearQuiet, EscapeFires,
       ContextDone, StopChild, others, Prompt, Quit, Handle
  <2>. QED
    BY <2>1, NoneMoved
<1>14. CASE StartMarker \/ ToggleTrace \/ ToggleScript \/ Forward
          \/ RecordForwarded \/ Handled
  <2>1. UNCHANGED <<outq, lastRead, emitted, reader, held, fed, events>>
    BY <1>14 DEF
       StartMarker, Handle, Redraw, ToggleTrace, Succeeds, EndOf, Seed,
       Fails, ToggleScript, WithPendingWait, Wait, ClearQuiet, Resized,
       PartialStart, Forward, Forwards, WriteFails, RecordForwarded,
       RecordedInput, Recorded, Input, Scripted, Operation, ArmAfterAction,
       Handled
  <2>. QED
    BY <2>1, NoneMoved
<1>15. CASE LoopEnds \/ Finalize \/ Return
  <2>1. UNCHANGED <<outq, lastRead, emitted, reader, held, fed, events>>
    BY <1>15 DEF
       LoopEnds, Finalize, WithPendingWait, Wait, ClearQuiet, Redraw,
       Recorded, Succeeds, EndOf, Fails, others, Return
  <2>. QED
    BY <2>1, NoneMoved
<1>16. CASE UNCHANGED vars
  BY <1>16
<1>. QED
  BY <1>1, <1>2, <1>3, <1>4, <1>5, <1>6, <1>7, <1>8, <1>9, <1>10, <1>11,
     <1>12, <1>13, <1>14, <1>15, <1>16 DEF Next, Loop, Over

-----------------------------------------------------------------------------
(* The end of the PTY, and its reasons.                                     *)

(* Taking an event leaves the end where it is.                              *)
LEMMA EndTaken ==
  ASSUME EndOrder, Len(events) \in Nat \ {0}, Len(events') = Len(events) - 1,
         \A i \in 1..Len(events') : events'[i] = events[i + 1] /\ i + 1 \in 1..Len(events),
         UNCHANGED <<reader, held, ptyDone>>
  PROVE  EndOrder'
<1>1. ASSUME NEW i \in 1..Len(events'), events'[i].k = "done"
      PROVE  /\ reader = "gone"
             /\ \A j \in 1..Len(events') : i < j => events'[j].k \in {"input", "resize"}
  <2>1. i + 1 \in 1..Len(events) /\ events[i + 1].k = "done"
    BY <1>1
  <2>2. ASSUME NEW j \in 1..Len(events'), i < j
        PROVE  events'[j].k \in {"input", "resize"}
    <3>1. j + 1 \in 1..Len(events) /\ events'[j] = events[j + 1] /\ i + 1 < j + 1
      BY <2>2
    <3>. QED
      BY <2>1, <3>1 DEF EndOrder
  <2>. QED
    BY <2>1, <2>2 DEF EndOrder
<1>2. ptyDone => \A i \in 1..Len(events') : events'[i].k \in {"input", "resize"}
  BY DEF EndOrder
<1>. QED
  BY <1>1, <1>2 DEF EndOrder

(* ptyDone is the reader's last event: nothing the child wrote comes after  *)
(* it.                                                                      *)
LEMMA EndOrderStep ==
  ASSUME Domains, OutputOrder, EndOrder, [Next]_vars
  PROVE  EndOrder'
<1>. USE DEF vars, kernel, runner, feeders, decoder, tracing, scripting,
            waits, screen, outcome, recorders
<1>1. CASE ChildWrites \/ ChildReads \/ ChildExits \/ SlaveCloses \/ Cancel
  <2>1. UNCHANGED <<reader, held, ptyDone, events>>
    BY <1>1 DEF
       ChildWrites, twee, ChildReads, ChildExits, SlaveCloses, Cancel
  <2>. QED
    BY <2>1 DEF EndOrder
<1>2. CASE KillByContext \/ PublishExit \/ CloserKills \/ CloserCloses
  <2>1. UNCHANGED <<reader, held, ptyDone, events>>
    BY <1>2 DEF
       KillByContext, twee, PublishExit, CloserKills, CloserCloses
  <2>. QED
    BY <2>1 DEF EndOrder
<1>3. CASE ReadChunk
  <2>1. UNCHANGED <<ptyDone, events>> /\ reader = "read" /\ reader' = "send"
    BY <1>3 DEF ReadChunk, loop
  <2>. QED
    BY <2>1 DEF EndOrder
<1>4. CASE ReadEnd
  <2>1. UNCHANGED <<ptyDone, events>> /\ reader = "read" /\ reader' = "last"
    BY <1>4 DEF ReadEnd, loop
  <2>2. \/ held' = <<[k |-> "done"]>>
        \/ held' = <<[k |-> "fatal"], [k |-> "done"]>>
    BY <1>4 DEF ReadEnd
  <2>3. Len(held') \in 1..2 /\ held'[Len(held')].k = "done" /\ (Len(held') = 2 => held'[1].k = "fatal")
    BY <2>2
  <2>. QED
    BY <2>1, <2>3 DEF EndOrder
<1>5. CASE SendEvent
  <2>1. UNCHANGED ptyDone
    BY <1>5 DEF SendEvent, Sent
  <2>2. /\ Len(events) \in Nat /\ Len(events') = Len(events) + 1
        /\ \A i \in 1..Len(events) : events'[i] = events[i]
        /\ events'[Len(events')] = held[1] /\ held' = Tail(held) /\ held # <<>>
    BY <1>5, SendFacts DEF Domains
  <2>3. reader' = IF held' # <<>> THEN "last" ELSE IF reader = "send" THEN "read" ELSE "gone"
    BY <1>5 DEF SendEvent, Sent
  <2>4. held \in Seq(Event)
    BY DEF Domains, QueueType
  <2>5. reader \in {"send", "last"}
    BY <2>2 DEF Domains, QueueType, OutputOrder
  <2>6. ~ptyDone /\ \A i \in 1..Len(events) : events[i].k # "done"
    BY <2>5 DEF EndOrder
  <2>7. \A i \in 1..Len(events') : \/ (i \in 1..Len(events) /\ events'[i] = events[i])
                                  \/ (i = Len(events') /\ events'[i] = held[1])
    BY <2>2
  <2>8. CASE reader = "send"
    <3>1. Len(held) = 1 /\ held[1].k = "output"
      BY <2>8 DEF OutputOrder
    <3>2. held' = <<>> /\ reader' = "read"
      BY <2>2, <2>3, <2>4, <2>8, <3>1
    <3>. QED
      BY <2>1, <2>6, <2>7, <3>1, <3>2 DEF EndOrder
  <2>9. CASE reader = "last"
    <3>1. Len(held) \in 1..2 /\ held[Len(held)].k = "done" /\ (Len(held) = 2 => held[1].k = "fatal")
      BY <2>9 DEF EndOrder
    <3>2. CASE Len(held) = 1
      <4>1. held' = <<>> /\ reader' = "gone" /\ held[1].k = "done"
        BY <2>2, <2>3, <2>4, <2>9, <3>1, <3>2
      <4>2. \A i, j \in 1..Len(events') : events'[i].k = "done" /\ i < j => events'[j].k \in {"input", "resize"}
        BY <2>2, <2>6, <2>7
      <4>. QED
        BY <2>1, <2>6, <4>1, <4>2 DEF EndOrder
    <3>3. CASE Len(held) = 2
      <4>0. held[2].k = "done" /\ held[1].k = "fatal"
        BY <3>1, <3>3
      <4>1. Len(held') = 1 /\ held'[1] = held[2]
        <5>1. /\ Len(held') = 1
              /\ \A i \in 1..Len(held') : held'[i] = held[i + 1]
          BY <2>2, <2>4, <3>3, HeadTail
        <5>2. held'[1] = held[1 + 1]
          BY <5>1
        <5>. QED
          BY <5>1, <5>2
      <4>2. held' # <<>> /\ reader' = "last"
        BY <2>3, <4>1
      <4>. QED
        BY <2>1, <2>6, <2>7, <4>0, <4>1, <4>2 DEF EndOrder
    <3>. QED
      BY <3>1, <3>2, <3>3
  <2>. QED
    BY <2>5, <2>8, <2>9
<1>6. CASE HostResizes \/ (\E k \in env.kinds : Type(k))
  <2>1. UNCHANGED <<reader, held, ptyDone>>
    BY <1>6, TerminalFacts DEF loop, Domains
  <2>2. /\ Len(events) \in Nat /\ Len(events') = Len(events) + 1
        /\ \A i \in 1..Len(events) : events'[i] = events[i]
        /\ events'[Len(events')].k \in {"input", "resize"}
    BY <1>6, TerminalFacts DEF Domains
  <2>3. \A i \in 1..Len(events') : \/ (i \in 1..Len(events) /\ events'[i] = events[i])
                                  \/ (i = Len(events') /\ events'[i].k \in {"input", "resize"})
    BY <2>2
  <2>4. ASSUME NEW i \in 1..Len(events'), events'[i].k = "done"
        PROVE  /\ reader = "gone"
               /\ \A j \in 1..Len(events') : i < j => events'[j].k \in {"input", "resize"}
    <3>1. i \in 1..Len(events) /\ events[i].k = "done"
      BY <2>3, <2>4
    <3>2. reader = "gone" /\ \A j \in 1..Len(events) : i < j => events[j].k \in {"input", "resize"}
      BY <3>1 DEF EndOrder
    <3>. QED
      BY <2>3, <3>2
  <2>5. ptyDone => \A i \in 1..Len(events') : events'[i].k \in {"input", "resize"}
    BY <2>3 DEF EndOrder
  <2>. QED
    BY <2>1, <2>4, <2>5 DEF EndOrder
<1>7. CASE TakeOutput
  <2>1. /\ Len(events) \in Nat \ {0} /\ Len(events') = Len(events) - 1
        /\ \A i \in 1..Len(events') : events'[i] = events[i + 1] /\ i + 1 \in 1..Len(events)
    BY <1>7, TakeEvent DEF TakeOutput, Domains
  <2>2. UNCHANGED <<reader, held, ptyDone>>
    BY <1>7 DEF TakeOutput
  <2>. QED
    BY <2>1, <2>2, EndTaken
<1>8. CASE TakeInput
  <2>1. /\ Len(events) \in Nat \ {0} /\ Len(events') = Len(events) - 1
        /\ \A i \in 1..Len(events') : events'[i] = events[i + 1] /\ i + 1 \in 1..Len(events)
    BY <1>8, TakeEvent DEF TakeInput, Domains
  <2>2. UNCHANGED <<reader, held, ptyDone>>
    BY <1>8 DEF TakeInput
  <2>. QED
    BY <2>1, <2>2, EndTaken
<1>9. CASE TakeResize
  <2>1. /\ Len(events) \in Nat \ {0} /\ Len(events') = Len(events) - 1
        /\ \A i \in 1..Len(events') : events'[i] = events[i + 1] /\ i + 1 \in 1..Len(events)
    BY <1>9, TakeEvent DEF TakeResize, Domains
  <2>2. UNCHANGED <<reader, held, ptyDone>>
    BY <1>9 DEF TakeResize
  <2>. QED
    BY <2>1, <2>2, EndTaken
<1>10. CASE TakeFatal
  <2>1. /\ Len(events) \in Nat \ {0} /\ Len(events') = Len(events) - 1
        /\ \A i \in 1..Len(events') : events'[i] = events[i + 1] /\ i + 1 \in 1..Len(events)
    BY <1>10, TakeEvent DEF TakeFatal, Domains
  <2>2. UNCHANGED <<reader, held, ptyDone>>
    BY <1>10 DEF TakeFatal
  <2>. QED
    BY <2>1, <2>2, EndTaken
<1>11. CASE TakeDone
  <2>1. /\ Len(events) \in Nat \ {0} /\ Len(events') = Len(events) - 1
        /\ Head(events) = events[1] /\ events[1].k = "done"
        /\ \A i \in 1..Len(events') : events'[i] = events[i + 1] /\ i + 1 \in 1..Len(events)
    BY <1>11, TakeEvent DEF TakeDone, Domains
  <2>2. UNCHANGED <<reader, held>>
    BY <1>11 DEF TakeDone
  <2>3. reader = "gone"
    BY <2>1 DEF EndOrder
  <2>4. ASSUME NEW i \in 1..Len(events')
        PROVE  events'[i].k \in {"input", "resize"}
    <3>1. i + 1 \in 1..Len(events) /\ 1 < i + 1 /\ 1 \in 1..Len(events) /\ events'[i] = events[i + 1]
      BY <2>1
    <3>. QED
      BY <2>1, <3>1 DEF EndOrder
  <2>. QED
    BY <2>2, <2>3, <2>4 DEF EndOrder
<1>12. CASE WriteReply \/ RedrawFires \/ QuietFires \/ EscapeFires
          \/ ContextDone \/ Prompt \/ Quit
  <2>1. UNCHANGED <<reader, held, ptyDone, events>>
    BY <1>12 DEF
       WriteReply, WriteFails, Fails, Recorded, RedrawFires, Redraw,
       QuietFires, WithPendingWait, Wait, ClearQuiet, EscapeFires,
       ContextDone, StopChild, others, Prompt, Quit, Handle
  <2>. QED
    BY <2>1 DEF EndOrder
<1>13. CASE StartMarker \/ ToggleTrace \/ ToggleScript \/ Forward
          \/ RecordForwarded \/ Handled
  <2>1. UNCHANGED <<reader, held, ptyDone, events>>
    BY <1>13 DEF
       StartMarker, Handle, Redraw, ToggleTrace, Succeeds, EndOf, Seed,
       Fails, ToggleScript, WithPendingWait, Wait, ClearQuiet, Resized,
       PartialStart, Forward, Forwards, WriteFails, RecordForwarded,
       RecordedInput, Recorded, Input, Scripted, Operation, ArmAfterAction,
       Handled
  <2>. QED
    BY <2>1 DEF EndOrder
<1>14. CASE LoopEnds \/ Finalize \/ Return
  <2>1. UNCHANGED <<reader, held, ptyDone, events>>
    BY <1>14 DEF
       LoopEnds, Finalize, WithPendingWait, Wait, ClearQuiet, Redraw,
       Recorded, Succeeds, EndOf, Fails, others, Return
  <2>. QED
    BY <2>1 DEF EndOrder
<1>15. CASE UNCHANGED vars
  BY <1>15 DEF EndOrder
<1>. QED
  BY <1>1, <1>2, <1>3, <1>4, <1>5, <1>6, <1>7, <1>8, <1>9, <1>10, <1>11,
     <1>12, <1>13, <1>14, <1>15 DEF Next, Loop, Over

(* An error, a stop, the end of the loop and the end of the PTY are for     *)
(* good.                                                                    *)
LEMMA ReasonsLast ==
  ASSUME Domains, Phases, [Next]_vars
  PROVE  /\ stopping => stopping'
         /\ runErr # "none" => runErr' # "none"
         /\ pc \in {"close", "done"} => pc' \in {"close", "done"}
         /\ ~slave /\ outq = <<>> => ~slave' /\ outq' = <<>>
<1>. USE DEF vars, kernel, runner, feeders, decoder, tracing, scripting,
            waits, screen, outcome, recorders
<1>1. CASE ChildWrites
  BY <1>1 DEF ChildWrites, twee
<1>2. CASE ChildReads \/ ChildExits \/ SlaveCloses \/ Cancel
  BY <1>2 DEF ChildReads, twee, ChildExits, SlaveCloses, Cancel
<1>3. CASE KillByContext \/ PublishExit \/ CloserKills \/ CloserCloses
  BY <1>3 DEF KillByContext, twee, PublishExit, CloserKills, CloserCloses
<1>4. CASE ReadChunk
  BY <1>4 DEF ReadChunk, Output, loop
<1>5. CASE ReadEnd \/ SendEvent
  BY <1>5 DEF ReadEnd, loop, SendEvent, Sent
<1>6. CASE HostResizes
  BY <1>6 DEF HostResizes, loop
<1>7. CASE \E k \in env.kinds : Type(k)
  BY <1>7 DEF Type, loop
<1>8. CASE TakeOutput \/ TakeInput \/ TakeResize
  BY <1>8 DEF TakeOutput, RecordedOutput, ScheduleRedraw, Take, TakeInput,
     Decoded, TakeResize, Resized, Recorded, ArmAfterAction, Redraw, Fails,
     StopChild, others
<1>9. CASE TakeFatal \/ TakeDone
  BY <1>9 DEF TakeFatal, Fails, StopChild, others, Take, TakeDone, Redraw
<1>10. CASE WriteReply \/ RedrawFires \/ QuietFires \/ EscapeFires
  BY <1>10 DEF WriteReply, WriteFails, Fails, Recorded, RedrawFires, Redraw,
     QuietFires, WithPendingWait, Wait, ClearQuiet, EscapeFires
<1>11. CASE ContextDone \/ Prompt \/ Quit \/ StartMarker
  BY <1>11 DEF ContextDone, StopChild, others, Prompt, Recorded, Redraw,
     Quit, Handle, StartMarker
<1>12. CASE ToggleTrace
  BY <1>12 DEF ToggleTrace, Handle, Fails
<1>13. CASE ToggleScript
  BY <1>13 DEF ToggleScript, Handle, Fails
<1>14. CASE Forward
  BY <1>14 DEF Forward, Forwards, WriteFails, Fails
<1>15. CASE RecordForwarded \/ Handled \/ LoopEnds
  BY <1>15 DEF RecordForwarded, Forwards, RecordedInput, Recorded, Input,
     Scripted, Operation, ArmAfterAction, Handled, LoopEnds
<1>16. CASE Finalize
  <2>1. runErr' = runErr \/ runErr' = Fails("finalize")
    BY <1>16 DEF Finalize
  <2>. QED
    BY <1>16, <2>1 DEF Finalize, Fails
<1>17. CASE Return
  BY <1>17 DEF Return
<1>18. CASE UNCHANGED vars
  BY <1>18
<1>. QED
  BY <1>1, <1>2, <1>3, <1>4, <1>5, <1>6, <1>7, <1>8, <1>9, <1>10, <1>11,
     <1>12, <1>13, <1>14, <1>15, <1>16, <1>17, <1>18 DEF Next, Loop, Over

(* Only the goroutine of stopChild closes the master.                       *)
LEMMA MasterOutlastsChild ==
  ASSUME Domains, ~master => closer = "done", [Next]_vars
  PROVE  ~master' => closer' = "done"
<1>. USE DEF vars, kernel, runner, feeders, decoder, tracing, scripting,
            waits, screen, outcome, recorders
<1>1. CASE ChildWrites \/ ChildReads \/ ChildExits \/ SlaveCloses \/ Cancel
  BY <1>1 DEF ChildWrites, twee, ChildReads, ChildExits, SlaveCloses, Cancel
<1>2. CASE KillByContext \/ PublishExit \/ CloserKills \/ CloserCloses
  BY <1>2 DEF KillByContext, twee, PublishExit, CloserKills, CloserCloses
<1>3. CASE ReadChunk \/ ReadEnd \/ SendEvent \/ HostResizes
         \/ (\E k \in env.kinds : Type(k))
  BY <1>3 DEF ReadChunk, Output, loop, ReadEnd, SendEvent, Sent,
     HostResizes, Type
<1>4. CASE TakeOutput \/ TakeInput \/ TakeResize
  BY <1>4 DEF TakeOutput, RecordedOutput, ScheduleRedraw, Take, TakeInput,
     Decoded, TakeResize, Resized, Recorded, ArmAfterAction, Redraw, Fails,
     StopChild, others
<1>5. CASE TakeFatal \/ TakeDone
  BY <1>5 DEF TakeFatal, Fails, StopChild, others, Take, TakeDone, Redraw
<1>6. CASE WriteReply \/ RedrawFires \/ QuietFires \/ EscapeFires
         \/ ContextDone \/ Prompt
  BY <1>6 DEF WriteReply, WriteFails, Fails, Recorded, RedrawFires, Redraw,
     QuietFires, WithPendingWait, Wait, ClearQuiet, EscapeFires,
     ContextDone, StopChild, others, Prompt
<1>7. CASE Quit \/ StartMarker \/ ToggleTrace \/ ToggleScript
  BY <1>7 DEF Quit, Handle, Redraw, StopChild, others, StartMarker,
     ToggleTrace, Succeeds, EndOf, Seed, Fails, ToggleScript,
     WithPendingWait, Wait, ClearQuiet, Resized, PartialStart
<1>8. CASE Forward \/ RecordForwarded \/ Handled \/ LoopEnds
  BY <1>8 DEF Forward, Forwards, WriteFails, Fails, RecordForwarded,
     RecordedInput, Recorded, Input, Scripted, Operation, ArmAfterAction,
     Handled, LoopEnds
<1>9. CASE Finalize \/ Return
  BY <1>9 DEF Finalize, WithPendingWait, Wait, ClearQuiet, Redraw, Recorded,
     Succeeds, EndOf, Fails, others, Return
<1>10. CASE UNCHANGED vars
  BY <1>10
<1>. QED
  BY <1>1, <1>2, <1>3, <1>4, <1>5, <1>6, <1>7, <1>8, <1>9, <1>10 DEF Next, Loop, Over

(* Runner.Close is called to stop the child or after the loop.              *)
LEMMA ClosedForReason ==
  ASSUME Domains, Phases, closer # "none" => stopping \/ pc \in {"close", "done"}, [Next]_vars
  PROVE  closer' # "none" => stopping' \/ pc' \in {"close", "done"}
<1>. USE DEF vars, kernel, runner, feeders, decoder, tracing, scripting,
            waits, screen, outcome, recorders
<1>1. CASE ChildWrites \/ ChildReads \/ ChildExits \/ SlaveCloses \/ Cancel
  BY <1>1 DEF ChildWrites, twee, ChildReads, ChildExits, SlaveCloses, Cancel
<1>2. CASE KillByContext \/ PublishExit \/ CloserKills \/ CloserCloses
  BY <1>2 DEF KillByContext, twee, PublishExit, CloserKills, CloserCloses
<1>3. CASE ReadChunk \/ ReadEnd \/ SendEvent \/ HostResizes
         \/ (\E k \in env.kinds : Type(k))
  BY <1>3 DEF ReadChunk, Output, loop, ReadEnd, SendEvent, Sent,
     HostResizes, Type
<1>4. CASE TakeOutput \/ TakeInput \/ TakeResize
  BY <1>4 DEF TakeOutput, RecordedOutput, ScheduleRedraw, Take, TakeInput,
     Decoded, TakeResize, Resized, Recorded, ArmAfterAction, Redraw, Fails,
     StopChild, others
<1>5. CASE TakeFatal \/ TakeDone
  BY <1>5 DEF TakeFatal, Fails, StopChild, others, Take, TakeDone, Redraw
<1>6. CASE WriteReply \/ RedrawFires \/ QuietFires \/ EscapeFires
         \/ ContextDone \/ Prompt
  BY <1>6 DEF WriteReply, WriteFails, Fails, Recorded, RedrawFires, Redraw,
     QuietFires, WithPendingWait, Wait, ClearQuiet, EscapeFires,
     ContextDone, StopChild, others, Prompt
<1>7. CASE Quit \/ StartMarker \/ ToggleTrace \/ ToggleScript
  BY <1>7 DEF Quit, Handle, Redraw, StopChild, others, StartMarker,
     ToggleTrace, Succeeds, EndOf, Seed, Fails, ToggleScript,
     WithPendingWait, Wait, ClearQuiet, Resized, PartialStart
<1>8. CASE Forward \/ RecordForwarded \/ Handled \/ LoopEnds
  BY <1>8 DEF Forward, Forwards, WriteFails, Fails, RecordForwarded,
     RecordedInput, Recorded, Input, Scripted, Operation, ArmAfterAction,
     Handled, LoopEnds
<1>9. CASE Finalize \/ Return
  BY <1>9 DEF Finalize, WithPendingWait, Wait, ClearQuiet, Redraw, Recorded,
     Succeeds, EndOf, Fails, others, Return
<1>10. CASE UNCHANGED vars
  BY <1>10
<1>. QED
  BY <1>1, <1>2, <1>3, <1>4, <1>5, <1>6, <1>7, <1>8, <1>9, <1>10 DEF Next, Loop, Over

(* A read error is under way in s.                                          *)
HasFatal(s) == \E i \in 1..Len(s) : s[i].k = "fatal"

(* A read error in the channel is still there until the loop takes it.      *)
LEMMA FatalTaken ==
  ASSUME QueueType, NEW k, Take(k), HasFatal(events)
  PROVE  HasFatal(events') \/ k = "fatal"
<1>1. /\ Len(events) \in Nat \ {0} /\ events[1].k = k /\ Len(events') = Len(events) - 1
      /\ \A i \in 1..Len(events') : events'[i] = events[i + 1] /\ i + 1 \in 1..Len(events)
  BY TakeEvent
<1>2. PICK i \in 1..Len(events) : events[i].k = "fatal"
  BY DEF HasFatal
<1>3. CASE i = 1
  BY <1>1, <1>2, <1>3
<1>4. CASE i # 1
  <2>1. i - 1 \in 1..Len(events') /\ events'[i - 1] = events[i]
    BY <1>1, <1>4
  <2>. QED
    BY <1>2, <2>1 DEF HasFatal
<1>. QED
  BY <1>3, <1>4

(* A read error that the reader holds is not lost on its way to the         *)
(* channel.                                                                 *)
LEMMA FatalSent ==
  ASSUME QueueType, OutputOrder, EndOrder, SendEvent, HasFatal(held) \/ HasFatal(events)
  PROVE  HasFatal(held') \/ HasFatal(events')
<1>1. /\ Len(events) \in Nat /\ Len(events') = Len(events) + 1
      /\ \A i \in 1..Len(events) : i \in 1..Len(events') /\ events'[i] = events[i]
      /\ events'[Len(events')] = held[1] /\ held' = Tail(held) /\ held # <<>>
  BY SendFacts
<1>2. CASE HasFatal(events)
  BY <1>1, <1>2 DEF HasFatal
<1>3. CASE HasFatal(held)
  <2>1. PICK i \in 1..Len(held) : held[i].k = "fatal"
    BY <1>3 DEF HasFatal
  <2>2. CASE i = 1
    <3>1. Len(events') \in 1..Len(events')
      BY <1>1
    <3>. QED
      BY <1>1, <2>1, <2>2, <3>1 DEF HasFatal
  <2>3. CASE i # 1
    <3>1. held \in Seq(Event) /\ Len(held) \in Nat
      BY DEF QueueType
    <3>2. i - 1 \in 1..Len(held') /\ held'[i - 1] = held[i]
      BY <1>1, <2>3, <3>1
    <3>. QED
      BY <2>1, <3>2 DEF HasFatal
  <2>. QED
    BY <2>2, <2>3
<1>. QED
  BY <1>2, <1>3

(* The reader ends for a reason that stays: the session is stopped, a read  *)
(* failed, or the child closed the PTY and everything was read.             *)
LEMMA EndReasonStep ==
  ASSUME Domains, Phases, OutputOrder, EndOrder, EndHasReason, [Next]_vars
  PROVE  \/ stopping' \/ runErr' # "none"
         \/ ~slave' /\ outq' = <<>>
         \/ HasFatal(held)' \/ HasFatal(events)'
         \/ reader' \notin {"last", "gone"}
<1>. USE DEF vars, kernel, runner, feeders, decoder, tracing, scripting,
            waits, screen, outcome, recorders
<1>0. SUFFICES ASSUME ~(stopping \/ runErr # "none" \/ (~slave /\ outq = <<>>))
               PROVE  HasFatal(held)' \/ HasFatal(events)' \/ reader' \notin {"last", "gone"}
                        \/ stopping' \/ runErr' # "none" \/ (~slave' /\ outq' = <<>>)
  BY ReasonsLast
<1>. DEFINE Fatal == HasFatal(held) \/ HasFatal(events)
<1>r. Fatal \/ reader \notin {"last", "gone"}
  BY <1>0 DEF EndHasReason, HasFatal
<1>1. CASE ChildWrites \/ ChildReads \/ ChildExits \/ SlaveCloses \/ Cancel
  <2>1. UNCHANGED <<reader, held, events>>
    BY <1>1 DEF ChildWrites,
       twee, ChildReads, ChildExits, SlaveCloses, Cancel
  <2>. QED
    BY <1>r, <2>1 DEF HasFatal
<1>2. CASE KillByContext \/ PublishExit \/ CloserKills \/ CloserCloses
  <2>1. UNCHANGED <<reader, held, events>>
    BY <1>2 DEF KillByContext,
       twee, PublishExit, CloserKills, CloserCloses
  <2>. QED
    BY <1>r, <2>1 DEF HasFatal
<1>3. CASE ReadChunk
  BY <1>3 DEF ReadChunk
<1>4. CASE ReadEnd
  <2>1. UNCHANGED <<slave, outq, stopping, runErr, events>> /\ reader = "read"
    BY <1>4 DEF ReadEnd, loop
  <2>2. CASE ~master
    BY <2>1, <2>2 DEF EndHasReason, EndOrder, Phases
  <2>3. CASE ~slave /\ outq = <<>>
    BY <2>1, <2>3
  <2>4. CASE held' = <<[k |-> "fatal"], [k |-> "done"]>>
    <3>1. 1 \in 1..Len(held') /\ held'[1].k = "fatal"
      BY <2>4
    <3>. QED
      BY <3>1 DEF HasFatal
  <2>. QED
    BY <1>r, <1>4, <2>2, <2>3, <2>4 DEF ReadEnd
<1>5. CASE SendEvent
  <2>1. reader' \in {"last", "gone"} => reader \in {"last", "gone"}
    <3>1. reader' = IF held' # <<>> THEN "last" ELSE IF reader = "send" THEN "read" ELSE "gone"
      BY <1>5 DEF SendEvent, Sent
    <3>2. held # <<>> /\ held' = Tail(held) /\ held \in Seq(Event)
      BY <1>5, SendFacts DEF Domains, QueueType
    <3>3. reader = "send" => Len(held) = 1
      BY DEF OutputOrder
    <3>4. reader = "send" => held' = <<>>
      BY <3>2, <3>3
    <3>. QED
      BY <3>1, <3>4, <3>2 DEF OutputOrder, Domains, QueueType
  <2>. QED
    BY <1>r, <1>5, <2>1, FatalSent DEF Domains
<1>6. CASE HostResizes \/ (\E k \in env.kinds : Type(k))
  <2>1. UNCHANGED <<reader, held>>
    BY <1>6, TerminalFacts DEF loop, Domains
  <2>2. /\ Len(events) \in Nat /\ Len(events') = Len(events) + 1
        /\ \A i \in 1..Len(events) : i \in 1..Len(events') /\ events'[i] = events[i]
    BY <1>6, TerminalFacts DEF Domains
  <2>. QED
    BY <1>r, <2>1, <2>2 DEF HasFatal
<1>7. CASE TakeOutput
  <2>1. Take("output")
    BY <1>7 DEF TakeOutput
  <2>2. UNCHANGED <<reader, held>>
    BY <1>7 DEF TakeOutput
  <2>. QED
    BY <1>r, <2>1, <2>2, FatalTaken DEF Domains
<1>8. CASE TakeInput
  <2>1. Take("input")
    BY <1>8 DEF TakeInput
  <2>2. UNCHANGED <<reader, held>>
    BY <1>8 DEF TakeInput
  <2>. QED
    BY <1>r, <2>1, <2>2, FatalTaken DEF Domains
<1>9. CASE TakeResize
  <2>1. Take("resize")
    BY <1>9 DEF TakeResize
  <2>2. UNCHANGED <<reader, held>>
    BY <1>9 DEF TakeResize
  <2>. QED
    BY <1>r, <2>1, <2>2, FatalTaken DEF Domains
<1>10. CASE TakeFatal
  BY <1>10 DEF TakeFatal, Fails
<1>11. CASE TakeDone
  <2>1. Take("done")
    BY <1>11 DEF TakeDone
  <2>2. UNCHANGED <<reader, held>>
    BY <1>11 DEF TakeDone
  <2>. QED
    BY <1>r, <2>1, <2>2, FatalTaken DEF Domains
<1>12. CASE WriteReply \/ RedrawFires \/ QuietFires \/ EscapeFires
          \/ ContextDone \/ Prompt \/ Quit
  <2>1. UNCHANGED <<reader, held, events>>
    BY <1>12 DEF WriteReply,
       WriteFails, Fails, Recorded, RedrawFires, Redraw, QuietFires,
       WithPendingWait, Wait, ClearQuiet, EscapeFires, ContextDone,
       StopChild, others, Prompt, Quit, Handle
  <2>. QED
    BY <1>r, <2>1 DEF HasFatal
<1>13. CASE StartMarker \/ ToggleTrace \/ ToggleScript \/ Forward
          \/ RecordForwarded \/ Handled
  <2>1. UNCHANGED <<reader, held, events>>
    BY <1>13 DEF StartMarker,
       Handle, Redraw, ToggleTrace, Succeeds, EndOf, Seed, Fails,
       ToggleScript, WithPendingWait, Wait, ClearQuiet, Resized,
       PartialStart, Forward, Forwards, WriteFails, RecordForwarded,
       RecordedInput, Recorded, Input, Scripted, Operation, ArmAfterAction,
       Handled
  <2>. QED
    BY <1>r, <2>1 DEF HasFatal
<1>14. CASE LoopEnds \/ Finalize \/ Return
  <2>1. UNCHANGED <<reader, held, events>>
    BY <1>14 DEF LoopEnds,
       Finalize, WithPendingWait, Wait, ClearQuiet, Redraw, Recorded,
       Succeeds, EndOf, Fails, others, Return
  <2>. QED
    BY <1>r, <2>1 DEF HasFatal
<1>15. CASE UNCHANGED vars
  BY <1>r, <1>15 DEF HasFatal
<1>. QED
  BY <1>1, <1>2, <1>3, <1>4, <1>5, <1>6, <1>7, <1>8, <1>9, <1>10, <1>11,
     <1>12, <1>13, <1>14, <1>15 DEF Next, Loop, Over

(* The reader, the master and Runner.Close end for a reason.                *)
LEMMA EndHasReasonStep ==
  ASSUME Domains, Phases, OutputOrder, EndOrder, EndHasReason, [Next]_vars
  PROVE  EndHasReason'
<1>1. ~master' => closer' = "done"
  BY MasterOutlastsChild DEF EndHasReason
<1>2. closer' # "none" => stopping' \/ pc' \in {"close", "done"}
  BY ClosedForReason DEF EndHasReason
<1>. QED
  BY <1>1, <1>2, EndReasonStep DEF EndHasReason, HasFatal

-----------------------------------------------------------------------------
(* The trace as a whole.                                                    *)

(* At most an entry that is neither output nor exit is added to the trace.  *)
LogsNoOutcome ==
  \/ log' = log
  \/ /\ trace = "recording"
     /\ \E e \in Entry : e.k \notin {"output", "exit"} /\ log' = Append(log, e)

(* What an appended entry changes in the trace.                             *)
LEMMA EntryAppended ==
  ASSUME RecorderType, NEW e \in Entry, log' = Append(log, e)
  PROVE  /\ Len(log) \in Nat /\ Len(log') = Len(log) + 1 /\ log'[Len(log')] = e
         /\ \A j \in 1..Len(log) : j \in 1..Len(log') /\ log'[j] = log[j]
         /\ \A j \in 1..Len(log') : j \in 1..Len(log) \/ j = Len(log')
BY DEF RecorderType

(* An entry that is no output and no exit leaves a whole trace whole, and   *)
(* so does the end of its recording.                                        *)
LEMMA WholeStays ==
  ASSUME RecorderType, TraceIsWhole, LogsNoOutcome, UNCHANGED <<opts, fed, startedAt>>,
         trace' \in {trace, "finalized", "failed"},
         (pc' \in {"close", "done"}) <=> (pc \in {"close", "done"})
  PROVE  TraceIsWhole'
<1>1. CASE log' = log
  <2>1. (HasExit' <=> HasExit) /\ (OutputsUpTo(fed)' <=> OutputsUpTo(fed))
    BY <1>1 DEF HasExit, OutputsUpTo
  <2>2. HasExit => log'[Len(log')] = log[Len(log)]
    BY <1>1
  <2>. QED
    BY <2>1, <2>2 DEF TraceIsWhole
<1>2. ASSUME trace = "recording", NEW e \in Entry, e.k \notin {"output", "exit"}, log' = Append(log, e)
      PROVE  TraceIsWhole'
  <2>1. ~HasExit
    BY <1>2 DEF TraceIsWhole
  <2>2. ~HasExit'
    BY <1>2, <2>1, EntryAppended DEF HasExit
  <2>3. OutputsUpTo(fed) => OutputsUpTo(fed)'
    <3>1. SUFFICES ASSUME OutputsUpTo(fed) PROVE OutputsUpTo(fed)'
      OBVIOUS
    <3>2. \A j \in 1..Len(log') : log'[j].k = "output" => j \in 1..Len(log) /\ log'[j] = log[j]
      BY <1>2, EntryAppended
    <3>3. \A j \in 1..Len(log) : j \in 1..Len(log') /\ log'[j] = log[j]
      BY <1>2, EntryAppended
    <3>4. ASSUME NEW j \in 1..Len(log'), log'[j].k = "output"
          PROVE  /\ log'[j].n \in 1..fed
                 /\ \A i \in 1..Len(log') : log'[i].k = "output" /\ i < j => log'[i].n < log'[j].n
      BY <3>1, <3>2, <3>4 DEF OutputsUpTo
    <3>5. \A m \in 1..fed : \E j \in 1..Len(log') : log'[j].k = "output" /\ log'[j].n = m
      BY <3>1, <3>3 DEF OutputsUpTo
    <3>. QED
      BY <3>4, <3>5 DEF OutputsUpTo
  <2>. QED
    BY <1>2, <2>1, <2>2, <2>3 DEF TraceIsWhole
<1>. QED
  BY <1>1, <1>2 DEF LogsNoOutcome

(* outputEvent records and feeds the same chunk, and finalize writes the    *)
(* exit last: a trace that began with the session has what the model was    *)
(* fed.                                                                     *)
LEMMA TraceIsWholeStep ==
  ASSUME Domains, Phases, OutputOrder, EndOrder, TraceIsWhole, [Next]_vars
  PROVE  TraceIsWhole'
<1>. USE DEF vars, kernel, runner, feeders, decoder, tracing, scripting,
            waits, screen, outcome, recorders
<1>1. CASE ChildWrites \/ ChildReads \/ ChildExits \/ SlaveCloses \/ Cancel
  <2>1. LogsNoOutcome /\ UNCHANGED <<opts, fed, startedAt, trace>>
        /\ ((pc' \in {"close", "done"}) <=> (pc \in {"close", "done"}))
    BY <1>1 DEF
       ChildWrites, twee, ChildReads, ChildExits, SlaveCloses, Cancel,
       LogsNoOutcome
  <2>. QED
    BY <2>1, WholeStays DEF Domains
<1>2. CASE KillByContext \/ PublishExit \/ CloserKills \/ CloserCloses
  <2>1. LogsNoOutcome /\ UNCHANGED <<opts, fed, startedAt, trace>>
        /\ ((pc' \in {"close", "done"}) <=> (pc \in {"close", "done"}))
    BY <1>2 DEF
       KillByContext, twee, PublishExit, CloserKills, CloserCloses,
       LogsNoOutcome
  <2>. QED
    BY <2>1, WholeStays DEF Domains
<1>3. CASE ReadChunk \/ ReadEnd \/ SendEvent
  <2>1. LogsNoOutcome /\ UNCHANGED <<opts, fed, startedAt, trace>>
        /\ ((pc' \in {"close", "done"}) <=> (pc \in {"close", "done"}))
    BY <1>3 DEF
       ReadChunk, Output, loop, ReadEnd, SendEvent, Sent, LogsNoOutcome
  <2>. QED
    BY <2>1, WholeStays DEF Domains
<1>4. CASE HostResizes
  <2>1. LogsNoOutcome /\ UNCHANGED <<opts, fed, startedAt, trace>>
        /\ ((pc' \in {"close", "done"}) <=> (pc \in {"close", "done"}))
    BY <1>4 DEF
       HostResizes, loop, LogsNoOutcome
  <2>. QED
    BY <2>1, WholeStays DEF Domains
<1>5. CASE \E k \in env.kinds : Type(k)
  <2>1. LogsNoOutcome /\ UNCHANGED <<opts, fed, startedAt, trace>>
        /\ ((pc' \in {"close", "done"}) <=> (pc \in {"close", "done"}))
    BY <1>5 DEF
       Type, loop, LogsNoOutcome
  <2>. QED
    BY <2>1, WholeStays DEF Domains
<1>6. CASE TakeInput \/ TakeFatal \/ TakeDone \/ RedrawFires \/ QuietFires
         \/ EscapeFires
  <2>1. LogsNoOutcome /\ UNCHANGED <<opts, fed, startedAt, trace>>
        /\ ((pc' \in {"close", "done"}) <=> (pc \in {"close", "done"}))
    BY <1>6 DEF
       TakeInput, Decoded, Take, TakeFatal, Fails, StopChild, others,
       TakeDone, Redraw, RedrawFires, QuietFires, WithPendingWait, Wait,
       ClearQuiet, EscapeFires, LogsNoOutcome
  <2>. QED
    BY <2>1, WholeStays DEF Domains
<1>7. CASE ContextDone \/ Quit \/ StartMarker
  <2>1. LogsNoOutcome /\ UNCHANGED <<opts, fed, startedAt, trace>>
        /\ ((pc' \in {"close", "done"}) <=> (pc \in {"close", "done"}))
    BY <1>7 DEF
       ContextDone, StopChild, others, Quit, Handle, Redraw, StartMarker,
       LogsNoOutcome
  <2>. QED
    BY <2>1, WholeStays DEF Domains
<1>8. CASE ToggleScript \/ Forward \/ Handled \/ LoopEnds \/ Return
  <2>1. LogsNoOutcome /\ UNCHANGED <<opts, fed, startedAt, trace>>
        /\ ((pc' \in {"close", "done"}) <=> (pc \in {"close", "done"}))
    BY <1>8 DEF
       ToggleScript, Handle, Redraw, Succeeds, EndOf, Fails,
       WithPendingWait, Wait, ClearQuiet, Resized, PartialStart, Forward,
       Forwards, WriteFails, Handled, LoopEnds, Return, LogsNoOutcome
  <2>. QED
    BY <2>1, WholeStays DEF Domains
<1>9. CASE WriteReply
  <2>1. LogsNoOutcome
    BY <1>9, EntryTypes DEF WriteReply, Recorded, LogsNoOutcome
  <2>2. UNCHANGED <<opts, fed, startedAt, trace>>
        /\ ((pc' \in {"close", "done"}) <=> (pc \in {"close", "done"}))
    BY <1>9 DEF WriteReply, Redraw, Take, StopChild, others
  <2>. QED
    BY <2>1, <2>2, WholeStays DEF Domains
<1>10. CASE TakeResize
  <2>1. LogsNoOutcome
    BY <1>10, EntryTypes DEF TakeResize, Recorded, LogsNoOutcome
  <2>2. UNCHANGED <<opts, fed, startedAt, trace>>
        /\ ((pc' \in {"close", "done"}) <=> (pc \in {"close", "done"}))
    BY <1>10 DEF TakeResize, Redraw, Take, StopChild, others
  <2>. QED
    BY <2>1, <2>2, WholeStays DEF Domains
<1>11. CASE Prompt
  <2>1. LogsNoOutcome
    BY <1>11, EntryTypes DEF Prompt, Recorded, LogsNoOutcome
  <2>2. UNCHANGED <<opts, fed, startedAt, trace>>
        /\ ((pc' \in {"close", "done"}) <=> (pc \in {"close", "done"}))
    BY <1>11 DEF Prompt, Redraw, Take, StopChild, others
  <2>. QED
    BY <2>1, <2>2, WholeStays DEF Domains
<1>12. CASE ToggleTrace
  <2>1. UNCHANGED <<opts, fed, pc>> /\ pc = "handle"
    BY <1>12 DEF ToggleTrace, Handle, Redraw
  <2>2. CASE trace' = "recording" /\ trace # "recording"
    <3>1. trace = "idle"
      BY <1>12, <2>2 DEF ToggleTrace, EndOf
    <3>2. log' = <<Seed(Head(todo).id)>>
      BY <1>12, <2>2 DEF ToggleTrace
    <3>3. ~HasExit'
      BY <3>2 DEF HasExit, Seed
    <3>4. ~opts.trace
      BY <3>1 DEF TraceIsWhole
    <3>. QED
      BY <2>1, <3>3, <3>4 DEF TraceIsWhole
  <2>3. CASE ~(trace' = "recording" /\ trace # "recording")
    <3>1. /\ trace' \in {trace, "finalized", "failed"}
          /\ trace' = "recording" => opts.whole
      BY <1>12, <2>3 DEF ToggleTrace, EndOf
    <3>2. UNCHANGED <<log, startedAt>>
      BY <1>12, <2>3, <3>1 DEF ToggleTrace, EndOf
    <3>. QED
      BY <2>1, <3>1, <3>2, WholeStays DEF Domains, LogsNoOutcome
  <2>. QED
    BY <2>2, <2>3
<1>13. CASE RecordForwarded
  <2>1. todo[1].id \in Nat /\ Head(todo) = todo[1]
    BY <1>13, HeadItem DEF RecordForwarded, Domains, Phases
  <2>2. LogsNoOutcome
    BY <1>13, <2>1, EntryTypes DEF RecordForwarded, RecordedInput, Input, Recorded,
         LogsNoOutcome
  <2>3. UNCHANGED <<opts, fed, startedAt, trace>>
        /\ ((pc' \in {"close", "done"}) <=> (pc \in {"close", "done"}))
    BY <1>13 DEF RecordForwarded
  <2>. QED
    BY <2>2, <2>3, WholeStays DEF Domains
<1>14. CASE Finalize
  <2> DEFINE e == [k |-> "exit"]
  <2>1. UNCHANGED <<opts, fed, startedAt>> /\ pc = "handle" /\ pc' = "close"
    BY <1>14 DEF Finalize, Redraw
  <2>2. ~HasExit
    BY <2>1 DEF TraceIsWhole
  <2>3. /\ trace' # "recording"
        /\ trace' = "idle" => trace = "idle"
    BY <1>14 DEF Finalize, EndOf
  <2>4. CASE trace # "recording"
    <3>1. log' = log
      BY <1>14, <2>4 DEF Finalize, Recorded
    <3>2. ~HasExit'
      BY <2>2, <3>1 DEF HasExit
    <3>. QED
      BY <2>1, <2>3, <3>2 DEF TraceIsWhole
  <2>5. CASE trace = "recording"
    <3>1. log' = Append(log, e)
      BY <1>14, <2>5 DEF Finalize, Recorded
    <3>2. e \in Entry /\ e.k = "exit"
      BY EntryTypes
    <3>. HIDE DEF e
    <3>3. /\ Len(log) \in Nat /\ Len(log') = Len(log) + 1 /\ log'[Len(log')] = e
          /\ \A j \in 1..Len(log) : j \in 1..Len(log') /\ log'[j] = log[j]
          /\ \A j \in 1..Len(log') : j \in 1..Len(log) \/ j = Len(log')
      BY <3>1, <3>2, EntryAppended DEF Domains
    <3>4. OutputsUpTo(fed) => OutputsUpTo(fed)'
      <4>1. SUFFICES ASSUME OutputsUpTo(fed) PROVE OutputsUpTo(fed)'
        OBVIOUS
      <4>2. \A j \in 1..Len(log') : log'[j].k = "output" => j \in 1..Len(log) /\ log'[j] = log[j]
        BY <3>2, <3>3
      <4>3. ASSUME NEW j \in 1..Len(log'), log'[j].k = "output"
            PROVE  /\ log'[j].n \in 1..fed
                   /\ \A i \in 1..Len(log') : log'[i].k = "output" /\ i < j => log'[i].n < log'[j].n
        BY <4>1, <4>2, <4>3 DEF OutputsUpTo
      <4>4. \A m \in 1..fed : \E j \in 1..Len(log') : log'[j].k = "output" /\ log'[j].n = m
        BY <3>3, <4>1 DEF OutputsUpTo
      <4>. QED
        BY <2>1, <4>3, <4>4 DEF OutputsUpTo
    <3>. QED
      BY <2>1, <2>3, <2>5, <3>2, <3>3, <3>4 DEF TraceIsWhole
  <2>. QED
    BY <2>4, <2>5
<1>15. CASE TakeOutput
  <2> DEFINE e == [k |-> "output", n |-> events[1].chunk.n, seen |-> events[1].chunk.seen]
  <2>1. Head(events) = events[1] /\ events[1].chunk \in Chunk /\ pc = "select"
    BY <1>15, TakeChunk DEF TakeOutput, Take, Domains
  <2>2. events[1].chunk.n = fed + 1 /\ fed' = fed + 1 /\ fed \in Nat
    BY <1>15, <2>1, NextChunk DEF TakeOutput, Domains, OutcomeType
  <2>3. UNCHANGED <<opts, trace, startedAt>> /\ pc' \in {"reply", "select"}
    BY <1>15 DEF TakeOutput
  <2>4. ~HasExit
    BY <2>1 DEF TraceIsWhole
  <2>5. e \in Entry /\ e.k = "output" /\ e.n = fed + 1
    BY <2>1, <2>2 DEF Entry, Chunk
  <2>6. \/ log' = log
        \/ trace = "recording" /\ log' = Append(log, e)
    BY <1>15, <2>1 DEF TakeOutput, RecordedOutput
  <2>7. opts.trace /\ trace = "recording" => log' = Append(log, e)
    <3>1. SUFFICES ASSUME opts.trace, trace = "recording" PROVE log' = Append(log, e)
      OBVIOUS
    <3>2. startedAt = 0
      BY <3>1 DEF TraceIsWhole
    <3>3. events[1].chunk.n > startedAt
      BY <2>2, <3>2
    <3>. QED
      BY <1>15, <2>1, <3>1, <3>3 DEF TakeOutput, RecordedOutput
  <2>. HIDE DEF e
  <2>8. ~HasExit'
    BY <2>4, <2>5, <2>6, EntryAppended DEF HasExit, Domains
  <2>9. ASSUME opts.trace, trace = "recording"
        PROVE  OutputsUpTo(fed)'
    <3>1. OutputsUpTo(fed) /\ log' = Append(log, e)
      BY <2>7, <2>9 DEF TraceIsWhole
    <3>2. /\ Len(log) \in Nat /\ Len(log') = Len(log) + 1 /\ log'[Len(log')] = e
          /\ \A j \in 1..Len(log) : j \in 1..Len(log') /\ log'[j] = log[j]
          /\ \A j \in 1..Len(log') : j \in 1..Len(log) \/ j = Len(log')
      BY <2>5, <3>1, EntryAppended DEF Domains
    <3>3. ASSUME NEW j \in 1..Len(log'), log'[j].k = "output"
          PROVE  /\ log'[j].n \in 1..(fed + 1)
                 /\ \A i \in 1..Len(log') : log'[i].k = "output" /\ i < j => log'[i].n < log'[j].n
      <4>1. CASE j \in 1..Len(log)
        BY <2>2, <3>1, <3>2, <3>3, <4>1 DEF OutputsUpTo
      <4>2. CASE j = Len(log')
        <5>1. log'[j].n = fed + 1
          BY <2>5, <3>2, <4>2
        <5>2. ASSUME NEW i \in 1..Len(log'), log'[i].k = "output", i < j
              PROVE  log'[i].n < log'[j].n
          <6>1. i \in 1..Len(log) /\ log'[i] = log[i]
            BY <3>2, <4>2, <5>2
          <6>2. log[i].n \in 1..fed
            BY <3>1, <5>2, <6>1 DEF OutputsUpTo
          <6>. QED
            BY <2>2, <5>1, <6>1, <6>2
        <5>. QED
          BY <2>2, <5>1, <5>2
      <4>. QED
        BY <3>2, <4>1, <4>2
    <3>4. ASSUME NEW m \in 1..(fed + 1)
          PROVE  \E j \in 1..Len(log') : log'[j].k = "output" /\ log'[j].n = m
      <4>1. CASE m = fed + 1
        <5>1. Len(log') \in 1..Len(log')
          BY <3>2
        <5>. QED
          BY <2>5, <3>2, <4>1, <5>1
      <4>2. CASE m # fed + 1
        <5>1. m \in 1..fed
          BY <2>2, <4>2
        <5>. QED
          BY <3>1, <3>2, <5>1 DEF OutputsUpTo
      <4>. QED
        BY <4>1, <4>2
    <3>. QED
      BY <2>2, <3>3, <3>4 DEF OutputsUpTo
  <2>. QED
    BY <2>3, <2>8, <2>9 DEF TraceIsWhole
<1>16. CASE UNCHANGED vars
  BY <1>16, WholeStays DEF LogsNoOutcome, Domains
<1>. QED
  BY <1>1, <1>2, <1>3, <1>4, <1>5, <1>6, <1>7, <1>8, <1>9, <1>10, <1>11,
     <1>12, <1>13, <1>14, <1>15, <1>16 DEF Next, Loop, Over

-----------------------------------------------------------------------------
(* The waits of a script, and the screen.                                   *)

(* What an appended operation changes in the script.                        *)
LEMMA OpAppended ==
  ASSUME RecorderType, NEW o \in Op, ops' = Append(ops, o)
  PROVE  /\ Len(ops) \in Nat /\ Len(ops') = Len(ops) + 1 /\ ops'[Len(ops')] = o /\ ops' # <<>>
         /\ \A j \in 1..Len(ops) : j \in 1..Len(ops') /\ ops'[j] = ops[j]
         /\ \A j \in 1..Len(ops') : j \in 1..Len(ops) \/ j = Len(ops')
BY DEF RecorderType

(* An action that is recorded takes no wait away from the action before     *)
(* it.                                                                      *)
LEMMA ActionAppended ==
  ASSUME RecorderType, WaitsAreEarned, NEW o \in Op, o.k # "wait", ops' = Append(ops, o)
  PROVE  WaitsAreEarned' /\ ops' # <<>> /\ ops'[Len(ops')].k # "wait"
<1>1. SUFFICES ASSUME NEW j \in 1..Len(ops'), ops'[j].k = "wait"
               PROVE  j > 1 /\ ops'[j - 1].k # "wait" /\ ops'[j].fed > ops'[j].acted
  BY OpAppended DEF WaitsAreEarned
<1>2. j \in 1..Len(ops) /\ ops'[j] = ops[j]
  BY <1>1, OpAppended
<1>3. j > 1 /\ ops[j - 1].k # "wait" /\ ops[j].fed > ops[j].acted
  BY <1>1, <1>2 DEF WaitsAreEarned
<1>4. j - 1 \in 1..Len(ops)
  BY <1>2, <1>3, OpAppended
<1>. QED
  BY <1>2, <1>3, <1>4, OpAppended

(* flushPendingWait writes a wait only when one is due.                     *)
LEMMA WaitAppended ==
  ASSUME RecorderType, OutcomeType, WaitsAreDue, WaitsAreEarned, ops' = WithPendingWait
  PROVE  WaitsAreEarned'
<1>1. CASE ops' = ops
  BY <1>1 DEF WaitsAreEarned
<1>2. CASE waiting /\ outputSince /\ script = "recording" /\ ops' = Append(ops, Wait)
  <2>1. Wait \in Op /\ Wait.k = "wait" /\ Wait.fed = fed /\ Wait.acted = acted
    BY DEF Wait, Op, RecorderType, OutcomeType
  <2>2. ops # <<>> /\ ops[Len(ops)].k # "wait" /\ acted < fed
    BY <1>2 DEF WaitsAreDue
  <2>. HIDE DEF Wait
  <2>3. Len(ops) \in Nat \ {0}
    BY <2>2 DEF RecorderType
  <2>4. ASSUME NEW j \in 1..Len(ops'), ops'[j].k = "wait"
        PROVE  j > 1 /\ ops'[j - 1].k # "wait" /\ ops'[j].fed > ops'[j].acted
    <3>1. CASE j \in 1..Len(ops)
      <4>1. ops'[j] = ops[j]
        BY <1>2, <2>1, <3>1, OpAppended
      <4>2. j > 1 /\ ops[j - 1].k # "wait" /\ ops[j].fed > ops[j].acted
        BY <2>4, <3>1, <4>1 DEF WaitsAreEarned
      <4>3. j - 1 \in 1..Len(ops)
        BY <2>3, <3>1, <4>2
      <4>4. ops'[j - 1] = ops[j - 1]
        BY <1>2, <2>1, <4>3, OpAppended
      <4>. QED
        BY <4>1, <4>2, <4>4
    <3>2. CASE j = Len(ops')
      <4>1. j = Len(ops) + 1 /\ ops'[j] = Wait
        BY <1>2, <2>1, <3>2, OpAppended
      <4>2. j > 1 /\ j - 1 = Len(ops) /\ j - 1 \in 1..Len(ops)
        BY <2>3, <4>1
      <4>3. ops'[j - 1] = ops[Len(ops)]
        BY <1>2, <2>1, <4>2, OpAppended
      <4>. QED
        BY <2>1, <2>2, <4>1, <4>2, <4>3 DEF RecorderType, OutcomeType
    <3>. QED
      BY <1>2, <2>1, <3>1, <3>2, OpAppended
  <2>. QED
    BY <2>4 DEF WaitsAreEarned
<1>. QED
  BY <1>1, <1>2 DEF WithPendingWait

(* Arming a wait after an action: no output has followed it yet.            *)
LEMMA ArmedIsDue ==
  ASSUME OutcomeType, RecorderType, WaitsAreDue, ArmAfterAction, UNCHANGED <<script, fed>>,
         script = "recording" => ops' # <<>> /\ ops'[Len(ops')].k # "wait"
  PROVE  WaitsAreDue'
<1>1. CASE UNCHANGED waits
  BY <1>1 DEF waits, WaitsAreDue
<1>2. CASE outputSince' = FALSE /\ acted' = fed
  <2>1. acted' <= fed'
    BY <1>2 DEF OutcomeType
  <2>. QED
    BY <1>2, <2>1 DEF WaitsAreDue
<1>. QED
  BY <1>1, <1>2 DEF ArmAfterAction

(* A wait is written only after an action that output followed, and a       *)
(* script that starts while a wait is armed starts with its size.           *)
LEMMA WaitsStep ==
  ASSUME Domains, Phases, ScriptHoldsInputs, OutputOrder, WaitsAreDue, WaitsAreEarned, [Next]_vars
  PROVE  WaitsAreDue' /\ WaitsAreEarned'
<1>. USE DEF vars, kernel, runner, feeders, decoder, tracing, scripting,
            waits, screen, outcome, recorders
<1>1. CASE ChildWrites \/ ChildReads \/ ChildExits \/ SlaveCloses \/ Cancel
  <2>1. UNCHANGED <<script, ops, waits, fed>>
    BY <1>1 DEF ChildWrites,
       twee, ChildReads, ChildExits, SlaveCloses, Cancel
  <2>. QED
    BY <2>1 DEF WaitsAreDue, WaitsAreEarned
<1>2. CASE KillByContext \/ PublishExit \/ CloserKills \/ CloserCloses
  <2>1. UNCHANGED <<script, ops, waits, fed>>
    BY <1>2 DEF KillByContext,
       twee, PublishExit, CloserKills, CloserCloses
  <2>. QED
    BY <2>1 DEF WaitsAreDue, WaitsAreEarned
<1>3. CASE ReadChunk \/ ReadEnd \/ SendEvent
  <2>1. UNCHANGED <<script, ops, waits, fed>>
    BY <1>3 DEF ReadChunk,
       Output, loop, ReadEnd, SendEvent, Sent
  <2>. QED
    BY <2>1 DEF WaitsAreDue, WaitsAreEarned
<1>4. CASE HostResizes
  <2>1. UNCHANGED <<script, ops, waits, fed>>
    BY <1>4 DEF HostResizes,
       loop
  <2>. QED
    BY <2>1 DEF WaitsAreDue, WaitsAreEarned
<1>5. CASE \E k \in env.kinds : Type(k)
  <2>1. UNCHANGED <<script, ops, waits, fed>>
    BY <1>5 DEF Type, loop
  <2>. QED
    BY <2>1 DEF WaitsAreDue, WaitsAreEarned
<1>6. CASE WriteReply \/ TakeInput \/ TakeFatal \/ TakeDone
  <2>1. UNCHANGED <<script, ops, waits, fed>>
    BY <1>6 DEF WriteReply,
       WriteFails, Fails, Recorded, TakeInput, Decoded, Take, TakeFatal,
       StopChild, others, TakeDone, Redraw
  <2>. QED
    BY <2>1 DEF WaitsAreDue, WaitsAreEarned
<1>7. CASE RedrawFires \/ EscapeFires \/ ContextDone
  <2>1. UNCHANGED <<script, ops, waits, fed>>
    BY <1>7 DEF RedrawFires,
       Redraw, EscapeFires, ContextDone, StopChild, others
  <2>. QED
    BY <2>1 DEF WaitsAreDue, WaitsAreEarned
<1>8. CASE Prompt \/ Quit \/ StartMarker \/ Handled \/ LoopEnds \/ Return
  <2>1. UNCHANGED <<script, ops, waits, fed>>
    BY <1>8 DEF Prompt,
       Recorded, Redraw, Quit, Handle, StopChild, others, StartMarker,
       Handled, LoopEnds, Return
  <2>. QED
    BY <2>1 DEF WaitsAreDue, WaitsAreEarned
<1>9. CASE TakeOutput
  <2>1. fed' = fed + 1 /\ fed \in Nat /\ acted \in Nat
    BY <1>9, NextChunk, TakeChunk DEF TakeOutput, Take, Domains, OutcomeType, RecorderType
  <2>2. UNCHANGED <<script, ops, waiting, acted>>
    BY <1>9 DEF TakeOutput
  <2>3. acted <= fed' /\ acted < fed'
    BY <2>1 DEF WaitsAreDue
  <2>. QED
    BY <2>2, <2>3 DEF WaitsAreDue, WaitsAreEarned
<1>10. CASE TakeResize
  <2>1. UNCHANGED <<script, fed>>
    BY <1>10 DEF TakeResize, Redraw
  <2>2. CASE UNCHANGED <<ops, waits>>
    BY <2>1, <2>2 DEF WaitsAreDue, WaitsAreEarned
  <2>3. CASE ops' = (IF script = "recording" THEN Append(ops, Resized) ELSE ops) /\ ArmAfterAction
    <3>1. Resized \in Op /\ Resized.k # "wait"
      BY ResizedType DEF Resized, Domains
    <3>2. WaitsAreEarned' /\ (script = "recording" => ops' # <<>> /\ ops'[Len(ops')].k # "wait")
      <4>1. CASE script = "recording"
        BY <2>3, <3>1, <4>1, ActionAppended DEF Domains
      <4>2. CASE script # "recording"
        BY <2>3, <4>2 DEF WaitsAreEarned
      <4>. QED
        BY <4>1, <4>2
    <3>. QED
      BY <2>1, <2>3, <3>2, ArmedIsDue DEF Domains
  <2>. QED
    BY <1>10, <2>2, <2>3 DEF TakeResize
<1>11. CASE QuietFires
  <2>1. ops' = WithPendingWait /\ waiting' = FALSE /\ UNCHANGED <<acted, fed>>
    BY <1>11 DEF QuietFires, ClearQuiet
  <2>. QED
    BY <2>1, WaitAppended DEF WaitsAreDue, Domains
<1>12. CASE ToggleTrace
  <2>1. UNCHANGED <<script, ops, waits, fed>>
    BY <1>12 DEF ToggleTrace,
       Handle, Redraw, Succeeds, EndOf, Seed, Fails
  <2>. QED
    BY <2>1 DEF WaitsAreDue, WaitsAreEarned
<1>13. CASE ToggleScript
  <2>1. UNCHANGED fed
    BY <1>13 DEF ToggleScript, Redraw
  <2>2. CASE script = "recording"
    <3>1. ops' = WithPendingWait /\ waiting' = FALSE /\ UNCHANGED acted
      BY <1>13, <2>2 DEF ToggleScript, ClearQuiet
    <3>. QED
      BY <2>1, <3>1, WaitAppended DEF WaitsAreDue, Domains
  <2>3. CASE script # "recording" /\ script' = "recording"
    <3>1. ops' = <<Resized>> /\ UNCHANGED waits
      BY <1>13, <2>3 DEF ToggleScript
    <3>2. /\ ops' # <<>> /\ Len(ops') = 1 /\ ops'[Len(ops')].k # "wait"
          /\ \A j \in 1..Len(ops') : ops'[j].k # "wait"
      BY <3>1 DEF Resized
    <3>. QED
      BY <2>1, <3>1, <3>2 DEF WaitsAreDue, WaitsAreEarned
  <2>4. CASE script # "recording" /\ script' # "recording"
    <3>1. UNCHANGED <<ops, waits>>
      BY <1>13, <2>4 DEF ToggleScript
    <3>. QED
      BY <2>1, <2>4, <3>1 DEF WaitsAreDue, WaitsAreEarned
  <2>. QED
    BY <2>2, <2>3, <2>4
<1>14. CASE Forward
  <2>1. UNCHANGED <<script, ops, waits, fed>>
    BY <1>14 DEF Forward,
       Forwards, WriteFails, Fails
  <2>. QED
    BY <2>1 DEF WaitsAreDue, WaitsAreEarned
<1>15. CASE RecordForwarded
  <2>1. UNCHANGED <<script, fed>> /\ pc = "record"
    BY <1>15 DEF RecordForwarded
  <2>2. Head(todo) \in Item
    BY <1>15, <2>1, HeadItem DEF Domains, Phases
  <2>3. CASE Head(todo).k = "unknown" \/ script # "recording"
    <3>1. ops' = ops
      BY <1>15, <2>3 DEF RecordForwarded, Scripted
    <3>2. CASE Head(todo).k = "unknown"
      <4>1. UNCHANGED waits
        BY <1>15, <3>2 DEF RecordForwarded
      <4>. QED
        BY <2>1, <3>1, <4>1 DEF WaitsAreDue, WaitsAreEarned
    <3>3. CASE Head(todo).k # "unknown" /\ script # "recording"
      <4>1. ArmAfterAction
        BY <1>15, <3>3 DEF RecordForwarded
      <4>2. WaitsAreEarned'
        BY <3>1 DEF WaitsAreEarned
      <4>. QED
        BY <2>1, <3>3, <4>1, <4>2, ArmedIsDue DEF Domains
    <3>. QED
      BY <2>3, <3>2, <3>3
  <2>4. CASE Head(todo).k # "unknown" /\ script = "recording"
    <3>1. ops' = Scripted(Head(todo)) /\ ArmAfterAction
      BY <1>15, <2>4 DEF RecordForwarded
    <3>2. ops # <<>>
      BY <2>4 DEF ScriptHoldsInputs
    <3>3. /\ Len(ops) \in Nat \ {0} /\ Len(ops') \in Nat /\ ops' # <<>>
          /\ \A j \in 1..Len(ops) :
               /\ j \in 1..Len(ops') /\ ops'[j].k = ops[j].k /\ ops'[j].fed = ops[j].fed
               /\ ops[j].k = "wait" => ops'[j] = ops[j]
          /\ \A j \in 1..Len(ops') : j \in 1..Len(ops) \/ (j = Len(ops') /\ ops'[j].k = Head(todo).k)
          /\ ops'[Len(ops')].k # "wait"
      BY <2>2, <2>4, <3>1, <3>2, ScriptedInput DEF Domains
    <3>4. ASSUME NEW j \in 1..Len(ops'), ops'[j].k = "wait"
          PROVE  j > 1 /\ ops'[j - 1].k # "wait" /\ ops'[j].fed > ops'[j].acted
      <4>1. j \in 1..Len(ops)
        BY <3>3, <3>4
      <4>2. ops'[j] = ops[j] /\ ops[j].k = "wait"
        BY <3>3, <3>4, <4>1
      <4>3. j > 1 /\ ops[j - 1].k # "wait" /\ ops[j].fed > ops[j].acted
        BY <4>1, <4>2 DEF WaitsAreEarned
      <4>4. j - 1 \in 1..Len(ops)
        BY <3>3, <4>1, <4>3
      <4>. QED
        BY <3>3, <4>2, <4>3, <4>4
    <3>. QED
      BY <2>1, <3>1, <3>3, <3>4, ArmedIsDue DEF WaitsAreEarned, Domains
  <2>. QED
    BY <2>3, <2>4
<1>16. CASE Finalize
  <2>1. ops' = WithPendingWait /\ waiting' = FALSE /\ UNCHANGED <<acted, fed>>
    BY <1>16 DEF Finalize, ClearQuiet, Redraw
  <2>. QED
    BY <2>1, WaitAppended DEF WaitsAreDue, Domains
<1>17. CASE UNCHANGED vars
  BY <1>17 DEF WaitsAreDue, WaitsAreEarned
<1>. QED
  BY <1>1, <1>2, <1>3, <1>4, <1>5, <1>6, <1>7, <1>8, <1>9, <1>10, <1>11,
     <1>12, <1>13, <1>14, <1>15, <1>16, <1>17 DEF Next, Loop, Over

(* Whoever feeds the model paints the screen or arms the redraw timer, and  *)
(* finalize paints if the timer is armed.                                   *)
LEMMA ScreenStep ==
  ASSUME Domains, Phases, ScreenCatchesUp, [Next]_vars
  PROVE  ScreenCatchesUp'
<1>. USE DEF ScreenCatchesUp, vars, kernel, runner, feeders, decoder,
            tracing, scripting, waits, screen, outcome, recorders
<1>1. CASE ChildWrites \/ ChildReads \/ ChildExits \/ SlaveCloses \/ Cancel
  BY <1>1 DEF ChildWrites, twee, ChildReads, ChildExits, SlaveCloses, Cancel
<1>2. CASE KillByContext \/ PublishExit \/ CloserKills \/ CloserCloses
  BY <1>2 DEF KillByContext, twee, PublishExit, CloserKills, CloserCloses
<1>3. CASE ReadChunk \/ ReadEnd \/ SendEvent
  BY <1>3 DEF ReadChunk, Output, loop, ReadEnd, SendEvent, Sent
<1>4. CASE HostResizes
  BY <1>4 DEF HostResizes, loop
<1>5. CASE \E k \in env.kinds : Type(k)
  BY <1>5 DEF Type, loop
<1>6. CASE TakeOutput
  BY <1>6 DEF TakeOutput, RecordedOutput, ScheduleRedraw, Take
<1>7. CASE TakeResize
  BY <1>7 DEF TakeResize, Resized, Recorded, ArmAfterAction, Redraw, Fails,
     StopChild, others, Take
<1>8. CASE ToggleTrace
  BY <1>8 DEF ToggleTrace, Handle, Redraw, Succeeds, EndOf, Seed, Fails
<1>9. CASE ToggleScript
  BY <1>9 DEF ToggleScript, Handle, Redraw, Succeeds, EndOf, Fails,
     WithPendingWait, Wait, ClearQuiet, Resized, PartialStart
<1>10. CASE Finalize
  BY <1>10 DEF Finalize, WithPendingWait, Wait, ClearQuiet, Redraw,
     Recorded, Succeeds, EndOf, Fails, others
<1>11. CASE WriteReply \/ TakeInput \/ TakeFatal \/ TakeDone
  BY <1>11 DEF WriteReply, WriteFails, Fails, Recorded, TakeInput, Decoded,
     Take, TakeFatal, StopChild, others, TakeDone, Redraw
<1>12. CASE RedrawFires \/ QuietFires \/ EscapeFires \/ ContextDone
  BY <1>12 DEF RedrawFires, Redraw, QuietFires, WithPendingWait, Wait,
     ClearQuiet, EscapeFires, ContextDone, StopChild, others
<1>13. CASE Prompt \/ Quit \/ StartMarker \/ Forward
  BY <1>13 DEF Prompt, Recorded, Redraw, Quit, Handle, StopChild, others,
     StartMarker, Forward, Forwards, WriteFails, Fails
<1>14. CASE RecordForwarded \/ Handled \/ LoopEnds \/ Return
  BY <1>14 DEF RecordForwarded, Forwards, RecordedInput, Recorded, Input,
     Scripted, Operation, ArmAfterAction, Handled, LoopEnds, Return
<1>15. CASE UNCHANGED vars
  BY <1>15
<1>. QED
  BY <1>1, <1>2, <1>3, <1>4, <1>5, <1>6, <1>7, <1>8, <1>9, <1>10, <1>11,
     <1>12, <1>13, <1>14, <1>15 DEF Next, Loop, Over

-----------------------------------------------------------------------------
(* The invariant, and what follows from it.                                 *)

(* Nothing has happened yet: the recorders hold their first entries.        *)
LEMMA InitWrapInv == Init => WrapInv
<1>1. SUFFICES ASSUME Init PROVE WrapInv
  OBVIOUS
<1>2. PICK s \in Sessions : opts = s.opts /\ env = s.env
  BY <1>1 DEF Init
<1>3. opts \in AllOptions /\ IsEnvironment(env)
  BY <1>2, WrapAssumption
<1>4. Seed(0) \in Entry /\ Seed(0).k = "seed" /\ Seed(0).id = 0
  BY <1>1 DEF Seed, Entry, Init
<1>5. Resized \in Op /\ Resized.k = "resize" /\ Resized.ids = {} /\ Resized.fed = 0
  BY <1>1 DEF Resized, Op, Init
<1>6. opts.trace \in BOOLEAN /\ opts.script \in BOOLEAN
  BY <1>3 DEF AllOptions
<1>7. \/ opts.trace /\ trace = "recording" /\ log = <<Seed(0)>>
      \/ ~opts.trace /\ trace = "idle" /\ log = <<>>
  BY <1>1, <1>6 DEF Init
<1>8. \/ script = "recording" /\ ops = <<Resized>>
      \/ script = "idle" /\ ops = <<>>
  BY <1>1, <1>6 DEF Init
<1>. HIDE DEF Seed, Resized
<1>9. Domains
  <2>1. KernelType
    <3>1. inq = <<>> /\ outq = <<>> /\ seen = {}
      BY <1>1 DEF Init
    <3>2. /\ inq \in Seq(Nat) /\ Len(inq) <= InCap
          /\ outq \in Seq(Chunk) /\ Len(outq) <= OutCap
      BY <3>1, Caps
    <3>. QED
      BY <1>1, <1>3, <3>1, <3>2 DEF Init, KernelType
  <2>2. QueueType
    <3>1. held = <<>> /\ events = <<>> /\ todo = <<>>
      BY <1>1 DEF Init
    <3>2. /\ held \in Seq(Event) /\ todo \in Seq(Item)
          /\ events \in Seq(Event) /\ Len(events) <= QueueCap
      BY <3>1, Caps
    <3>. QED
      BY <1>1, <3>2 DEF Init, QueueType
  <2>3. RecorderType
    <3>1. log \in Seq(Entry)
      <4>1. <<Seed(0)>> \in Seq(Entry) /\ <<>> \in Seq(Entry)
        BY <1>4
      <4>. QED
        BY <1>7, <4>1
    <3>2. ops \in Seq(Op)
      <4>1. <<Resized>> \in Seq(Op) /\ <<>> \in Seq(Op)
        BY <1>5
      <4>. QED
        BY <1>8, <4>1
    <3>. QED
      BY <1>1, <1>7, <1>8, <3>1, <3>2 DEF Init, RecorderType
  <2>4. OutcomeType
    BY <1>1 DEF Init, OutcomeType
  <2>. QED
    BY <2>1, <2>2, <2>3, <2>4 DEF Domains
<1>10. Phases /\ GivenIsPast /\ NothingYet
  BY <1>1 DEF Init, Phases, GivenIsPast, NothingYet
<1>11. InputOrder
  BY <1>1, <1>9 DEF Init, InputOrder, TodoOrder, QueueOrder, Domains, KernelType,
       IsEnvironment
<1>12. Ahead(0)
  BY <1>1 DEF Init, Ahead
<1>13. log # <<>> => Len(log) = 1 /\ log[1].k = "seed" /\ log[1].id = 0
  BY <1>4, <1>7
<1>14. \A j \in 1..Len(log) : log[j].k = "seed"
  BY <1>7, <1>13
<1>15. TraceHoldsInputs
  BY <1>1, <1>7, <1>12, <1>13, <1>14 DEF Init, TraceHoldsInputs, Ahead
<1>16. ops # <<>> => Len(ops) = 1 /\ ops[1].k = "resize" /\ ops[1].ids = {} /\ ops[1].fed = 0
  BY <1>5, <1>8
<1>17. \A j \in 1..Len(ops) : ops[j].k = "resize" /\ ops[j].ids = {}
  BY <1>8, <1>16
<1>18. ScriptHoldsInputs
  BY <1>1, <1>8, <1>16, <1>17 DEF Init, ScriptHoldsInputs
<1>19. SeenWasGiven
  BY <1>1 DEF Init, SeenWasGiven
<1>20. CauseBeforeEffect
  BY <1>14 DEF CauseBeforeEffect
<1>21. WaitsAreDue /\ WaitsAreEarned
  BY <1>1, <1>17 DEF Init, WaitsAreDue, WaitsAreEarned
<1>22. OutputOrder
  BY <1>1 DEF Init, OutputOrder, Queued
<1>23. EndOrder /\ EndHasReason
  BY <1>1 DEF Init, EndOrder, EndHasReason
<1>24. TraceIsWhole
  <2>1. ~HasExit
    BY <1>14 DEF HasExit
  <2>2. OutputsUpTo(fed)
    BY <1>1, <1>14 DEF Init, OutputsUpTo
  <2>. QED
    BY <1>1, <1>7, <2>1, <2>2 DEF Init, TraceIsWhole
<1>. QED
  BY <1>9, <1>10, <1>11, <1>15, <1>18, <1>19, <1>20, <1>21, <1>22, <1>23, <1>24 DEF WrapInv

(* Every step of the child, the goroutines, the timers and the loop keeps   *)
(* the invariant.                                                           *)
LEMMA StepWrapInv == WrapInv /\ [Next]_vars => WrapInv'
<1>1. SUFFICES ASSUME WrapInv, [Next]_vars PROVE WrapInv'
  OBVIOUS
<1>2. /\ Domains /\ Phases /\ InputOrder /\ GivenIsPast /\ TraceHoldsInputs
      /\ NothingYet /\ ScriptHoldsInputs /\ SeenWasGiven /\ CauseBeforeEffect
      /\ WaitsAreDue /\ WaitsAreEarned /\ OutputOrder /\ EndOrder /\ EndHasReason /\ TraceIsWhole
  BY <1>1 DEF WrapInv
<1>3. Domains'
  <2>1. KernelType /\ QueueType
    BY <1>2 DEF Domains
  <2>. QED
    BY <1>1, <1>2, <2>1, KernelTypeStep, QueueTypeStep, RecorderTypeStep, OutcomeTypeStep
         DEF Domains
<1>4. Phases' /\ NothingYet'
  BY <1>1, <1>2, PhasesStep, NothingYetStep
<1>5. InputOrder'
  BY <1>1, <1>2, TodoOrderStep, QueueOrderStep DEF InputOrder
<1>6. GivenIsPast'
  BY <1>1, <1>2, GivenIsPastStep
<1>7. TraceHoldsInputs'
  BY <1>1, <1>2, TraceHoldsInputsStep
<1>8. ScriptHoldsInputs'
  BY <1>1, <1>2, ScriptHoldsInputsStep
<1>9. SeenWasGiven' /\ CauseBeforeEffect'
  BY <1>1, <1>2, SeenWasGivenStep, CauseBeforeEffectStep
<1>10. WaitsAreDue' /\ WaitsAreEarned'
  BY <1>1, <1>2, WaitsStep
<1>11. OutputOrder' /\ EndOrder'
  BY <1>1, <1>2, OutputOrderStep, EndOrderStep
<1>12. EndHasReason'
  BY <1>1, <1>2, EndHasReasonStep
<1>13. TraceIsWhole'
  BY <1>1, <1>2, TraceIsWholeStep
<1>. QED
  BY <1>3, <1>4, <1>5, <1>6, <1>7, <1>8, <1>9, <1>10, <1>11, <1>12, <1>13 DEF WrapInv

(* The variables have their types, and the child has read nothing that was  *)
(* not written.                                                             *)
LEMMA WrapTypeOK == WrapInv => TypeOK
<1>1. SUFFICES ASSUME WrapInv PROVE TypeOK
  OBVIOUS
<1>2. KernelType /\ QueueType /\ RecorderType /\ OutcomeType
  BY <1>1 DEF WrapInv, Domains
<1>3. pendingEsc \in Ids \cup {0}
  <2>1. pendingEsc <= typed /\ typed <= env.typed
    BY <1>1 DEF WrapInv, InputOrder, QueueOrder
  <2>2. pendingEsc \in Nat /\ typed \in Nat /\ env.typed \in Nat
    BY <1>2, Bounds DEF QueueType
  <2>. QED
    BY <2>1, <2>2 DEF Ids
<1>4. seen \subseteq {g.id : g \in given}
  BY <1>1 DEF WrapInv, SeenWasGiven, Given
<1>. QED
  BY <1>2, <1>3, <1>4 DEF TypeOK, KernelType, QueueType, RecorderType, OutcomeType

(* What a recording trace holds is what was given since it started.         *)
LEMMA InputsAreKept == WrapInv => InputsRecorded
<1>1. SUFFICES ASSUME WrapInv, pc # "record", trace = "recording" PROVE InputsRecorded
  BY DEF InputsRecorded, Recorders
<1> DEFINE start == Head(log).id
           kept  == {log[i].id : i \in {j \in 1..Len(log) : log[j].k = "input"}}
           sent  == {i \in {g.id : g \in given} : i > start}
<1>2. log \in Seq(Entry) /\ log # <<>>
  BY <1>1 DEF WrapInv, Domains, RecorderType, TraceHoldsInputs
<1>3. start = log[1].id
  BY <1>2
<1>4. sent \subseteq kept
  <2>1. SUFFICES ASSUME NEW g \in given, g.id > start PROVE g.id \in kept
    OBVIOUS
  <2>2. Kept(g.id)
    BY <1>1, <1>3, <2>1 DEF WrapInv, TraceHoldsInputs, InHand
  <2>. QED
    BY <2>2 DEF Kept
<1>5. ASSUME runErr = "none"
      PROVE  kept \subseteq sent
  <2>1. SUFFICES ASSUME NEW j \in 1..Len(log), log[j].k = "input" PROVE log[j].id \in sent
    OBVIOUS
  <2>2. Given(log[j].id) /\ log[j].id > log[1].id
    BY <1>1, <1>5, <2>1 DEF WrapInv, TraceHoldsInputs
  <2>. QED
    BY <1>3, <2>2 DEF Given
<1>6. runErr = "none" => kept = sent
  BY <1>4, <1>5
<1>. QED
  BY <1>4, <1>6 DEF InputsRecorded

(* A script that is not partial holds all that was given.                   *)
LEMMA ScriptsAreWhole == WrapInv => ScriptWholeUnlessPartial
<1>1. SUFFICES ASSUME WrapInv, pc # "record", ~ptyDone, script = "recording", ~partial
               PROVE  ScriptWholeUnlessPartial
  BY DEF ScriptWholeUnlessPartial, Recorders
<1> DEFINE kept == UNION {ops[i].ids : i \in 1..Len(ops)}
           sent == {g.id : g \in {h \in given : h.k # "unknown"}}
<1>2. ops \in Seq(Op) /\ ops # <<>>
  BY <1>1 DEF WrapInv, Domains, RecorderType, ScriptHoldsInputs
<1>3. Head(ops).fed = 0
  BY <1>1, <1>2 DEF WrapInv, ScriptHoldsInputs
<1>4. sent \subseteq kept
  <2>1. SUFFICES ASSUME NEW g \in given, g.k # "unknown" PROVE g.id \in kept
    OBVIOUS
  <2>2. Written(g.id)
    BY <1>1, <2>1 DEF WrapInv, ScriptHoldsInputs, InHand
  <2>. QED
    BY <2>2 DEF Written
<1>5. ASSUME runErr = "none"
      PROVE  kept \subseteq sent
  <2>1. SUFFICES ASSUME NEW j \in 1..Len(ops), NEW n \in ops[j].ids PROVE n \in sent
    OBVIOUS
  <2>2. Expressed(n)
    BY <1>1, <1>5, <2>1 DEF WrapInv, ScriptHoldsInputs
  <2>. QED
    BY <2>2 DEF Expressed
<1>6. runErr = "none" => kept = sent
  BY <1>4, <1>5
<1>. QED
  BY <1>3, <1>4, <1>6 DEF ScriptWholeUnlessPartial

(* When Run returns the status of a child, the model was fed all the child  *)
(* wrote: the reader was at the end, and the loop had taken everything      *)
(* before it.                                                               *)
LEMMA AllIsFed ==
  ASSUME WrapInv, pc = "done", runErr = "none", ~stopping
  PROVE  fed = emitted
<1>1. reader = "gone" /\ \A i \in 1..Len(events) : events[i].k \in {"input", "resize"}
  BY DEF WrapInv, Phases, EndOrder
<1>2. held = <<>> /\ Queued = lastRead
  BY <1>1 DEF WrapInv, OutputOrder, Queued
<1>3. fed \in Nat /\ lastRead \in Nat /\ emitted \in Nat
  BY DEF WrapInv, Domains, KernelType, QueueType, OutcomeType
<1>4. fed <= lastRead
  BY <1>2 DEF WrapInv, OutputOrder
<1>5. ~(lastRead \in (fed + 1)..lastRead)
  BY <1>1, <1>2 DEF WrapInv, OutputOrder, IsOutput
<1>6. fed = lastRead
  BY <1>3, <1>4, <1>5
<1>7. outq = <<>>
  BY <1>1, <1>2 DEF WrapInv, EndHasReason
<1>8. lastRead + Len(outq) = emitted
  BY DEF WrapInv, OutputOrder
<1>. QED
  BY <1>3, <1>6, <1>7, <1>8

(* A trace recorded from the start has all the child wrote, and its exit.   *)
LEMMA WholeTracesAreComplete == WrapInv => WholeTraceComplete
<1>1. SUFFICES ASSUME WrapInv, pc = "done", opts.trace, runErr = "none", ~stopping, HasExit
               PROVE  WholeTraceComplete
  BY DEF WholeTraceComplete, HasExit
<1> DEFINE outputs == {j \in 1..Len(log) : log[j].k = "output"}
<1>2. fed = emitted
  BY <1>1, AllIsFed
<1>3. OutputsUpTo(emitted) /\ log[Len(log)].k = "exit"
  BY <1>1, <1>2 DEF WrapInv, TraceIsWhole
<1>4. Last(log).k = "exit"
  BY <1>3 DEF Last
<1>5. {log[j].n : j \in outputs} = 1..emitted
  <2>1. \A j \in outputs : log[j].n \in 1..emitted
    BY <1>3 DEF OutputsUpTo
  <2>2. \A m \in 1..emitted : \E j \in outputs : log[j].n = m
    BY <1>3 DEF OutputsUpTo
  <2>. QED
    BY <2>1, <2>2
<1>6. \A i, j \in outputs : i < j => log[i].n < log[j].n
  BY <1>3 DEF OutputsUpTo
<1>. QED
  BY <1>4, <1>5, <1>6 DEF WholeTraceComplete

(* The invariant holds of every behaviour, for any sessions and however     *)
(* small the PTY and the channel are.                                       *)
THEOREM WrapInvariant == Spec => []WrapInv
<1>. QED
  BY InitWrapInv, StepWrapInv, PTL DEF Spec

(* What twee wrap records is true: traceController and scriptController     *)
(* hold what writePTY sent and what the model was fed, in an order of       *)
(* causes, waits are earned, and a trace that was recorded from the start   *)
(* and saved is complete.                                                   *)
THEOREM WrapRecordsTruly == Spec => []RecordingsAreTrue
<1>1. WrapInv => RecordingsAreTrue
  BY WrapTypeOK, InputsAreKept, ScriptsAreWhole, WholeTracesAreComplete DEF
       RecordingsAreTrue, WrapInv
<1>. QED
  BY <1>1, WrapInvariant, PTL

(* Whatever the loop feeds to the model is on the user's screen or a        *)
(* redraw is due, and it is there before Run returns.                       *)
THEOREM ScreensCatchUp == Spec => []ScreenCatchesUp
<1>1. Init => ScreenCatchesUp
  BY DEF Init, ScreenCatchesUp
<1>2. WrapInv /\ ScreenCatchesUp /\ [Next]_vars => ScreenCatchesUp'
  BY ScreenStep DEF WrapInv
<1>. QED
  BY <1>1, <1>2, WrapInvariant, PTL DEF Spec
=============================================================================
