------------------------ MODULE SessionServerProofs ------------------------
(***************************************************************************)
(* SessionServer, for every set of clients and every plan of theirs: who   *)
(* is told that a session has ended can rely on it, and as long as Accept  *)
(* does not fail a session is stopped by its owner and by nobody else.     *)
(* Below it the process group of the child: it is signalled while its      *)
(* number is its own, and it is gone when the session is.                  *)
(***************************************************************************)
EXTENDS SessionServer, ProcessGroup, TLAPS

(* What a handler can answer, and what a client can report.                 *)
Codes == {"none", "ok", "IO_ERROR", "INVALID_ARGUMENT", "INTERNAL", "ASSERTION_FAILED",
          "TIMEOUT", "SESSION_ENDED", "FAILED_PRECONDITION"}
Domains == /\ reply \in [Clients -> Codes] /\ next \in [Clients -> Nat]
           /\ outcome \in [Clients -> Codes \cup {"NOT_FOUND", "already_gone", "tombstone"}]

(* Where a client can be, by its verb and its script.                       *)
Roles ==
  \A c \in Clients :
    /\ client[c] \in {"saving", "cleaning", "closing"} => plan.verb[c] = "run"
    /\ client[c] = "exiting" => plan.verb[c] = "stop"
    /\ plan.ops[c] = <<>> => client[c] \in {"ready", "over"} /\ sent[c] = "nothing"
    /\ plan.ops[c] # <<>> => next[c] <= Len(plan.ops[c])
    /\ outcome[c] = "ok" => client[c] \in {"over", "cleaning", "closing"}
    /\ ~plan.daemon /\ plan.verb[c] # "run"
         => client[c] = "over" /\ conn[c] = "none" /\ outcome[c] = "none"

(* A connection carries the request its client is at, and its answer, also  *)
(* while that is written.                                                   *)
Wires ==
  \A c \in Clients :
    /\ client[c] \in {"ready", "found", "exiting", "saving", "cleaning", "closing"} => conn[c] = "none"
    /\ conn[c] \notin {"writing", "answered"} => reply[c] = "none"
    /\ conn[c] \in {"running", "finalizing"} => sent[c] = "whole"

(* What a handler has done when it waits for the finalization, when it has  *)
(* said so, and when the client of a stop goes by that.                     *)
Ended(c) ==
  /\ Op(c) \in Stops \cup {"wait_exit"} => child = "exited" /\ Finalized /\ ~ArtifactError
  /\ Op(c) \in Stops => stopped
  /\ Op(c) # "stop_other"
Handlers ==
  \A c \in Clients :
    /\ conn[c] = "finalizing" => /\ Op(c) \in Stops \cup {"wait_exit"}
                                 /\ Op(c) \in Stops => stopped
    /\ conn[c] \in {"writing", "answered"} /\ reply[c] = "ok" => Ended(c)
    /\ client[c] = "exiting" => child = "exited" /\ stopped

(* The daemon closes its listener, and stops serving, because its child is  *)
(* gone or Accept has failed; unless it has, nobody is served from then on. *)
Endings ==
  /\ ~plan.daemon => server \in {"serving", "gone"}
  /\ server \in {"starting", "quick_exit", "gone"} => Drained
  /\ server \in {"closing", "burying"} => Drained \/ broken
  /\ server \in {"starting", "quick_exit"} => ~stopped /\ ~broken
  /\ server = "quick_exit" => child = "exited"
  /\ server = "burying" => Finalized
  /\ watcher # "waiting" => child = "exited"
  /\ watcher \in {"sleeping", "over"} => Finalized
  /\ listener = "closed" /\ plan.daemon => child = "exited"
  /\ server = "draining" => listener = "closed"
  /\ server \in {"closing", "burying"} => listener = "closed" \/ broken
  /\ server \in {"burying", "gone"} /\ plan.daemon /\ stopped /\ ~broken
       => tombstone = IF quiet THEN "none" ELSE "stopped"
  /\ \A c \in Clients : client[c] = "closing" => listener = "closed"

EndInv == /\ TypeOK /\ Domains /\ Roles /\ Wires /\ Handlers /\ Endings
          /\ SuccessIsDurable /\ DurableBeforeDeaf /\ RunLeavesNothing
          /\ StopIsTold /\ StopIsOwned

-----------------------------------------------------------------------------
LEMMA PlanFacts ==
  ASSUME plan \in Plans, NEW c \in Clients
  PROVE  /\ plan.verb[c] \in Verbs /\ plan.ops[c] \in Seq(Ops)
         /\ plan.verb[c] = "run" => ~plan.daemon /\ plan.ops[c] # <<>>
         /\ plan.verb[c] \notin {"do", "run"} => plan.ops[c] # <<>> /\ Len(plan.ops[c]) = 1
         /\ plan.verb[c] = "wait_exit" => Len(plan.ops[c]) = 1 /\ plan.ops[c][1] = "wait_exit"
         /\ plan.verb[c] = "stop" => Len(plan.ops[c]) = 1 /\ plan.ops[c][1] \in Stops \cup {"stop_other"}
         /\ \A d \in Clients : plan.verb[c] = "run" /\ plan.verb[d] = "run" => c = d
<1>1. PICK p \in Plans : p = plan
  OBVIOUS
<1>2. p \in Plan /\ c \in Clients
  BY PlansAssumption
<1>3. p.verb[c] \in Verbs /\ p.ops[c] \in Seq(Ops)
  BY <1>2 DEF Plan
<1>4. \A d \in Clients : p.verb[c] = "run" /\ p.verb[d] = "run" => c = d
  BY PlansAssumption
<1>5. p.verb[c] = "run" => ~p.daemon /\ p.ops[c] # <<>>
  BY PlansAssumption
<1>6. p.verb[c] \notin {"do", "run"} => Len(p.ops[c]) = 1 /\ p.ops[c] # <<>>
  <2>1. p.verb[c] \notin {"do", "run"} => Len(p.ops[c]) = 1
    BY PlansAssumption
  <2>2. \A s \in Seq(Ops) : Len(s) = 1 => s # <<>>
    OBVIOUS
  <2>3. QED
    BY <1>3, <2>1, <2>2, Zenon
<1>7. p.verb[c] = "wait_exit" => Len(p.ops[c]) = 1 /\ p.ops[c][1] = "wait_exit"
  BY PlansAssumption
<1>8. p.verb[c] = "stop" => Len(p.ops[c]) = 1 /\ p.ops[c][1] \in Stops \cup {"stop_other"}
  BY <1>6, PlansAssumption
<1>9. QED
  BY <1>1, <1>3, <1>4, <1>5, <1>6, <1>7, <1>8

(* A handler's answer, or the rest of one.                                  *)
Answering(c) ==
  /\ Open(c)
  /\ \E code \in Codes :
       /\ AnyAnswer(c, code) /\ (code = "ok" => conn[c] # "reading" /\ Ended(c))
  /\ UNCHANGED <<plan, engine, daemon, caller, sent>>

LEMMA Answers ==
  ASSUME EndInv, NEW c \in Clients,
         \/ ReadDeadline(c) \/ ReadEOF(c) \/ WriteRest(c)
         \/ Handle(c) /\ ~WaitForExit(c) /\ ~HandleStop(c)
  PROVE  Answering(c)
<1>. USE DEF Answering, AnyAnswer, LargeAnswer, Answer, Open, Codes
<1>1. CASE ReadDeadline(c)
  BY <1>1 DEF ReadDeadline
<1>2. CASE ReadEOF(c)
  <2>1. reply[c] = "none" /\ reply' = [reply EXCEPT ![c] = reply[c]]
    BY <1>2 DEF ReadEOF, EndInv, Wires, Domains
  <2>2. QED
    BY <1>2, <2>1 DEF ReadEOF
<1>3. CASE HandleMalformed(c)
  BY <1>3 DEF HandleMalformed, Runs
<1>4. CASE HandleQuery(c) \/ HandleCheck(c) \/ HandleInput(c) \/ HandleWait(c) \/ HandleSleep(c)
  <2>1. Op(c) \in {"query", "check", "input", "wait", "sleep"} /\ conn[c] = "running"
    BY <1>4 DEF HandleQuery, HandleCheck, HandleInput, HandleWait, HandleSleep, Runs
  <2>2. Ended(c)
    BY <2>1 DEF Ended, Stops
  <2>3. QED
    BY <1>4, <2>1, <2>2 DEF HandleQuery, HandleCheck, HandleInput, HandleWait, HandleSleep
<1>5. CASE WaitForExitTimesOut(c) \/ RefuseStop(c)
  BY <1>5 DEF WaitForExitTimesOut, RefuseStop, Runs
<1>6. CASE AnswerFinal(c)
  <2>1. conn[c] = "finalizing" /\ Finalized
    BY <1>6, Zenon DEF AnswerFinal
  <2>2. Op(c) \in Stops \cup {"wait_exit"} /\ (Op(c) \in Stops => stopped)
    BY <2>1 DEF EndInv, Handlers
  <2>3. child = "exited"
    BY <2>1 DEF EndInv, TypeOK
  <2>4. ~ArtifactError => Ended(c)
    BY <2>1, <2>2, <2>3 DEF Ended, Stops
  <2>5. QED
    BY <1>6, <2>1, <2>4 DEF AnswerFinal
<1>7. CASE WriteRest(c)
  <2>1. reply' = [reply EXCEPT ![c] = reply[c]] /\ (reply[c] = "ok" => Ended(c))
    BY <1>7 DEF WriteRest, EndInv, Handlers, Domains
  <2>2. conn[c] = "writing" /\ reply[c] \in Codes /\ conn' = [conn EXCEPT ![c] = "answered"]
    BY <1>7 DEF WriteRest, EndInv, Domains
  <2>3. UNCHANGED <<plan, engine, daemon, caller, sent>>
    BY <1>7 DEF WriteRest
  <2>4. QED
    BY <2>1, <2>2, <2>3
<1>8. QED
  BY <1>1, <1>2, <1>3, <1>4, <1>5, <1>6, <1>7 DEF Handle

-----------------------------------------------------------------------------
(* The child, and the finalization of the session.                         *)
LEMMA EngineStep ==
  ASSUME EndInv, ChildExits \/ ShowText \/ Drain \/ FinalizeEnds
  PROVE  EndInv'
<1>. USE DEF Finalized, engine, daemon, caller, wire
<1>1. CASE ChildExits
  <2>1. TypeOK'
    BY <1>1 DEF EndInv, TypeOK, Domains, Codes, ChildExits
  <2>2. Domains'
    BY <1>1 DEF EndInv, Domains, ChildExits
  <2>3. Roles'
    BY <1>1 DEF EndInv, Roles, ChildExits
  <2>4. Wires'
    BY <1>1 DEF EndInv, Wires, ChildExits
  <2>5. Handlers'
    BY <1>1 DEF EndInv, Handlers, Ended, Op, ChildExits
  <2>6. Endings'
    BY <1>1 DEF EndInv, Endings, Drained, Open, ChildExits
  <2>7. SuccessIsDurable'
    BY <1>1 DEF EndInv, SuccessIsDurable, Op, ChildExits
  <2>8. DurableBeforeDeaf' /\ RunLeavesNothing'
    BY <1>1 DEF EndInv, DurableBeforeDeaf, RunLeavesNothing, Endings, ChildExits
  <2>9. StopIsTold'
    BY <1>1 DEF EndInv, StopIsTold, Endings, Drained, Open, ChildExits
  <2>10. StopIsOwned'
    BY <1>1 DEF EndInv, StopIsOwned, Endings, ChildExits
  <2>11. QED
    BY <2>1, <2>2, <2>3, <2>4, <2>5, <2>6, <2>7, <2>8, <2>9, <2>10 DEF EndInv
<1>2. CASE ShowText
  <2>1. TypeOK'
    BY <1>2 DEF EndInv, TypeOK, ShowText
  <2>2. Domains'
    BY <1>2 DEF EndInv, Domains, ShowText
  <2>3. Roles'
    BY <1>2 DEF EndInv, Roles, ShowText
  <2>4. Wires'
    BY <1>2 DEF EndInv, Wires, ShowText
  <2>5. Handlers'
    BY <1>2 DEF EndInv, Handlers, Ended, Op, ShowText
  <2>6. Endings'
    BY <1>2 DEF EndInv, Endings, Drained, Open, ShowText
  <2>7. SuccessIsDurable'
    BY <1>2 DEF EndInv, SuccessIsDurable, Op, ShowText
  <2>8. DurableBeforeDeaf' /\ RunLeavesNothing'
    BY <1>2 DEF EndInv, DurableBeforeDeaf, RunLeavesNothing, Endings, ShowText
  <2>9. StopIsTold'
    BY <1>2 DEF EndInv, StopIsTold, Endings, Drained, Open, ShowText
  <2>10. StopIsOwned'
    BY <1>2 DEF EndInv, StopIsOwned, Endings, ShowText
  <2>11. QED
    BY <2>1, <2>2, <2>3, <2>4, <2>5, <2>6, <2>7, <2>8, <2>9, <2>10 DEF EndInv
<1>3. CASE Drain
  <2>1. TypeOK'
    BY <1>3 DEF EndInv, TypeOK, Drain
  <2>2. Domains'
    BY <1>3 DEF EndInv, Domains, Drain
  <2>3. Roles'
    BY <1>3 DEF EndInv, Roles, Drain
  <2>4. Wires'
    BY <1>3 DEF EndInv, Wires, Drain
  <2>5. Handlers'
    BY <1>3 DEF EndInv, Handlers, Ended, Op, Drain
  <2>6. Endings'
    BY <1>3 DEF EndInv, Endings, Drained, Open, Drain
  <2>7. SuccessIsDurable'
    BY <1>3 DEF EndInv, SuccessIsDurable, Op, Drain
  <2>8. DurableBeforeDeaf' /\ RunLeavesNothing'
    BY <1>3 DEF EndInv, DurableBeforeDeaf, RunLeavesNothing, Endings, Drain
  <2>9. StopIsTold'
    BY <1>3 DEF EndInv, StopIsTold, Endings, Drained, Open, Drain
  <2>10. StopIsOwned'
    BY <1>3 DEF EndInv, StopIsOwned, Endings, Drain
  <2>11. QED
    BY <2>1, <2>2, <2>3, <2>4, <2>5, <2>6, <2>7, <2>8, <2>9, <2>10 DEF EndInv
<1>4. CASE FinalizeEnds
  <2>1. TypeOK'
    BY <1>4 DEF EndInv, TypeOK, FinalizeEnds
  <2>2. Domains'
    BY <1>4 DEF EndInv, Domains, FinalizeEnds
  <2>3. Roles'
    BY <1>4 DEF EndInv, Roles, FinalizeEnds
  <2>4. Wires'
    BY <1>4 DEF EndInv, Wires, FinalizeEnds
  <2>5. Handlers'
    BY <1>4 DEF EndInv, Handlers, Ended, Op, Wires, FinalizeEnds
  <2>6. Endings'
    BY <1>4 DEF EndInv, Endings, Drained, Open, FinalizeEnds
  <2>7. SuccessIsDurable'
    BY <1>4 DEF EndInv, SuccessIsDurable, Op, FinalizeEnds
  <2>8. DurableBeforeDeaf' /\ RunLeavesNothing'
    BY <1>4 DEF EndInv, DurableBeforeDeaf, RunLeavesNothing, Endings, FinalizeEnds
  <2>9. StopIsTold'
    BY <1>4 DEF EndInv, StopIsTold, Endings, Drained, Open, FinalizeEnds
  <2>10. StopIsOwned'
    BY <1>4 DEF EndInv, StopIsOwned, Endings, FinalizeEnds
  <2>11. QED
    BY <2>1, <2>2, <2>3, <2>4, <2>5, <2>6, <2>7, <2>8, <2>9, <2>10 DEF EndInv
<1>5. QED
  BY <1>1, <1>2, <1>3, <1>4

(* The handlers.                                                            *)
LEMMA ServeStep ==
  ASSUME EndInv, NEW c \in Clients, Serve(c)
  PROVE  EndInv'
<1>. USE DEF Finalized, engine, daemon, caller, wire
<1>1. CASE Answering(c)
  <2>1. PICK w \in {"writing", "answered"}, code \in Codes :
          /\ conn' = [conn EXCEPT ![c] = w] /\ reply' = [reply EXCEPT ![c] = code]
          /\ code = "ok" => Ended(c)
    BY <1>1 DEF Answering, AnyAnswer, LargeAnswer, Answer
  <2>2. Open(c) /\ UNCHANGED <<plan, engine, daemon, caller, sent>>
    BY <1>1 DEF Answering
  <2>3. /\ conn \in [Clients -> {"none", "queued", "reading", "running", "finalizing",
                                "writing", "answered", "reset"}]
        /\ reply \in [Clients -> Codes]
    BY DEF EndInv, TypeOK, Domains
  <2>4. TypeOK'
    BY <2>1, <2>2 DEF EndInv, TypeOK
  <2>5. Domains'
    BY <2>1, <2>2 DEF EndInv, Domains
  <2>6. Roles'
    BY <2>1, <2>2, <2>3 DEF EndInv, Roles, Open
  <2>7. Wires'
    BY <2>1, <2>2, <2>3 DEF EndInv, Wires, Open
  <2>8. Handlers'
    BY <2>1, <2>2, <2>3 DEF EndInv, Handlers, Ended, Op, ArtifactError
  <2>9. Endings'
    BY <2>1, <2>2, <2>3 DEF EndInv, Endings, Drained, Open
  <2>10. SuccessIsDurable'
    BY <2>1, <2>2, <2>3 DEF EndInv, SuccessIsDurable, Handlers, Ended, Op, ArtifactError
  <2>11. DurableBeforeDeaf' /\ RunLeavesNothing'
    BY <2>1, <2>2 DEF EndInv, DurableBeforeDeaf, RunLeavesNothing, Endings
  <2>12. StopIsTold'
    BY <2>1, <2>2, <2>3 DEF EndInv, StopIsTold, Endings, Drained, Open
  <2>13. StopIsOwned'
    BY <2>1, <2>2 DEF EndInv, StopIsOwned, Endings
  <2>14. QED
    BY <2>4, <2>5, <2>6, <2>7, <2>8, <2>9, <2>10, <2>11, <2>12, <2>13 DEF EndInv
<1>2. CASE Accept(c)
  <2>1. TypeOK'
    BY <1>2 DEF EndInv, TypeOK, Accept
  <2>2. Domains'
    BY <1>2 DEF EndInv, Domains, Accept
  <2>3. Roles'
    BY <1>2 DEF EndInv, Roles, Accept
  <2>4. Wires'
    BY <1>2 DEF EndInv, Wires, Accept
  <2>5. Handlers'
    BY <1>2 DEF EndInv, Handlers, Ended, Op, ArtifactError, Accept
  <2>6. Endings'
    BY <1>2 DEF EndInv, Endings, Accept
  <2>7. SuccessIsDurable'
    BY <1>2 DEF EndInv, SuccessIsDurable, Op, ArtifactError, Accept
  <2>8. DurableBeforeDeaf' /\ RunLeavesNothing'
    BY <1>2 DEF EndInv, DurableBeforeDeaf, RunLeavesNothing, Endings, Accept
  <2>9. StopIsTold'
    BY <1>2 DEF EndInv, StopIsTold, Endings, Accept
  <2>10. StopIsOwned'
    BY <1>2 DEF EndInv, StopIsOwned, Endings, Accept
  <2>11. QED
    BY <2>1, <2>2, <2>3, <2>4, <2>5, <2>6, <2>7, <2>8, <2>9, <2>10 DEF EndInv
<1>3. CASE ReadRequest(c)
  <2>1. TypeOK'
    BY <1>3 DEF EndInv, TypeOK, ReadRequest
  <2>2. Domains'
    BY <1>3 DEF EndInv, Domains, ReadRequest
  <2>3. Roles'
    BY <1>3 DEF EndInv, Roles, ReadRequest
  <2>4. Wires'
    BY <1>3 DEF EndInv, Wires, ReadRequest
  <2>5. Handlers'
    BY <1>3 DEF EndInv, Handlers, Ended, Op, ArtifactError, ReadRequest
  <2>6. Endings'
    BY <1>3 DEF EndInv, Endings, Drained, Open, ReadRequest
  <2>7. SuccessIsDurable'
    BY <1>3 DEF EndInv, SuccessIsDurable, Op, ArtifactError, ReadRequest
  <2>8. DurableBeforeDeaf' /\ RunLeavesNothing'
    BY <1>3 DEF EndInv, DurableBeforeDeaf, RunLeavesNothing, Endings, ReadRequest
  <2>9. StopIsTold'
    BY <1>3 DEF EndInv, StopIsTold, Endings, Drained, Open, ReadRequest
  <2>10. StopIsOwned'
    BY <1>3 DEF EndInv, StopIsOwned, Endings, ReadRequest
  <2>11. QED
    BY <2>1, <2>2, <2>3, <2>4, <2>5, <2>6, <2>7, <2>8, <2>9, <2>10 DEF EndInv
<1>4. CASE WaitForExit(c)
  <2>1. TypeOK'
    BY <1>4 DEF EndInv, TypeOK, WaitForExit, Runs, BeginFinalize
  <2>2. Domains'
    BY <1>4 DEF EndInv, Domains, WaitForExit, Runs
  <2>3. Roles'
    BY <1>4 DEF EndInv, Roles, WaitForExit, Runs
  <2>4. Wires'
    BY <1>4 DEF EndInv, Wires, WaitForExit, Runs
  <2>5. Handlers'
    BY <1>4 DEF EndInv, Handlers, Ended, Op, ArtifactError, Stops, WaitForExit, Runs,
         BeginFinalize
  <2>6. Endings'
    BY <1>4 DEF EndInv, Endings, Drained, Open, WaitForExit, Runs, BeginFinalize
  <2>7. SuccessIsDurable'
    BY <1>4 DEF EndInv, SuccessIsDurable, Op, ArtifactError, WaitForExit, Runs,
         BeginFinalize
  <2>8. DurableBeforeDeaf' /\ RunLeavesNothing'
    BY <1>4 DEF EndInv, DurableBeforeDeaf, RunLeavesNothing, Endings, WaitForExit, Runs,
         BeginFinalize
  <2>9. StopIsTold'
    BY <1>4 DEF EndInv, StopIsTold, Endings, Drained, Open, WaitForExit, Runs
  <2>10. StopIsOwned'
    BY <1>4 DEF EndInv, StopIsOwned, Endings, WaitForExit, Runs
  <2>11. QED
    BY <2>1, <2>2, <2>3, <2>4, <2>5, <2>6, <2>7, <2>8, <2>9, <2>10 DEF EndInv
<1>5. CASE HandleStop(c)
  <2>1. TypeOK'
    BY <1>5 DEF EndInv, TypeOK, HandleStop, OwnersStop, Runs, BeginFinalize
  <2>2. Domains'
    BY <1>5 DEF EndInv, Domains, HandleStop, OwnersStop, Runs
  <2>3. Roles'
    BY <1>5 DEF EndInv, Roles, HandleStop, OwnersStop, Runs
  <2>4. Wires'
    BY <1>5 DEF EndInv, Wires, HandleStop, OwnersStop, Runs
  <2>5. Handlers'
    BY <1>5 DEF EndInv, Handlers, Ended, Op, ArtifactError, HandleStop, OwnersStop, Runs,
         BeginFinalize
  <2>6. Endings'
    BY <1>5 DEF EndInv, Endings, Drained, Open, HandleStop, OwnersStop, Runs, BeginFinalize
  <2>7. SuccessIsDurable'
    BY <1>5 DEF EndInv, SuccessIsDurable, Op, ArtifactError, HandleStop, OwnersStop, Runs,
         BeginFinalize
  <2>8. DurableBeforeDeaf' /\ RunLeavesNothing'
    BY <1>5 DEF EndInv, DurableBeforeDeaf, RunLeavesNothing, Endings, HandleStop,
         OwnersStop, Runs, BeginFinalize
  <2>9. StopIsTold'
    BY <1>5 DEF EndInv, StopIsTold, Endings, Drained, Open, HandleStop, OwnersStop, Runs
  <2>10. StopIsOwned'
    BY <1>5 DEF EndInv, StopIsOwned, Endings, Roles, Wires, TypeOK, Op, HandleStop,
         OwnersStop, Runs
  <2>11. QED
    BY <2>1, <2>2, <2>3, <2>4, <2>5, <2>6, <2>7, <2>8, <2>9, <2>10 DEF EndInv
<1>6. QED
  BY <1>1, <1>2, <1>3, <1>4, <1>5, Answers DEF Serve, Handle

(* The end of the daemon.                                                   *)
LEMMA TeardownStep ==
  ASSUME EndInv, Teardown \/ AcceptBreaks
  PROVE  EndInv'
<1>. USE DEF Finalized, engine, daemon, caller, wire
<1>1. CASE Ready
  <2>1. TypeOK'
    BY <1>1 DEF EndInv, TypeOK, Ready
  <2>2. Domains'
    BY <1>1 DEF EndInv, Domains, Ready
  <2>3. Roles'
    BY <1>1 DEF EndInv, Roles, Ready
  <2>4. Wires'
    BY <1>1 DEF EndInv, Wires, Ready
  <2>5. Handlers'
    BY <1>1 DEF EndInv, Handlers, Ended, Op, ArtifactError, Ready
  <2>6. Endings'
    BY <1>1 DEF EndInv, Endings, Ready
  <2>7. SuccessIsDurable'
    BY <1>1 DEF EndInv, SuccessIsDurable, Op, ArtifactError, Ready
  <2>8. DurableBeforeDeaf' /\ RunLeavesNothing'
    BY <1>1 DEF EndInv, DurableBeforeDeaf, RunLeavesNothing, Endings, Ready
  <2>9. StopIsTold'
    BY <1>1 DEF EndInv, StopIsTold, Endings, Ready
  <2>10. StopIsOwned'
    BY <1>1 DEF EndInv, StopIsOwned, Endings, Ready
  <2>11. QED
    BY <2>1, <2>2, <2>3, <2>4, <2>5, <2>6, <2>7, <2>8, <2>9, <2>10 DEF EndInv
<1>2. CASE BeginQuickExit
  <2>1. TypeOK'
    BY <1>2 DEF EndInv, TypeOK, BeginQuickExit, BeginFinalize
  <2>2. Domains'
    BY <1>2 DEF EndInv, Domains, BeginQuickExit
  <2>3. Roles'
    BY <1>2 DEF EndInv, Roles, BeginQuickExit
  <2>4. Wires'
    BY <1>2 DEF EndInv, Wires, BeginQuickExit
  <2>5. Handlers'
    BY <1>2 DEF EndInv, Handlers, Ended, Op, ArtifactError, BeginQuickExit, BeginFinalize
  <2>6. Endings'
    BY <1>2 DEF EndInv, Endings, Drained, Open, BeginQuickExit, BeginFinalize
  <2>7. SuccessIsDurable'
    BY <1>2 DEF EndInv, SuccessIsDurable, Op, ArtifactError, BeginQuickExit, BeginFinalize
  <2>8. DurableBeforeDeaf' /\ RunLeavesNothing'
    BY <1>2 DEF EndInv, DurableBeforeDeaf, RunLeavesNothing, Endings, BeginQuickExit,
         BeginFinalize
  <2>9. StopIsTold'
    BY <1>2 DEF EndInv, StopIsTold, Endings, BeginQuickExit
  <2>10. StopIsOwned'
    BY <1>2 DEF EndInv, StopIsOwned, Endings, BeginQuickExit
  <2>11. QED
    BY <2>1, <2>2, <2>3, <2>4, <2>5, <2>6, <2>7, <2>8, <2>9, <2>10 DEF EndInv
<1>3. CASE QuickExit
  <2>1. TypeOK'
    BY <1>3 DEF EndInv, TypeOK, QuickExit, CloseListener
  <2>2. Domains'
    BY <1>3 DEF EndInv, Domains, QuickExit, CloseListener
  <2>3. Roles'
    BY <1>3 DEF EndInv, Roles, QuickExit, CloseListener
  <2>4. Wires'
    BY <1>3 DEF EndInv, Wires, QuickExit, CloseListener
  <2>5. Handlers'
    BY <1>3 DEF EndInv, Handlers, Ended, Op, Roles, ArtifactError, QuickExit, CloseListener
  <2>6. Endings'
    BY <1>3 DEF EndInv, Endings, Drained, Open, QuickExit, CloseListener
  <2>7. SuccessIsDurable'
    BY <1>3 DEF EndInv, SuccessIsDurable, Op, Roles, ArtifactError, QuickExit, CloseListener
  <2>8. DurableBeforeDeaf' /\ RunLeavesNothing'
    BY <1>3 DEF EndInv, DurableBeforeDeaf, RunLeavesNothing, Endings, QuickExit,
         CloseListener
  <2>9. StopIsTold'
    BY <1>3 DEF EndInv, StopIsTold, Endings, Drained, Open, QuickExit, CloseListener
  <2>10. StopIsOwned'
    BY <1>3 DEF EndInv, StopIsOwned, Endings, QuickExit, CloseListener
  <2>11. QED
    BY <2>1, <2>2, <2>3, <2>4, <2>5, <2>6, <2>7, <2>8, <2>9, <2>10 DEF EndInv
<1>4. CASE WatchExit
  <2>1. TypeOK'
    BY <1>4 DEF EndInv, TypeOK, WatchExit, AfterExit, BeginFinalize
  <2>2. Domains'
    BY <1>4 DEF EndInv, Domains, WatchExit, AfterExit
  <2>3. Roles'
    BY <1>4 DEF EndInv, Roles, WatchExit, AfterExit
  <2>4. Wires'
    BY <1>4 DEF EndInv, Wires, WatchExit, AfterExit
  <2>5. Handlers'
    BY <1>4 DEF EndInv, Handlers, Ended, Op, ArtifactError, WatchExit, AfterExit,
         BeginFinalize
  <2>6. Endings'
    BY <1>4 DEF EndInv, Endings, Drained, Open, WatchExit, AfterExit,
         BeginFinalize
  <2>7. SuccessIsDurable'
    BY <1>4 DEF EndInv, SuccessIsDurable, Op, ArtifactError, WatchExit, AfterExit,
         BeginFinalize
  <2>8. DurableBeforeDeaf' /\ RunLeavesNothing'
    BY <1>4 DEF EndInv, DurableBeforeDeaf, RunLeavesNothing, Endings, WatchExit, AfterExit,
         BeginFinalize
  <2>9. StopIsTold'
    BY <1>4 DEF EndInv, StopIsTold, Endings, Drained, Open, WatchExit, AfterExit
  <2>10. StopIsOwned'
    BY <1>4 DEF EndInv, StopIsOwned, Endings, WatchExit, AfterExit
  <2>11. QED
    BY <2>1, <2>2, <2>3, <2>4, <2>5, <2>6, <2>7, <2>8, <2>9, <2>10 DEF EndInv
<1>5. CASE WatchFinal
  <2>1. TypeOK'
    BY <1>5 DEF EndInv, TypeOK, WatchFinal
  <2>2. Domains'
    BY <1>5 DEF EndInv, Domains, WatchFinal
  <2>3. Roles'
    BY <1>5 DEF EndInv, Roles, WatchFinal
  <2>4. Wires'
    BY <1>5 DEF EndInv, Wires, WatchFinal
  <2>5. Handlers'
    BY <1>5 DEF EndInv, Handlers, Ended, Op, Roles, ArtifactError, WatchFinal
  <2>6. Endings'
    BY <1>5 DEF EndInv, Endings, Drained, Open, WatchFinal
  <2>7. SuccessIsDurable'
    BY <1>5 DEF EndInv, SuccessIsDurable, Op, ArtifactError, WatchFinal
  <2>8. DurableBeforeDeaf' /\ RunLeavesNothing'
    BY <1>5 DEF EndInv, DurableBeforeDeaf, RunLeavesNothing, Endings, WatchFinal
  <2>9. StopIsTold'
    BY <1>5 DEF EndInv, StopIsTold, Endings, Drained, Open, WatchFinal
  <2>10. StopIsOwned'
    BY <1>5 DEF EndInv, StopIsOwned, Endings, WatchFinal
  <2>11. QED
    BY <2>1, <2>2, <2>3, <2>4, <2>5, <2>6, <2>7, <2>8, <2>9, <2>10 DEF EndInv
<1>6. CASE Stop
  <2>1. TypeOK'
    BY <1>6 DEF EndInv, TypeOK, Stop, CloseListener
  <2>2. Domains'
    BY <1>6 DEF EndInv, Domains, Stop, CloseListener
  <2>3. Roles'
    BY <1>6 DEF EndInv, Roles, Stop, CloseListener
  <2>4. Wires'
    BY <1>6 DEF EndInv, Wires, Stop, CloseListener
  <2>5. Handlers'
    BY <1>6 DEF EndInv, Handlers, Ended, Op, Roles, ArtifactError, Stop, CloseListener
  <2>6. Endings'
    BY <1>6 DEF EndInv, Endings, Drained, Open, Stop, CloseListener
  <2>7. SuccessIsDurable'
    BY <1>6 DEF EndInv, SuccessIsDurable, Op, ArtifactError, Stop, CloseListener
  <2>8. DurableBeforeDeaf' /\ RunLeavesNothing'
    BY <1>6 DEF EndInv, DurableBeforeDeaf, RunLeavesNothing, Endings, Stop, CloseListener
  <2>9. StopIsTold'
    BY <1>6 DEF EndInv, StopIsTold, Endings, Drained, Open, Stop, CloseListener
  <2>10. StopIsOwned'
    BY <1>6 DEF EndInv, StopIsOwned, Endings, Stop, CloseListener
  <2>11. QED
    BY <2>1, <2>2, <2>3, <2>4, <2>5, <2>6, <2>7, <2>8, <2>9, <2>10 DEF EndInv
<1>7. CASE AcceptFails
  <2>1. TypeOK'
    BY <1>7 DEF EndInv, TypeOK, AcceptFails
  <2>2. Domains'
    BY <1>7 DEF EndInv, Domains, AcceptFails
  <2>3. Roles'
    BY <1>7 DEF EndInv, Roles, AcceptFails
  <2>4. Wires'
    BY <1>7 DEF EndInv, Wires, AcceptFails
  <2>5. Handlers'
    BY <1>7 DEF EndInv, Handlers, Ended, Op, Roles, ArtifactError, AcceptFails
  <2>6. Endings'
    BY <1>7 DEF EndInv, Endings, AcceptFails
  <2>7. SuccessIsDurable'
    BY <1>7 DEF EndInv, SuccessIsDurable, Op, ArtifactError, AcceptFails
  <2>8. DurableBeforeDeaf' /\ RunLeavesNothing'
    BY <1>7 DEF EndInv, DurableBeforeDeaf, RunLeavesNothing, Endings, AcceptFails
  <2>9. StopIsTold'
    BY <1>7 DEF EndInv, StopIsTold, Endings, AcceptFails
  <2>10. StopIsOwned'
    BY <1>7 DEF EndInv, StopIsOwned, Endings, AcceptFails
  <2>11. QED
    BY <2>1, <2>2, <2>3, <2>4, <2>5, <2>6, <2>7, <2>8, <2>9, <2>10 DEF EndInv
<1>8. CASE ServeReturns
  <2>1. TypeOK'
    BY <1>8 DEF EndInv, TypeOK, ServeReturns, BeginFinalize
  <2>2. Domains'
    BY <1>8 DEF EndInv, Domains, ServeReturns
  <2>3. Roles'
    BY <1>8 DEF EndInv, Roles, ServeReturns
  <2>4. Wires'
    BY <1>8 DEF EndInv, Wires, ServeReturns
  <2>5. Handlers'
    BY <1>8 DEF EndInv, Handlers, Ended, Op, ArtifactError, ServeReturns, BeginFinalize
  <2>6. Endings'
    BY <1>8 DEF EndInv, Endings, Drained, Open, ServeReturns, BeginFinalize
  <2>7. SuccessIsDurable'
    BY <1>8 DEF EndInv, SuccessIsDurable, Op, ArtifactError, ServeReturns, BeginFinalize
  <2>8. DurableBeforeDeaf' /\ RunLeavesNothing'
    BY <1>8 DEF EndInv, DurableBeforeDeaf, RunLeavesNothing, Endings, ServeReturns,
         BeginFinalize
  <2>9. StopIsTold'
    BY <1>8 DEF EndInv, StopIsTold, Endings, ServeReturns
  <2>10. StopIsOwned'
    BY <1>8 DEF EndInv, StopIsOwned, Endings, ServeReturns
  <2>11. QED
    BY <2>1, <2>2, <2>3, <2>4, <2>5, <2>6, <2>7, <2>8, <2>9, <2>10 DEF EndInv
<1>9. CASE WriteTombstone
  <2>1. TypeOK'
    BY <1>9 DEF EndInv, TypeOK, WriteTombstone
  <2>2. Domains'
    BY <1>9 DEF EndInv, Domains, WriteTombstone
  <2>3. Roles'
    BY <1>9 DEF EndInv, Roles, WriteTombstone
  <2>4. Wires'
    BY <1>9 DEF EndInv, Wires, WriteTombstone
  <2>5. Handlers'
    BY <1>9 DEF EndInv, Handlers, Ended, Op, ArtifactError, WriteTombstone
  <2>6. Endings'
    BY <1>9 DEF EndInv, Endings, Drained, Open, WriteTombstone
  <2>7. SuccessIsDurable'
    BY <1>9 DEF EndInv, SuccessIsDurable, Op, ArtifactError, WriteTombstone
  <2>8. DurableBeforeDeaf' /\ RunLeavesNothing'
    BY <1>9 DEF EndInv, DurableBeforeDeaf, RunLeavesNothing, Endings, WriteTombstone
  <2>9. StopIsTold'
    BY <1>9 DEF EndInv, StopIsTold, Endings, Drained, Open, WriteTombstone
  <2>10. StopIsOwned'
    BY <1>9 DEF EndInv, StopIsOwned, Endings, WriteTombstone
  <2>11. QED
    BY <2>1, <2>2, <2>3, <2>4, <2>5, <2>6, <2>7, <2>8, <2>9, <2>10 DEF EndInv
<1>10. CASE Exit
  <2>1. /\ server = "burying" /\ server' = "gone" /\ listener' = "closed"
        /\ UNCHANGED <<plan, engine, broken, watcher, tombstone, caller, sent>>
    BY <1>10 DEF Exit
  <2>2. \A d \in Clients :
          \/ conn'[d] = "reset" /\ reply'[d] = "none"
          \/ /\ conn[d] # "queued" /\ ~Open(d)
             /\ conn'[d] = conn[d] /\ reply'[d] = reply[d]
    BY <1>10 DEF Exit
  <2>3. /\ conn' \in [Clients -> {"none", "queued", "reading", "running", "finalizing",
                                 "writing", "answered", "reset"}]
        /\ reply' \in [Clients -> Codes]
    BY <1>10 DEF Exit, EndInv, TypeOK, Domains, Codes
  <2>4. \A d \in Clients : conn[d] = "none" => conn'[d] = "none"
    BY <1>10 DEF Exit, Open
  <2>5. TypeOK'
    BY <2>1, <2>3 DEF EndInv, TypeOK
  <2>6. Domains'
    BY <2>1, <2>3 DEF EndInv, Domains
  <2>7. Drained'
    BY <2>2 DEF Drained, Open
  <2>8. plan.daemon /\ Finalized /\ child = "exited"
    BY <2>1 DEF EndInv, Endings, TypeOK
  <2>9. Roles'
    BY <2>1, <2>8 DEF EndInv, Roles
  <2>10. Wires'
    BY <2>1, <2>2, <2>4 DEF EndInv, Wires
  <2>11. Handlers'
    BY <2>1, <2>2 DEF EndInv, Handlers, Ended, Op, ArtifactError
  <2>12. Endings'
    BY <2>1, <2>7, <2>8 DEF EndInv, Endings
  <2>13. SuccessIsDurable'
    BY <2>1, <2>2 DEF EndInv, SuccessIsDurable, Op, ArtifactError
  <2>14. DurableBeforeDeaf' /\ RunLeavesNothing'
    BY <2>1, <2>8 DEF EndInv, DurableBeforeDeaf, RunLeavesNothing
  <2>15. StopIsTold'
    BY <2>1, <2>7, <2>8 DEF EndInv, StopIsTold, Endings
  <2>16. StopIsOwned'
    BY <2>1 DEF EndInv, StopIsOwned
  <2>17. QED
    BY <2>5, <2>6, <2>9, <2>10, <2>11, <2>12, <2>13, <2>14, <2>15, <2>16 DEF EndInv
<1>11. CASE AcceptBreaks
  <2>1. TypeOK'
    BY <1>11 DEF EndInv, TypeOK, AcceptBreaks, BeginFinalize
  <2>2. Domains'
    BY <1>11 DEF EndInv, Domains, AcceptBreaks, BeginFinalize
  <2>3. Roles'
    BY <1>11 DEF EndInv, Roles, AcceptBreaks, BeginFinalize
  <2>4. Wires'
    BY <1>11 DEF EndInv, Wires, AcceptBreaks, BeginFinalize
  <2>5. Handlers'
    BY <1>11 DEF EndInv, Handlers, Ended, Op, ArtifactError, AcceptBreaks, BeginFinalize
  <2>6. Endings'
    BY <1>11 DEF EndInv, Endings, Drained, Open, AcceptBreaks, BeginFinalize
  <2>7. SuccessIsDurable'
    BY <1>11 DEF EndInv, SuccessIsDurable, Op, ArtifactError, AcceptBreaks, BeginFinalize
  <2>8. DurableBeforeDeaf' /\ RunLeavesNothing'
    BY <1>11 DEF EndInv, DurableBeforeDeaf, RunLeavesNothing, Endings, AcceptBreaks, BeginFinalize
  <2>9. StopIsTold'
    BY <1>11 DEF EndInv, StopIsTold, Endings, Drained, Open, AcceptBreaks, BeginFinalize
  <2>10. StopIsOwned'
    BY <1>11 DEF EndInv, StopIsOwned, Endings, AcceptBreaks, BeginFinalize
  <2>11. QED
    BY <2>1, <2>2, <2>3, <2>4, <2>5, <2>6, <2>7, <2>8, <2>9, <2>10 DEF EndInv
<1>12. QED
  BY <1>1, <1>2, <1>3, <1>4, <1>5, <1>6, <1>7, <1>8, <1>9, <1>10, <1>11 DEF Teardown

(* A call that failed, and how far the client of another one has come.      *)
Failing(c) ==
  /\ client[c] \in {"ready", "found", "calling"}
  /\ \E code \in (Codes \cup {"NOT_FOUND", "already_gone", "tombstone"}) \ {"ok"} :
       outcome' = [outcome EXCEPT ![c] = code]
  /\ \/ /\ plan.verb[c] = "run" /\ client' = [client EXCEPT ![c] = "cleaning"]
        /\ UNCHANGED final \/ BeginFinalize
     \/ /\ plan.verb[c] # "run" /\ client' = [client EXCEPT ![c] = "over"]
        /\ UNCHANGED final
  /\ conn' = [conn EXCEPT ![c] = "none"] /\ reply' = [reply EXCEPT ![c] = "none"]
  /\ UNCHANGED <<plan, child, text, stopped, quiet, daemon, next, lockPid, sent>>
Looking(c) ==
  /\ client[c] = "ready" /\ Looks(c) /\ client' = [client EXCEPT ![c] = "found"]
  /\ UNCHANGED <<plan, engine, daemon, next, outcome, lockPid, wire>>
Dialled(c) ==
  /\ client[c] \in {"ready", "found"} /\ listener = "open"
  /\ conn' = [conn EXCEPT ![c] = "queued"] /\ sent' = [sent EXCEPT ![c] = "nothing"]
  /\ UNCHANGED <<plan, engine, daemon, next, lockPid, reply>>
Calling(c) ==
  /\ Dialled(c) /\ plan.ops[c] # <<>> /\ client' = [client EXCEPT ![c] = "calling"]
  /\ UNCHANGED outcome
Knocking(c) ==
  /\ Dialled(c) /\ plan.ops[c] = <<>> /\ client' = [client EXCEPT ![c] = "over"]
  /\ outcome' = [outcome EXCEPT ![c] = "ok"]
Received(c) ==
  /\ client[c] = "calling" /\ conn[c] = "answered" /\ reply[c] = "ok"
  /\ conn' = [conn EXCEPT ![c] = "none"] /\ reply' = [reply EXCEPT ![c] = "none"]
  /\ UNCHANGED <<plan, child, text, stopped, quiet, daemon, lockPid, sent>>
GoesOn(c) ==
  /\ Received(c) /\ next[c] < Len(plan.ops[c])
  /\ next' = [next EXCEPT ![c] = @ + 1] /\ client' = [client EXCEPT ![c] = "ready"]
  /\ UNCHANGED <<outcome, final>>
HasStopped(c) ==
  /\ Received(c) /\ plan.verb[c] = "stop" /\ client' = [client EXCEPT ![c] = "exiting"]
  /\ UNCHANGED <<next, outcome, final>>
HasRun(c) ==
  /\ Received(c) /\ plan.verb[c] = "run" /\ client' = [client EXCEPT ![c] = "saving"]
  /\ final' = final \/ BeginFinalize
  /\ UNCHANGED <<next, outcome>>
IsOver(c) ==
  /\ Received(c) /\ plan.verb[c] \notin {"stop", "run"} /\ next[c] >= Len(plan.ops[c])
  /\ client' = [client EXCEPT ![c] = "over"] /\ outcome' = [outcome EXCEPT ![c] = "ok"]
  /\ UNCHANGED <<next, final>>

LEMMA Calls ==
  ASSUME EndInv, NEW c \in Clients, Call(c), ~Send(c), ~ReadPid(c)
  PROVE  \/ Failing(c) \/ Looking(c) \/ Calling(c) \/ Knocking(c)
         \/ GoesOn(c) \/ HasStopped(c) \/ HasRun(c) \/ IsOver(c)
<1>. USE DEF engine, daemon, caller, wire
<1>1. client[c] \in {"ready", "found"} => conn[c] = "none" /\ reply[c] = "none"
  BY DEF EndInv, Wires
<1>2. /\ conn \in [Clients -> {"none", "queued", "reading", "running", "finalizing", "writing", "answered", "reset"}]
      /\ reply \in [Clients -> Codes]
  BY DEF EndInv, TypeOK, Domains
<1>3. ASSUME client[c] \in {"ready", "found"}
      PROVE  conn = [conn EXCEPT ![c] = "none"] /\ reply = [reply EXCEPT ![c] = "none"]
  BY <1>1, <1>2, <1>3
<1>4. ASSUME NEW code \in (Codes \cup {"NOT_FOUND", "already_gone", "tombstone"}) \ {"ok"}, Fail(c, code),
             client[c] \in {"ready", "found", "calling"},
             conn' = [conn EXCEPT ![c] = "none"], reply' = [reply EXCEPT ![c] = "none"],
             UNCHANGED <<plan, child, text, stopped, quiet, daemon, next, lockPid, sent>>
      PROVE  Failing(c)
  BY <1>4 DEF Failing, Fail
<1>5. CASE Look(c)
  <2>1. plan.verb[c] # "run" /\ client[c] = "ready"
    BY <1>5 DEF Look, Looks
  <2>2. CASE Reachable
    BY <1>5, <2>2 DEF Look, Looking
  <2>3. CASE ~Reachable
    <3>1. client' = [client EXCEPT ![c] = "over"] /\ UNCHANGED <<plan, engine, daemon, next, lockPid, wire>>
      BY <1>5, <2>3 DEF Look
    <3>2. \E code \in {"NOT_FOUND", "already_gone", "tombstone"} : outcome' = [outcome EXCEPT ![c] = code]
      BY <1>5, <2>3 DEF Look
    <3>3. QED
      BY <1>3, <2>1, <3>1, <3>2 DEF Failing
  <2>4. QED
    BY <2>2, <2>3
<1>6. CASE Dial(c)
  <2>1. client[c] \in {"ready", "found"}
    BY <1>6 DEF Dial
  <2>2. CASE ~Reachable
    <3>1. PICK code \in {"NOT_FOUND", "already_gone"} : Fail(c, code)
      BY <1>6, <2>2 DEF Dial
    <3>2. UNCHANGED <<plan, child, text, stopped, quiet, daemon, next, lockPid, reply, conn, sent>>
      BY <1>6, <2>2 DEF Dial
    <3>3. QED
      BY <1>3, <1>4, <2>1, <3>1, <3>2
  <2>3. CASE Reachable
    BY <1>6, <2>1, <2>3 DEF Dial, Reachable, Calling, Knocking, Dialled
  <2>4. QED
    BY <2>2, <2>3
<1>7. CASE Receive(c)
  <2>1. CASE reply[c] # "ok"
    <3>1. Fail(c, reply[c]) /\ UNCHANGED next
      BY <1>7, <2>1 DEF Receive, Advance
    <3>2. reply[c] \in Codes
      BY <1>2
    <3>3. QED
      BY <1>4, <1>7, <2>1, <3>1, <3>2 DEF Receive
  <2>2. CASE reply[c] = "ok"
    <3>1. Received(c)
      BY <1>7, <2>2 DEF Receive, Received
    <3>2. next[c] \in Nat /\ Len(plan.ops[c]) \in Nat
      BY DEF EndInv, Domains
    <3>3. CASE next[c] < Len(plan.ops[c])
      BY <1>7, <2>2, <3>1, <3>3 DEF Receive, Advance, GoesOn
    <3>4. CASE ~(next[c] < Len(plan.ops[c])) /\ plan.verb[c] = "stop"
      BY <1>7, <2>2, <3>1, <3>4 DEF Receive, Advance, HasStopped
    <3>5. CASE ~(next[c] < Len(plan.ops[c])) /\ plan.verb[c] = "run"
      BY <1>7, <2>2, <3>1, <3>5 DEF Receive, Advance, HasRun
    <3>6. CASE ~(next[c] < Len(plan.ops[c])) /\ plan.verb[c] \notin {"stop", "run"}
      BY <1>7, <2>2, <3>1, <3>2, <3>6 DEF Receive, Advance, IsOver
    <3>7. QED
      BY <3>3, <3>4, <3>5, <3>6
  <2>3. QED
    BY <2>1, <2>2
<1>8. CASE ReceiveReset(c)
  <2>1. reply = [reply EXCEPT ![c] = "none"]
    BY <1>2, <1>8 DEF ReceiveReset, EndInv, Wires
  <2>2. QED
    BY <1>4, <1>8, <2>1 DEF ReceiveReset, Codes
<1>9. QED
  BY <1>5, <1>6, <1>7, <1>8 DEF Call

(* The calls of a client.                                                   *)
LEMMA CallStep ==
  ASSUME EndInv, NEW c \in Clients, Call(c)
  PROVE  EndInv'
<1>. USE DEF Finalized, engine, daemon, caller, wire
<1>1. CASE Failing(c)
  <2>1. TypeOK'
    <3>1. final' \in {"no", "doing", "done"} /\ (final' = "done" => child = "exited")
      BY <1>1 DEF EndInv, TypeOK, Failing, BeginFinalize
    <3>2. client' \in [Clients -> {"ready", "found", "calling", "exiting", "saving",
                                  "cleaning", "closing", "over", "killed"}]
      BY <1>1 DEF EndInv, TypeOK, Failing
    <3>3. conn' \in [Clients -> {"none", "queued", "reading", "running", "finalizing", "writing", "answered", "reset"}]
      BY <1>1 DEF EndInv, TypeOK, Failing
    <3>4. QED
      BY <1>1, <3>1, <3>2, <3>3 DEF EndInv, TypeOK, Failing
  <2>2. Domains'
    BY <1>1 DEF EndInv, Domains, Codes, Failing
  <2>3. Roles'
    BY <1>1, PlanFacts DEF EndInv, Roles, TypeOK, Failing
  <2>4. Wires'
    BY <1>1 DEF EndInv, Wires, TypeOK, Domains, Failing
  <2>5. Handlers'
    BY <1>1 DEF EndInv, Handlers, Ended, Op, TypeOK, ArtifactError, Failing, BeginFinalize
  <2>6. Endings'
    BY <1>1 DEF EndInv, Endings, TypeOK, Drained, Open, Failing, BeginFinalize
  <2>7. SuccessIsDurable'
    BY <1>1 DEF EndInv, SuccessIsDurable, Op, ArtifactError, Failing, BeginFinalize
  <2>8. DurableBeforeDeaf' /\ RunLeavesNothing'
    BY <1>1 DEF EndInv, DurableBeforeDeaf, RunLeavesNothing, Endings, Failing, BeginFinalize
  <2>9. StopIsTold'
    BY <1>1 DEF EndInv, StopIsTold, Endings, Drained, Open, Failing
  <2>10. StopIsOwned'
    BY <1>1, PlanFacts DEF EndInv, StopIsOwned, Endings, TypeOK, Failing
  <2>11. QED
    BY <2>1, <2>2, <2>3, <2>4, <2>5, <2>6, <2>7, <2>8, <2>9, <2>10 DEF EndInv
<1>2. CASE Looking(c)
  <2>1. TypeOK'
    BY <1>2 DEF EndInv, TypeOK, Looking, Looks
  <2>2. Domains'
    BY <1>2 DEF EndInv, Domains, Looking, Looks
  <2>3. Roles'
    BY <1>2, PlanFacts DEF EndInv, Roles, TypeOK, Looking, Looks
  <2>4. Wires'
    BY <1>2 DEF EndInv, Wires, Looking, Looks
  <2>5. Handlers'
    BY <1>2 DEF EndInv, Handlers, Ended, Op, ArtifactError, Looking, Looks
  <2>6. Endings'
    BY <1>2 DEF EndInv, Endings, Drained, Open, Looking, Looks
  <2>7. SuccessIsDurable'
    BY <1>2 DEF EndInv, SuccessIsDurable, Op, ArtifactError, Looking, Looks
  <2>8. DurableBeforeDeaf' /\ RunLeavesNothing'
    BY <1>2 DEF EndInv, DurableBeforeDeaf, RunLeavesNothing, Endings, Looking, Looks
  <2>9. StopIsTold'
    BY <1>2 DEF EndInv, StopIsTold, Endings, Drained, Open, Looking, Looks
  <2>10. StopIsOwned'
    BY <1>2 DEF EndInv, StopIsOwned, Endings, Looking, Looks
  <2>11. QED
    BY <2>1, <2>2, <2>3, <2>4, <2>5, <2>6, <2>7, <2>8, <2>9, <2>10 DEF EndInv
<1>3. CASE Calling(c)
  <2>1. TypeOK'
    BY <1>3 DEF EndInv, TypeOK, Calling, Dialled
  <2>2. Domains'
    BY <1>3 DEF EndInv, Domains, Calling, Dialled
  <2>3. Roles'
    BY <1>3 DEF EndInv, Roles, Calling, Dialled
  <2>4. Wires'
    BY <1>3 DEF EndInv, Wires, TypeOK, Calling, Dialled
  <2>5. Handlers'
    BY <1>3 DEF EndInv, Handlers, Ended, Op, ArtifactError, Calling, Dialled
  <2>6. Endings'
    BY <1>3 DEF EndInv, Endings, Drained, Open, Calling, Dialled
  <2>7. SuccessIsDurable'
    BY <1>3 DEF EndInv, SuccessIsDurable, Op, ArtifactError, Calling, Dialled
  <2>8. DurableBeforeDeaf' /\ RunLeavesNothing'
    BY <1>3 DEF EndInv, DurableBeforeDeaf, RunLeavesNothing, Endings, Calling, Dialled
  <2>9. StopIsTold'
    BY <1>3 DEF EndInv, StopIsTold, Endings, Drained, Open, Calling, Dialled
  <2>10. StopIsOwned'
    BY <1>3 DEF EndInv, StopIsOwned, Endings, Calling, Dialled
  <2>11. QED
    BY <2>1, <2>2, <2>3, <2>4, <2>5, <2>6, <2>7, <2>8, <2>9, <2>10 DEF EndInv
<1>4. CASE Knocking(c)
  <2>1. TypeOK'
    BY <1>4 DEF EndInv, TypeOK, Knocking, Dialled
  <2>2. Domains'
    BY <1>4 DEF EndInv, Domains, Codes, Knocking, Dialled
  <2>3. Roles'
    BY <1>4 DEF EndInv, Roles, TypeOK, Domains, Knocking, Dialled
  <2>4. Wires'
    BY <1>4 DEF EndInv, Wires, TypeOK, Knocking, Dialled
  <2>5. Handlers'
    BY <1>4 DEF EndInv, Handlers, Ended, Op, ArtifactError, Knocking, Dialled
  <2>6. Endings'
    BY <1>4 DEF EndInv, Endings, Drained, Open, Knocking, Dialled
  <2>7. SuccessIsDurable'
    BY <1>4, PlanFacts DEF EndInv, SuccessIsDurable, Op, TypeOK, ArtifactError, Knocking,
         Dialled
  <2>8. DurableBeforeDeaf' /\ RunLeavesNothing'
    BY <1>4 DEF EndInv, DurableBeforeDeaf, RunLeavesNothing, Endings, Knocking, Dialled
  <2>9. StopIsTold'
    BY <1>4, PlanFacts DEF EndInv, StopIsTold, Endings, TypeOK, Drained, Open, Knocking,
         Dialled
  <2>10. StopIsOwned'
    BY <1>4 DEF EndInv, StopIsOwned, Endings, Knocking, Dialled
  <2>11. QED
    BY <2>1, <2>2, <2>3, <2>4, <2>5, <2>6, <2>7, <2>8, <2>9, <2>10 DEF EndInv
<1>5. CASE Send(c)
  <2>1. TypeOK'
    BY <1>5 DEF EndInv, TypeOK, Send
  <2>2. Domains'
    BY <1>5 DEF EndInv, Domains, Send
  <2>3. Roles'
    BY <1>5 DEF EndInv, Roles, Send
  <2>4. Wires'
    BY <1>5 DEF EndInv, Wires, Send
  <2>5. Handlers'
    BY <1>5 DEF EndInv, Handlers, Ended, Op, ArtifactError, Send
  <2>6. Endings'
    BY <1>5 DEF EndInv, Endings, Drained, Open, Send
  <2>7. SuccessIsDurable'
    BY <1>5 DEF EndInv, SuccessIsDurable, Op, ArtifactError, Send
  <2>8. DurableBeforeDeaf' /\ RunLeavesNothing'
    BY <1>5 DEF EndInv, DurableBeforeDeaf, RunLeavesNothing, Endings, Send
  <2>9. StopIsTold'
    BY <1>5 DEF EndInv, StopIsTold, Endings, Drained, Open, Send
  <2>10. StopIsOwned'
    BY <1>5 DEF EndInv, StopIsOwned, Endings, Send
  <2>11. QED
    BY <2>1, <2>2, <2>3, <2>4, <2>5, <2>6, <2>7, <2>8, <2>9, <2>10 DEF EndInv
<1>6. CASE GoesOn(c)
  <2>1. TypeOK'
    BY <1>6 DEF EndInv, TypeOK, GoesOn, Received
  <2>2. Domains'
    BY <1>6 DEF EndInv, Domains, Codes, GoesOn, Received
  <2>3. Roles'
    BY <1>6 DEF EndInv, Roles, Domains, GoesOn, Received
  <2>4. Wires'
    BY <1>6 DEF EndInv, Wires, TypeOK, Domains, GoesOn, Received
  <2>5. Handlers'
    BY <1>6 DEF EndInv, Handlers, Ended, Op, Domains, ArtifactError, GoesOn, Received
  <2>6. Endings'
    BY <1>6 DEF EndInv, Endings, Drained, Open, GoesOn, Received
  <2>7. SuccessIsDurable'
    BY <1>6 DEF EndInv, SuccessIsDurable, Op, TypeOK, ArtifactError, GoesOn, Received
  <2>8. DurableBeforeDeaf' /\ RunLeavesNothing'
    BY <1>6 DEF EndInv, DurableBeforeDeaf, RunLeavesNothing, Endings, GoesOn, Received
  <2>9. StopIsTold'
    BY <1>6 DEF EndInv, StopIsTold, Endings, Drained, Open, GoesOn, Received
  <2>10. StopIsOwned'
    BY <1>6, PlanFacts DEF EndInv, StopIsOwned, Endings, Domains, GoesOn, Received
  <2>11. QED
    BY <2>1, <2>2, <2>3, <2>4, <2>5, <2>6, <2>7, <2>8, <2>9, <2>10 DEF EndInv
<1>7. CASE HasStopped(c)
  <2>1. TypeOK'
    BY <1>7 DEF EndInv, TypeOK, HasStopped, Received
  <2>2. Domains'
    BY <1>7 DEF EndInv, Domains, Codes, HasStopped, Received
  <2>3. Roles'
    BY <1>7 DEF EndInv, Roles, HasStopped, Received
  <2>4. Wires'
    BY <1>7 DEF EndInv, Wires, TypeOK, Domains, HasStopped, Received
  <2>5. Handlers'
    BY <1>7, PlanFacts DEF EndInv, Handlers, Ended, Op, Roles, TypeOK, ArtifactError,
         HasStopped, Received
  <2>6. Endings'
    BY <1>7 DEF EndInv, Endings, Drained, Open, HasStopped, Received
  <2>7. SuccessIsDurable'
    BY <1>7 DEF EndInv, SuccessIsDurable, Op, ArtifactError, HasStopped, Received
  <2>8. DurableBeforeDeaf' /\ RunLeavesNothing'
    BY <1>7 DEF EndInv, DurableBeforeDeaf, RunLeavesNothing, Endings, HasStopped, Received
  <2>9. StopIsTold'
    BY <1>7 DEF EndInv, StopIsTold, Endings, Drained, Open, HasStopped, Received
  <2>10. StopIsOwned'
    BY <1>7 DEF EndInv, StopIsOwned, Endings, HasStopped, Received
  <2>11. QED
    BY <2>1, <2>2, <2>3, <2>4, <2>5, <2>6, <2>7, <2>8, <2>9, <2>10 DEF EndInv
<1>8. CASE HasRun(c)
  <2>1. TypeOK'
    BY <1>8 DEF EndInv, TypeOK, HasRun, Received, BeginFinalize
  <2>2. Domains'
    BY <1>8 DEF EndInv, Domains, Codes, HasRun, Received
  <2>3. Roles'
    BY <1>8 DEF EndInv, Roles, HasRun, Received
  <2>4. Wires'
    BY <1>8 DEF EndInv, Wires, TypeOK, Domains, HasRun, Received
  <2>5. Handlers'
    BY <1>8 DEF EndInv, Handlers, Ended, Op, ArtifactError, HasRun, Received, BeginFinalize
  <2>6. Endings'
    BY <1>8 DEF EndInv, Endings, Drained, Open, HasRun, Received, BeginFinalize
  <2>7. SuccessIsDurable'
    BY <1>8 DEF EndInv, SuccessIsDurable, Op, ArtifactError, HasRun, Received, BeginFinalize
  <2>8. DurableBeforeDeaf' /\ RunLeavesNothing'
    BY <1>8 DEF EndInv, DurableBeforeDeaf, RunLeavesNothing, Endings, HasRun, Received,
         BeginFinalize
  <2>9. StopIsTold'
    BY <1>8 DEF EndInv, StopIsTold, Endings, Drained, Open, HasRun, Received
  <2>10. StopIsOwned'
    BY <1>8, PlanFacts DEF EndInv, StopIsOwned, Endings, TypeOK, HasRun, Received
  <2>11. QED
    BY <2>1, <2>2, <2>3, <2>4, <2>5, <2>6, <2>7, <2>8, <2>9, <2>10 DEF EndInv
<1>9. CASE IsOver(c)
  <2>1. TypeOK'
    BY <1>9 DEF EndInv, TypeOK, IsOver, Received
  <2>2. Domains'
    BY <1>9 DEF EndInv, Domains, Codes, IsOver, Received
  <2>3. Roles'
    BY <1>9 DEF EndInv, Roles, TypeOK, IsOver, Received
  <2>4. Wires'
    BY <1>9 DEF EndInv, Wires, Domains, IsOver, Received
  <2>5. Handlers'
    BY <1>9 DEF EndInv, Handlers, Ended, Op, ArtifactError, IsOver, Received
  <2>6. Endings'
    BY <1>9 DEF EndInv, Endings, Drained, Open, IsOver, Received
  <2>7. SuccessIsDurable'
    BY <1>9, PlanFacts DEF EndInv, SuccessIsDurable, Op, Roles, TypeOK, ArtifactError,
         IsOver, Received
  <2>8. DurableBeforeDeaf' /\ RunLeavesNothing'
    BY <1>9 DEF EndInv, DurableBeforeDeaf, RunLeavesNothing, Endings, IsOver, Received
  <2>9. StopIsTold'
    BY <1>9 DEF EndInv, StopIsTold, Endings, Wires, Drained, Open, IsOver, Received
  <2>10. StopIsOwned'
    BY <1>9 DEF EndInv, StopIsOwned, Endings, IsOver, Received
  <2>11. QED
    BY <2>1, <2>2, <2>3, <2>4, <2>5, <2>6, <2>7, <2>8, <2>9, <2>10 DEF EndInv
<1>10. CASE ReadPid(c)
  <2>1. TypeOK'
    BY <1>10 DEF EndInv, TypeOK, ReadPid
  <2>2. Domains'
    BY <1>10 DEF EndInv, Domains, ReadPid
  <2>3. Roles'
    BY <1>10 DEF EndInv, Roles, ReadPid
  <2>4. Wires'
    BY <1>10 DEF EndInv, Wires, ReadPid
  <2>5. Handlers'
    BY <1>10 DEF EndInv, Handlers, Ended, Op, ArtifactError, ReadPid
  <2>6. Endings'
    BY <1>10 DEF EndInv, Endings, Drained, Open, ReadPid
  <2>7. SuccessIsDurable'
    BY <1>10 DEF EndInv, SuccessIsDurable, Op, ArtifactError, ReadPid
  <2>8. DurableBeforeDeaf' /\ RunLeavesNothing'
    BY <1>10 DEF EndInv, DurableBeforeDeaf, RunLeavesNothing, Endings, ReadPid
  <2>9. StopIsTold'
    BY <1>10 DEF EndInv, StopIsTold, Endings, Drained, Open, Roles, ReadPid
  <2>10. StopIsOwned'
    BY <1>10 DEF EndInv, StopIsOwned, Endings, ReadPid
  <2>11. QED
    BY <2>1, <2>2, <2>3, <2>4, <2>5, <2>6, <2>7, <2>8, <2>9, <2>10 DEF EndInv
<1>11. QED
  BY <1>1, <1>2, <1>3, <1>4, <1>5, <1>6, <1>7, <1>8, <1>9, <1>10, Calls

(* The ends of the clients.                                                 *)
LEMMA FinishStep ==
  ASSUME EndInv, NEW c \in Clients, Finish(c) \/ Killed(c)
  PROVE  EndInv'
<1>. USE DEF Finalized, engine, daemon, caller, wire
<1>1. CASE AwaitExit(c)
  <2>1. TypeOK'
    BY <1>1 DEF EndInv, TypeOK, AwaitExit
  <2>2. Domains'
    BY <1>1 DEF EndInv, Domains, Codes, AwaitExit
  <2>3. Roles'
    BY <1>1 DEF EndInv, Roles, TypeOK, AwaitExit
  <2>4. Wires'
    BY <1>1 DEF EndInv, Wires, AwaitExit
  <2>5. Handlers'
    BY <1>1 DEF EndInv, Handlers, Ended, Op, ArtifactError, AwaitExit
  <2>6. Endings'
    BY <1>1 DEF EndInv, Endings, Drained, Open, AwaitExit
  <2>7. SuccessIsDurable'
    BY <1>1 DEF EndInv, SuccessIsDurable, Op, Roles, ArtifactError, AwaitExit
  <2>8. DurableBeforeDeaf' /\ RunLeavesNothing'
    BY <1>1 DEF EndInv, DurableBeforeDeaf, RunLeavesNothing, Endings, AwaitExit
  <2>9. StopIsTold'
    BY <1>1 DEF EndInv, StopIsTold, Endings, Handlers, Roles, Drained, Open, AwaitExit
  <2>10. StopIsOwned'
    BY <1>1 DEF EndInv, StopIsOwned, Endings, AwaitExit
  <2>11. QED
    BY <2>1, <2>2, <2>3, <2>4, <2>5, <2>6, <2>7, <2>8, <2>9, <2>10 DEF EndInv
<1>2. CASE SaveTrace(c)
  <2>1. TypeOK'
    BY <1>2 DEF EndInv, TypeOK, SaveTrace, Saved
  <2>2. Domains'
    BY <1>2 DEF EndInv, Domains, Codes, SaveTrace, Saved
  <2>3. Roles'
    BY <1>2 DEF EndInv, Roles, TypeOK, Domains, SaveTrace, Saved
  <2>4. Wires'
    BY <1>2 DEF EndInv, Wires, SaveTrace, Saved
  <2>5. Handlers'
    BY <1>2 DEF EndInv, Handlers, Ended, Op, ArtifactError, SaveTrace, Saved
  <2>6. Endings'
    BY <1>2 DEF EndInv, Endings, Drained, Open, SaveTrace, Saved
  <2>7. SuccessIsDurable'
    BY <1>2, PlanFacts DEF EndInv, SuccessIsDurable, Roles, Wires, TypeOK, ArtifactError,
         SaveTrace, Saved
  <2>8. DurableBeforeDeaf' /\ RunLeavesNothing'
    BY <1>2 DEF EndInv, DurableBeforeDeaf, RunLeavesNothing, Endings, SaveTrace, Saved
  <2>9. StopIsTold'
    BY <1>2 DEF EndInv, StopIsTold, Endings, Roles, Drained, Open, SaveTrace, Saved
  <2>10. StopIsOwned'
    BY <1>2 DEF EndInv, StopIsOwned, Endings, SaveTrace, Saved
  <2>11. QED
    BY <2>1, <2>2, <2>3, <2>4, <2>5, <2>6, <2>7, <2>8, <2>9, <2>10 DEF EndInv
<1>3. CASE Clean(c)
  <2>1. TypeOK'
    BY <1>3 DEF EndInv, TypeOK, Clean, Saved, CloseListener, CloseTerm, BeginFinalize
  <2>2. Domains'
    BY <1>3 DEF EndInv, Domains, Clean, Saved, CloseListener, CloseTerm
  <2>3. Roles'
    BY <1>3 DEF EndInv, Roles, Clean, Saved, CloseListener, CloseTerm
  <2>4. Wires'
    BY <1>3 DEF EndInv, Wires, Clean, Saved, CloseListener, CloseTerm
  <2>5. Handlers'
    BY <1>3 DEF EndInv, Handlers, Ended, Op, ArtifactError, Clean, Saved, CloseListener,
         CloseTerm, BeginFinalize
  <2>6. Endings'
    BY <1>3, PlanFacts DEF EndInv, Endings, Roles, TypeOK, Drained, Open, Clean, Saved,
         CloseListener, CloseTerm, BeginFinalize
  <2>7. SuccessIsDurable'
    BY <1>3, PlanFacts DEF EndInv, SuccessIsDurable, Roles, Wires, TypeOK, ArtifactError,
         Clean, Saved, CloseListener, CloseTerm, BeginFinalize
  <2>8. DurableBeforeDeaf' /\ RunLeavesNothing'
    BY <1>3 DEF EndInv, DurableBeforeDeaf, RunLeavesNothing, Endings, Clean, Saved,
         CloseListener, CloseTerm, BeginFinalize
  <2>9. StopIsTold'
    BY <1>3 DEF EndInv, StopIsTold, Endings, Drained, Open, Clean, Saved, CloseListener,
         CloseTerm
  <2>10. StopIsOwned'
    BY <1>3, PlanFacts DEF EndInv, StopIsOwned, Endings, Roles, TypeOK, Clean, Saved,
         CloseListener, CloseTerm
  <2>11. QED
    BY <2>1, <2>2, <2>3, <2>4, <2>5, <2>6, <2>7, <2>8, <2>9, <2>10 DEF EndInv
<1>4. CASE RunExits(c)
  <2>1. TypeOK'
    BY <1>4 DEF EndInv, TypeOK, RunExits, TermClosed
  <2>2. Domains'
    BY <1>4 DEF EndInv, Domains, RunExits, TermClosed
  <2>3. Roles'
    BY <1>4 DEF EndInv, Roles, RunExits, TermClosed
  <2>4. Wires'
    BY <1>4 DEF EndInv, Wires, RunExits, TermClosed
  <2>5. Handlers'
    BY <1>4 DEF EndInv, Handlers, Ended, Op, ArtifactError, RunExits, TermClosed
  <2>6. Endings'
    BY <1>4, PlanFacts DEF EndInv, Endings, Roles, Wires, Handlers, TypeOK, Drained, Open,
         RunExits, TermClosed
  <2>7. SuccessIsDurable'
    BY <1>4, PlanFacts DEF EndInv, SuccessIsDurable, Roles, Wires, TypeOK, ArtifactError,
         RunExits, TermClosed
  <2>8. DurableBeforeDeaf' /\ RunLeavesNothing'
    BY <1>4 DEF EndInv, DurableBeforeDeaf, RunLeavesNothing, Endings, TypeOK, RunExits,
         TermClosed
  <2>9. StopIsTold'
    <3>1. /\ client[c] = "closing" /\ server' = "gone"
          /\ UNCHANGED <<plan, conn, child, quiet, tombstone, outcome>>
      BY <1>4 DEF RunExits, engine, wire
    <3>2. /\ plan \in Plans /\ plan.verb[c] = "run" /\ conn[c] = "none"
      BY <3>1 DEF EndInv, TypeOK, Roles, Wires
    <3>3. ~plan.daemon /\ \A d \in Clients : plan.verb[d] = "run" => c = d
      BY <3>2, PlanFacts
    <3>4. Drained
      BY <3>2, <3>3 DEF EndInv, Roles, Drained, Open
    <3>5. Drained'
      BY <3>1, <3>4 DEF Drained, Open
    <3>6. \A d \in Clients : plan.verb[d] = "stop" => outcome[d] = "none"
      BY <3>3 DEF EndInv, Roles
    <3>7. QED
      BY <3>1, <3>5, <3>6 DEF StopIsTold
  <2>10. StopIsOwned'
    BY <1>4 DEF EndInv, StopIsOwned, Endings, RunExits, TermClosed
  <2>11. QED
    BY <2>1, <2>2, <2>3, <2>4, <2>5, <2>6, <2>7, <2>8, <2>9, <2>10 DEF EndInv
<1>5. CASE Killed(c)
  <2>1. TypeOK'
    BY <1>5 DEF EndInv, TypeOK, Killed
  <2>2. Domains'
    BY <1>5 DEF EndInv, Domains, Killed
  <2>3. Roles'
    BY <1>5 DEF EndInv, Roles, Killed
  <2>4. Wires'
    BY <1>5 DEF EndInv, Wires, Killed
  <2>5. Handlers'
    BY <1>5 DEF EndInv, Handlers, Ended, Op, ArtifactError, Killed
  <2>6. Endings'
    BY <1>5 DEF EndInv, Endings, Drained, Open, Killed
  <2>7. SuccessIsDurable'
    BY <1>5 DEF EndInv, SuccessIsDurable, Op, ArtifactError, Killed
  <2>8. DurableBeforeDeaf' /\ RunLeavesNothing'
    BY <1>5 DEF EndInv, DurableBeforeDeaf, RunLeavesNothing, Endings, Killed
  <2>9. StopIsTold'
    BY <1>5 DEF EndInv, StopIsTold, Endings, Drained, Open, Killed
  <2>10. StopIsOwned'
    BY <1>5 DEF EndInv, StopIsOwned, Endings, Killed
  <2>11. QED
    BY <2>1, <2>2, <2>3, <2>4, <2>5, <2>6, <2>7, <2>8, <2>9, <2>10 DEF EndInv
<1>6. QED
  BY <1>1, <1>2, <1>3, <1>4, <1>5 DEF Finish

-----------------------------------------------------------------------------
LEMMA InitEndInv == Init => EndInv
<1>. SUFFICES ASSUME Init PROVE EndInv
  OBVIOUS
<1>. USE DEF Init, Finalized
<1>1. plan \in Plans
  OBVIOUS
<1>2. TypeOK
  <2>1. \A c \in Clients : next[c] \in 1 .. Len(plan.ops[c]) + 1
    <3>1. TAKE c \in Clients
    <3>2. plan.ops[c] \in Seq(Ops)
      BY <1>1, PlanFacts
    <3>3. PICK n \in Nat : n = Len(plan.ops[c])
      BY <3>2
    <3>4. next[c] = 1
      OBVIOUS
    <3>5. QED
      BY <3>3, <3>4
  <2>2. server \in {"starting", "quick_exit", "serving", "draining", "closing", "burying", "gone"}
    OBVIOUS
  <2>3. client \in [Clients -> {"ready", "found", "calling", "exiting", "saving",
                               "cleaning", "closing", "over", "killed"}]
    OBVIOUS
  <2>4. QED
    BY <1>1, <2>1, <2>2, <2>3 DEF TypeOK
<1>3. Domains
  BY DEF Domains, Codes
<1>4. Roles
  <2>. USE DEF Roles
  <2>1. TAKE c \in Clients
  <2>2. plan.ops[c] \in Seq(Ops) /\ client[c] \in {"ready", "over"} /\ sent[c] = "nothing" /\ next[c] = 1
    BY <1>1, PlanFacts
  <2>3. plan.ops[c] # <<>> => next[c] <= Len(plan.ops[c])
    <3>1. \A s \in Seq(Ops) : s # <<>> => 1 <= Len(s)
      OBVIOUS
    <3>2. QED
      BY <2>2, <3>1
  <2>4. ~plan.daemon /\ plan.verb[c] # "run" => client[c] = "over" /\ conn[c] = "none" /\ outcome[c] = "none"
    OBVIOUS
  <2>5. QED
    BY <2>2, <2>3, <2>4
<1>5. Wires /\ Handlers
  BY DEF Wires, Handlers
<1>6. Endings
  BY DEF Endings, Drained, Open
<1>7. SuccessIsDurable /\ DurableBeforeDeaf /\ RunLeavesNothing
  BY DEF SuccessIsDurable, DurableBeforeDeaf, RunLeavesNothing
<1>8. StopIsTold /\ StopIsOwned
  BY DEF StopIsTold, StopIsOwned
<1>9. QED
  BY <1>2, <1>3, <1>4, <1>5, <1>6, <1>7, <1>8 DEF EndInv

LEMMA StepEndInv == EndInv /\ [Next]_vars => EndInv'
<1>. SUFFICES ASSUME EndInv, [Next]_vars PROVE EndInv'
  OBVIOUS
<1>1. CASE Next
  BY <1>1, EngineStep, TeardownStep, ServeStep, CallStep, FinishStep DEF Next
<1>2. CASE UNCHANGED vars
  <2>. USE <1>2 DEF vars, engine, daemon, caller, wire
  <2>1. TypeOK' /\ Domains' /\ Roles' /\ Wires'
    BY DEF EndInv, TypeOK, Domains, Roles, Wires, Finalized
  <2>2. Handlers' /\ Endings'
    BY DEF EndInv, Handlers, Ended, Op, Finalized, ArtifactError, Endings, Drained, Open
  <2>3. SuccessIsDurable' /\ DurableBeforeDeaf' /\ RunLeavesNothing'
    BY DEF EndInv, SuccessIsDurable, DurableBeforeDeaf, RunLeavesNothing, Op, Finalized,
         ArtifactError
  <2>4. StopIsTold' /\ StopIsOwned'
    BY DEF EndInv, StopIsTold, StopIsOwned, Drained, Open
  <2>5. QED
    BY <2>1, <2>2, <2>3, <2>4 DEF EndInv
<1>3. QED
  BY <1>1, <1>2

(* Who is told that a session has ended can rely on it: success of          *)
(* wait exit, of stop and of a run with a trace means a dead child and      *)
(* artifacts on disk, and the socket outlives the finalization (handleWait, *)
(* handleStop, cmd_run, daemonize).                                         *)
THEOREM EndsAreDurable == Spec => []EndIsDurable
<1>1. EndInv => EndIsDurable
  BY DEF EndInv, EndIsDurable
<1>2. QED
  BY <1>1, InitEndInv, StepEndInv, PTL DEF Spec

(* A session is stopped by a stop that owns its generation, and its running *)
(* child is killed by such a stop or because Accept has failed.  Unless it  *)
(* has failed, every request accepted has had its answer when the tombstone *)
(* is written, and what is left of a stopped session says so (handleStop,   *)
(* Server.Serve, daemonize).                                                *)
THEOREM EndsAreOwned == Spec => []EndIsOwned
<1>1. EndInv => EndIsOwned
  BY DEF EndInv, EndIsOwned
<1>2. QED
  BY <1>1, InitEndInv, StepEndInv, PTL DEF Spec

-----------------------------------------------------------------------------
(* The process group of the child (ProcessGroup), for every set of callers  *)
(* and descendants: whose number it is, and who may signal it when.         *)

(* Where each goroutine can be.                                             *)
StepsInv ==
  /\ pc[Waiter] \in {"start", "waitid", "close", "notify", "forget", "reap", "join", "end",
                     "done"}
  /\ pc[Closer] \in {"idle", "term", "grace", "kill", "release", "join", "done"}
  /\ started <=> pc[Waiter] # "start"
  /\ released <=> pc[Closer] \in {"join", "done"}
  /\ pc[Closer] # "idle" => started

(* Who sends, and that nobody sends to a number that is gone.               *)
SendInv ==
  /\ mu # Waiter
  /\ \A p \in Procs :
       /\ mu = p => pgid /\ sending[p] # "none"
       /\ sending[p] = "WINCH" => ~exited
  /\ mu = Closer /\ pc[Closer] = "kill" => sending[Closer] = "KILL"
  /\ mu = Closer => pc[Closer] \in {"term", "kill"}

(* The number and the leader it belongs to.                                 *)
NumberInv ==
  /\ stranger => leader = "reaped"
  /\ leader = "reaped" => ~pgid
  /\ pc[Waiter] = "start" => ~pgid /\ leader # "reaped"
  /\ pc[Waiter] = "reap" => ~pgid
  /\ LeaderPinned

(* The exit is set before it is announced.                                  *)
ExitInv ==
  /\ pc[Waiter] \in {"close", "notify", "forget", "reap", "join", "end", "done"} => exited
  /\ published => exited

(* The group is dead once its last SIGKILL is sent.                         *)
DeadInv ==
  pc[Closer] \in {"release", "join", "done"} /\ ~waitFailed =>
    leader # "running" /\ members = {}

GroupInv == GroupTypeOK /\ StepsInv /\ SendInv /\ NumberInv /\ ExitInv /\ DeadInv

LEMMA GroupStarts == GroupInit => GroupInv
BY GroupAssumption
DEF GroupInit, GroupInv, GroupTypeOK, StepsInv, SendInv, NumberInv, ExitInv, DeadInv, LeaderPinned,
    Procs

-----------------------------------------------------------------------------
(* The kernel and the processes of the group: a group that is dead or whose  *)
(* number is gone stays so.                                                 *)
LEMMA KernelStep ==
  ASSUME GroupInv,
         LeaderExits \/ Recycle \/ Cancel \/ \E d \in Descendants : Fork(d) \/ Leave(d)
  PROVE  GroupInv'
<1> USE GroupAssumption
    DEF GroupInv, GroupTypeOK, StepsInv, SendInv, NumberInv, ExitInv, DeadInv, LeaderPinned,
        Procs, kernel, goroutines, channels
<1>1. CASE LeaderExits
  BY <1>1 DEF LeaderExits
<1>2. CASE Recycle
  BY <1>2 DEF Recycle
<1>3. CASE Cancel
  BY <1>3 DEF Cancel
<1>4. CASE \E d \in Descendants : Fork(d) \/ Leave(d)
  BY <1>4 DEF Fork, Leave
<1>5. QED
  BY <1>1, <1>2, <1>3, <1>4

(* The goroutine of wait: it reaps only what has no number any more.         *)
LEMMA WaiterStep ==
  ASSUME GroupInv,
         Started \/ LeaderExited \/ WaitFails \/ CloseExitedCh \/ Notify \/ Forget \/ Reap
           \/ JoinWatcher \/ CloseReaped
  PROVE  GroupInv'
<1> USE GroupAssumption
    DEF GroupInv, GroupTypeOK, StepsInv, SendInv, NumberInv, ExitInv, DeadInv, LeaderPinned,
        Procs, kernel, channels, Goto
<1>1. CASE Started
  BY <1>1 DEF Started
<1>2. CASE LeaderExited
  BY <1>2 DEF LeaderExited
<1>3. CASE WaitFails
  BY <1>3 DEF WaitFails
<1>4. CASE CloseExitedCh
  BY <1>4 DEF CloseExitedCh
<1>5. CASE Notify
  BY <1>5 DEF Notify
<1>6. CASE Forget
  BY <1>6 DEF Forget, ForgetUnchanged
<1>7. CASE Reap
  BY <1>7 DEF Reap
<1>8. CASE JoinWatcher
  BY <1>8 DEF JoinWatcher
<1>9. CASE CloseReaped
  BY <1>9 DEF CloseReaped
<1>10. QED
  BY <1>1, <1>2, <1>3, <1>4, <1>5, <1>6, <1>7, <1>8, <1>9

(* Steps that move a goroutine and send nothing.                            *)
LEMMA MoveStep ==
  ASSUME GroupInv,
         BeginClose \/ WaitDone \/ Release \/ JoinWaiter \/ WatchContext
           \/ \E c \in Callers : Resize(c)
  PROVE  GroupInv'
<1> USE GroupAssumption
    DEF GroupInv, GroupTypeOK, StepsInv, SendInv, NumberInv, ExitInv, DeadInv, LeaderPinned,
        Procs, kernel, channels, closing, Goto
<1>1. CASE BeginClose
  BY <1>1 DEF BeginClose
<1>2. CASE WaitDone
  BY <1>2 DEF WaitDone, ExitSeen
<1>3. CASE Release
  BY <1>3 DEF Release
<1>4. CASE JoinWaiter
  BY <1>4 DEF JoinWaiter
<1>5. CASE WatchContext
  BY <1>5 DEF WatchContext
<1>6. CASE \E c \in Callers : Resize(c)
  BY <1>6 DEF Resize
<1>7. QED
  BY <1>1, <1>2, <1>3, <1>4, <1>5, <1>6

(* A signal is taken up under mu, or refused because the number is gone or   *)
(* the leader has exited.  The SIGKILL of the close is refused only after    *)
(* waitid has failed.                                                       *)
LEMMA TrySendStep ==
  ASSUME NEW p \in Procs \ {Waiter}, NEW s \in {"USER", "WINCH", "TERM", "KILL"},
         GroupInv, TrySend(p, s),
         p = Closer => \/ pc[p] = "term" /\ s = "TERM"
                       \/ pc[p] = "kill" /\ s = "KILL"
  PROVE  GroupInv'
  BY GroupAssumption
  DEF GroupInv, GroupTypeOK, StepsInv, SendInv, NumberInv, ExitInv, DeadInv, LeaderPinned, Procs,
      TrySend, Lock, MaySend, After, Goto, kernel, channels

(* A signal reaches the group under mu; the SIGKILL of the close ends it.   *)
LEMMA SendStep ==
  ASSUME NEW p \in Procs, GroupInv, SendSignal(p)
  PROVE  GroupInv'
  BY GroupAssumption
  DEF GroupInv, GroupTypeOK, StepsInv, SendInv, NumberInv, ExitInv, DeadInv, LeaderPinned, Procs,
      SendSignal, After, Goto, channels

LEMMA SignalStep ==
  ASSUME GroupInv,
         CancelKill \/ Terminate \/ Kill \/ \E c \in Callers : Signal(c) \/ ResizeSignal(c)
  PROVE  GroupInv'
<1> USE GroupAssumption, TrySendStep DEF Procs
<1>1. CASE \E c \in Callers : Signal(c)
  BY <1>1 DEF Signal
<1>2. CASE \E c \in Callers : ResizeSignal(c)
  BY <1>2 DEF ResizeSignal
<1>3. CASE CancelKill
  BY <1>3 DEF CancelKill
<1>4. CASE Terminate
  BY <1>4 DEF Terminate
<1>5. CASE Kill
  BY <1>5 DEF Kill
<1>6. QED
  BY <1>1, <1>2, <1>3, <1>4, <1>5

LEMMA GroupStep == GroupInv /\ [GroupNext]_groupVars => GroupInv'
<1> SUFFICES ASSUME GroupInv, [GroupNext]_groupVars
             PROVE  GroupInv'
  OBVIOUS
<1>1. CASE UNCHANGED groupVars
  BY <1>1 DEF groupVars, kernel, channels, GroupInv, GroupTypeOK, StepsInv, SendInv, NumberInv, ExitInv,
     DeadInv, LeaderPinned, Procs
<1>2. CASE LeaderExits \/ Recycle \/ Cancel \/ \E d \in Descendants : Fork(d) \/ Leave(d)
  BY <1>2, KernelStep
<1>3. CASE Started \/ LeaderExited \/ WaitFails \/ CloseExitedCh \/ Notify \/ Forget \/ Reap
           \/ JoinWatcher \/ CloseReaped
  BY <1>3, WaiterStep
<1>4. CASE BeginClose \/ WaitDone \/ Release \/ JoinWaiter \/ WatchContext
           \/ \E c \in Callers : Resize(c)
  BY <1>4, MoveStep
<1>5. CASE CancelKill \/ Terminate \/ Kill \/ \E c \in Callers : Signal(c) \/ ResizeSignal(c)
  BY <1>5, SignalStep
<1>6. CASE \E p \in Procs : SendSignal(p)
  BY <1>6, SendStep
<1>7. QED
  BY <1>1, <1>2, <1>3, <1>4, <1>5, <1>6 DEF GroupNext

-----------------------------------------------------------------------------
(* The inductive invariant of the process group: who sends what under mu,    *)
(* and when the number, the leader and the group are gone.                   *)
THEOREM GroupCorrect == GroupSpec => []GroupInv
<1>1. GroupInv /\ [GroupNext]_groupVars => GroupInv'
  BY GroupStep
<1>2. QED
  BY GroupStarts, <1>1, PTL DEF GroupSpec

(* Every reachable state is well typed, and who sends owns mu.              *)
THEOREM GroupTypeCorrect == GroupSpec => []GroupTypeOK
<1>1. GroupInv => GroupTypeOK
  BY DEF GroupInv
<1>2. QED
  BY GroupCorrect, <1>1, PTL

(* No signal goes to a group that is not the session's                      *)
(* (process_group_linux.go:19-21).                                          *)
THEOREM SignalsStayHome == GroupSpec => []NoForeignSignal
<1>1. GroupInv => NoForeignSignal
  BY DEF GroupInv, GroupTypeOK, SendInv, NumberInv, NoForeignSignal
<1>2. QED
  BY GroupCorrect, <1>1, PTL

(* The leader stays waitable and the group reachable until the close         *)
(* (runner.go:322-325).                                                     *)
THEOREM LeaderStaysPinned == GroupSpec => []LeaderPinned
<1>1. GroupInv => LeaderPinned
  BY DEF GroupInv, NumberInv
<1>2. QED
  BY GroupCorrect, <1>1, PTL

(* No SIGWINCH is sent once the exit is announced                           *)
(* (process_group_linux.go:64-70).                                          *)
THEOREM NoWinchAfterExit == GroupSpec => []NoLateWinch
<1>1. GroupInv => NoLateWinch
  BY DEF GroupInv, SendInv, ExitInv, NoLateWinch
<1>2. QED
  BY GroupCorrect, <1>1, PTL

(* A close leaves no process of the group, unless waitid has failed          *)
(* (process_group_linux.go:154-155).                                        *)
THEOREM CloseKillsGroup == GroupSpec => []NobodySurvivesClose
<1>1. GroupInv => NobodySurvivesClose
  BY DEF GroupInv, StepsInv, DeadInv, NobodySurvivesClose
<1>2. QED
  BY GroupCorrect, <1>1, PTL
=============================================================================
