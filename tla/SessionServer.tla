--------------------------- MODULE SessionServer ---------------------------
(***************************************************************************)
(* The RPC server of a session and the programs that call it: the accept   *)
(* loop and the handler goroutines of internal/daemon, the end of the      *)
(* daemon process, and the clients of cmd/twee: scripts (twee do), single  *)
(* verbs (status, stop, wait exit), and twee run, which serves its own     *)
(* session for as long as its script lasts.                                *)
(*                                                                         *)
(* One connection carries one request.  The kernel queues connections that *)
(* the loop has not accepted, and resets them when the listener closes.    *)
(* What happens inside the terminal session (TermSession), to its files    *)
(* (SessionLock) and inside a wait (PumpWait) is modelled there; here an   *)
(* operation of the engine succeeds or fails, and finalization is a        *)
(* sync.Once: the first caller starts it, every caller waits for its end.  *)
(***************************************************************************)
EXTENDS Naturals, Sequences

CONSTANTS
  Clients, \* processes that call the session
  Plans    \* what they may do: [daemon, trace, saves, breaks, verb, ops, killed]

\* Operations, told apart by what they hold on to and what they change.
Ops == {"query",    \* reads the screen or the session: status, text, find...
        "check",    \* compares the screen: assert cell, assert region
        "input",    \* one call of the engine: key, mouse, resize, trace mark...
        "malformed",\* unknown operation, or arguments its handler refuses
        "wait", "sleep", "wait_exit",
        "stop", "stop_quietly", \* with the token or none; --all, --force
        "stop_other"} \* with the token of another generation
Stops == {"stop", "stop_quietly"}
Verbs == {"do", "run", "status", "stop", "wait_exit",
          "mute",  \* sends a part of a request
          "deaf"}  \* sends a request and does not read the answer

Plan == [daemon : BOOLEAN, trace : BOOLEAN, saves : BOOLEAN, breaks : BOOLEAN,
         verb : [Clients -> Verbs], ops : [Clients -> Seq(Ops)],
         killed : SUBSET Clients]

\* Each twee run serves a session of its own.
ASSUME PlansAssumption ==
  \A p \in Plans :
    /\ p \in Plan
    /\ \A c, d \in Clients : p.verb[c] = "run" /\ p.verb[d] = "run" => c = d
    /\ \A c \in Clients : /\ p.verb[c] = "run" => ~p.daemon /\ p.ops[c] # <<>>
                          /\ p.verb[c] \notin {"do", "run"} => Len(p.ops[c]) = 1
                          /\ p.verb[c] = "status" => p.ops[c] = <<"query">>
                          /\ p.verb[c] = "wait_exit" => p.ops[c] = <<"wait_exit">>
                          /\ p.verb[c] = "stop" => p.ops[c][1] \in Stops \cup {"stop_other"}

VARIABLES
  plan,      \* what the processes of this behaviour do
  child,     \* "running", "exited"
  text,      \* the screen shows what the waits look for
  final,     \* FinalizeArtifacts: "no", "doing", "done"
  stopped,   \* stopRequested
  quiet,     \* TombstoneSuppressed
  listener,  \* "open", "closed"
  broken,    \* Accept has failed although the listener was open
  watcher,   \* the goroutine that ends the daemon: "waiting", "finalizing",
             \* "sleeping", "over"
  server,    \* "starting", "quick_exit", "serving", "draining", "closing",
             \* "burying", "gone"
  tombstone, \* "none", "stopped", "ended"
  client,    \* per client: "ready", "found", "calling", "exiting", "saving",
             \* "cleaning", "closing", "over", "killed"
  next,      \* per client: the operation it is at
  outcome,   \* per client: what it reports ("none": nothing yet)
  lockPid,   \* per client: what a stop has read from the lock file: "unread",
             \* "daemon", "other" (nothing, or a process before the daemon)
  conn,      \* its connection: "none", "queued", "reading", "running",
             \* "finalizing", "writing", "answered", "reset"
  sent,      \* of its request: "nothing", "part", "whole"
  reply      \* the answer on it

engine == <<child, text, final, stopped, quiet>>
daemon == <<listener, broken, watcher, server, tombstone>>
wire   == <<conn, sent, reply>>
caller == <<client, next, outcome, lockPid>>
vars   == <<plan, engine, daemon, caller, wire>>

-----------------------------------------------------------------------------
Op(c) == plan.ops[c][next[c]]
Open(c) == conn[c] \in {"reading", "running", "finalizing", "writing"}

Finalized == final = "done"
BeginFinalize == final' = IF final = "no" THEN "doing" ELSE final
ArtifactError == plan.trace /\ ~plan.saves

Init ==
  /\ plan \in Plans
  /\ child = "running" /\ text = FALSE /\ final = "no"
  /\ stopped = FALSE /\ quiet = FALSE
  /\ listener = "open" /\ broken = FALSE /\ tombstone = "none"
  /\ watcher = "waiting"
  /\ server = IF plan.daemon THEN "starting" ELSE "serving"
  /\ client = [c \in Clients |->  \* the socket of a run is its own
                 IF plan.daemon \/ plan.verb[c] = "run" THEN "ready" ELSE "over"]
  /\ next = [c \in Clients |-> 1]
  /\ outcome = [c \in Clients |-> "none"]
  /\ lockPid \in [Clients -> {"unread", "other"}]
  /\ \A c \in Clients : lockPid[c] = "other" => plan.verb[c] = "stop"
  /\ conn = [c \in Clients |-> "none"]
  /\ sent = [c \in Clients |-> "nothing"]
  /\ reply = [c \in Clients |-> "none"]

-----------------------------------------------------------------------------
\* The child and the finalization that whoever calls it first carries out:
\* the child is killed if it still runs, its output drained, the trace closed.
ChildExits ==
  /\ child = "running" /\ child' = "exited"
  /\ UNCHANGED <<plan, text, final, stopped, quiet, daemon, caller, wire>>

\* Only waits look at the text.
ShowText ==
  /\ \E c \in Clients : \E i \in DOMAIN plan.ops[c] : plan.ops[c][i] = "wait"
  /\ child = "running" /\ ~text /\ text' = TRUE
  /\ UNCHANGED <<plan, child, final, stopped, quiet, daemon, caller, wire>>

Drain ==
  /\ final = "doing" /\ child = "running" /\ child' = "exited"
  /\ UNCHANGED <<plan, text, final, stopped, quiet, daemon, caller, wire>>

FinalizeEnds ==
  /\ final = "doing" /\ child = "exited" /\ final' = "done"
  /\ UNCHANGED <<plan, child, text, stopped, quiet, daemon, caller, wire>>

-----------------------------------------------------------------------------
\* The accept loop and the request.
Accept(c) ==
  /\ server = "serving" /\ listener = "open" /\ ~broken /\ conn[c] = "queued"
  /\ conn' = [conn EXCEPT ![c] = "reading"]
  /\ UNCHANGED <<plan, engine, daemon, caller, sent, reply>>

Answer(c, code) ==
  /\ conn' = [conn EXCEPT ![c] = "answered"]
  /\ reply' = [reply EXCEPT ![c] = code]

\* The write has no deadline: of an answer with a screen in it, which may be
\* larger than the socket's buffer, the rest waits until the client reads or
\* is gone.
LargeAnswer(c, code) ==
  /\ conn' = [conn EXCEPT ![c] = "writing"]
  /\ reply' = [reply EXCEPT ![c] = code]
AnyAnswer(c, code) == Answer(c, code) \/ LargeAnswer(c, code)

WriteRest(c) ==
  /\ conn[c] = "writing" /\ (plan.verb[c] # "deaf" \/ client[c] = "killed")
  /\ conn' = [conn EXCEPT ![c] = "answered"]
  /\ UNCHANGED <<plan, engine, daemon, caller, sent, reply>>

ReadRequest(c) ==
  /\ conn[c] = "reading" /\ sent[c] = "whole"
  /\ conn' = [conn EXCEPT ![c] = "running"]
  /\ UNCHANGED <<plan, engine, daemon, caller, sent, reply>>

ReadDeadline(c) ==
  /\ conn[c] = "reading" /\ sent[c] # "whole"
  /\ Answer(c, "IO_ERROR")
  /\ UNCHANGED <<plan, engine, daemon, caller, sent>>

\* The client is gone before the request is whole: nobody to answer.
ReadEOF(c) ==
  /\ conn[c] = "reading" /\ sent[c] # "whole" /\ client[c] \in {"killed", "over"}
  /\ conn' = [conn EXCEPT ![c] = "answered"]
  /\ UNCHANGED <<plan, engine, daemon, caller, sent, reply>>

-----------------------------------------------------------------------------
\* The handlers.  Runs(c, ops): the handler of one of ops is at its next step.
Runs(c, ops) == conn[c] = "running" /\ Op(c) \in ops

HandleMalformed(c) ==
  /\ Runs(c, {"malformed"}) /\ Answer(c, "INVALID_ARGUMENT")
  /\ UNCHANGED <<plan, engine, daemon, caller, sent>>

\* A query always has an answer, if only that it does not fit in a message.
HandleQuery(c) ==
  /\ Runs(c, {"query"})
  /\ AnyAnswer(c, "ok") \/ Answer(c, "INTERNAL")
  /\ UNCHANGED <<plan, engine, daemon, caller, sent>>

HandleCheck(c) ==
  /\ Runs(c, {"check"})
  /\ Answer(c, "ok") \/ AnyAnswer(c, "ASSERTION_FAILED")
  /\ UNCHANGED <<plan, engine, daemon, caller, sent>>

HandleInput(c) ==
  /\ Runs(c, {"input"})
  /\ \E code \in {"ok", "IO_ERROR"} :
       /\ code = "ok" => ~Finalized
       /\ code # "ok" => child = "exited"
       /\ Answer(c, code)
  /\ UNCHANGED <<plan, engine, daemon, caller, sent>>

\* A wait ends when the screen shows it, at its timeout, or with the session.
HandleWait(c) ==
  /\ Runs(c, {"wait"})
  /\ \/ text /\ Answer(c, "ok")
     \/ ~text /\ AnyAnswer(c, "TIMEOUT")
     \/ ~text /\ child = "exited" /\ AnyAnswer(c, "SESSION_ENDED")
  /\ UNCHANGED <<plan, engine, daemon, caller, sent>>

HandleSleep(c) ==
  /\ Runs(c, {"sleep"}) /\ Answer(c, "ok")
  /\ UNCHANGED <<plan, engine, daemon, caller, sent>>

WaitForExit(c) ==
  /\ Runs(c, {"wait_exit"}) /\ child = "exited"
  /\ BeginFinalize
  /\ conn' = [conn EXCEPT ![c] = "finalizing"]
  /\ UNCHANGED <<plan, child, text, stopped, quiet, daemon, caller, sent, reply>>

WaitForExitTimesOut(c) ==
  /\ Runs(c, {"wait_exit"}) /\ child = "running"
  /\ AnyAnswer(c, "TIMEOUT")
  /\ UNCHANGED <<plan, engine, daemon, caller, sent>>

RefuseStop(c) ==
  /\ Runs(c, {"stop_other"}) /\ Answer(c, "FAILED_PRECONDITION")
  /\ UNCHANGED <<plan, engine, daemon, caller, sent>>

AnyonesStop(c) == Runs(c, Stops \cup {"stop_other"})
OwnersStop(c) == Runs(c, Stops)

HandleStop(c) ==
  /\ OwnersStop(c)
  /\ stopped' = TRUE
  /\ quiet' = (quiet \/ Op(c) = "stop_quietly")
  /\ BeginFinalize
  /\ conn' = [conn EXCEPT ![c] = "finalizing"]
  /\ UNCHANGED <<plan, child, text, daemon, caller, sent, reply>>

\* The end of the handlers that wait for FinalizeArtifacts.
AnswerFinal(c) ==
  /\ conn[c] = "finalizing" /\ Finalized
  /\ Answer(c, IF ArtifactError THEN "IO_ERROR" ELSE "ok")
  /\ UNCHANGED <<plan, engine, daemon, caller, sent>>

Handle(c) == \/ HandleMalformed(c) \/ HandleQuery(c) \/ HandleCheck(c) \/ HandleInput(c)
             \/ HandleWait(c) \/ HandleSleep(c)
             \/ WaitForExit(c) \/ WaitForExitTimesOut(c)
             \/ RefuseStop(c) \/ HandleStop(c) \/ AnswerFinal(c)

-----------------------------------------------------------------------------
\* The end of the daemon.  Closing the listener removes the socket file and
\* resets what nobody has accepted.
CloseListener ==
  /\ listener' = "closed"
  /\ conn' = [c \in Clients |-> IF conn[c] = "queued" THEN "reset" ELSE conn[c]]

Ready ==
  /\ server = "starting" /\ server' = "serving"
  /\ UNCHANGED <<plan, engine, listener, broken, watcher, tombstone, caller, wire>>

\* The child is gone within 100 ms: start reports it and nobody is served.
BeginQuickExit ==
  /\ server = "starting" /\ child = "exited" /\ server' = "quick_exit"
  /\ BeginFinalize
  /\ UNCHANGED <<plan, child, text, stopped, quiet, listener, broken, watcher, tombstone, caller, wire>>

QuickExit ==
  /\ server = "quick_exit" /\ Finalized /\ server' = "gone"
  /\ CloseListener
  /\ UNCHANGED <<plan, engine, broken, watcher, tombstone, caller, sent, reply>>

\* The goroutine that watches the child; AfterExit is what it does next.
AfterExitStop ==
  /\ watcher' = "sleeping"
  /\ UNCHANGED final
AfterExit ==
  /\ watcher' = "finalizing"
  /\ BeginFinalize

WatchExit ==
  /\ watcher = "waiting" /\ server \in {"serving", "closing", "burying"}
  /\ plan.daemon /\ child = "exited"
  /\ AfterExit
  /\ UNCHANGED <<plan, child, text, stopped, quiet, listener, broken, server, tombstone, caller, wire>>

WatchFinal ==
  /\ watcher = "finalizing" /\ server # "gone" /\ Finalized /\ watcher' = "sleeping"
  /\ UNCHANGED <<plan, engine, listener, broken, server, tombstone, caller, wire>>

Stop ==
  /\ watcher = "sleeping" /\ server # "gone" /\ watcher' = "over"
  /\ CloseListener
  /\ UNCHANGED <<plan, engine, broken, server, tombstone, caller, sent, reply>>

\* Serve returns when no handler is left.
AcceptFails ==
  /\ plan.daemon /\ server = "serving" /\ listener = "closed" /\ server' = "draining"
  /\ UNCHANGED <<plan, engine, listener, broken, watcher, tombstone, caller, wire>>

\* Any other error ends the loop at once: the daemon goes on to its end with
\* the listener open, the child as it is and handlers at work; a run goes on
\* without anybody who accepts.
AcceptBreaks ==
  /\ plan.breaks /\ ~broken /\ broken' = TRUE
  /\ server = "serving" /\ listener = "open"
  /\ IF plan.daemon THEN server' = "closing" /\ BeginFinalize ELSE UNCHANGED <<server, final>>
  /\ UNCHANGED <<plan, child, text, stopped, quiet, listener, watcher, tombstone, caller, wire>>

Drained == \A c \in Clients : ~Open(c)

ServeReturns ==
  /\ server = "draining" /\ Drained /\ server' = "closing"
  /\ BeginFinalize
  /\ UNCHANGED <<plan, child, text, stopped, quiet, listener, broken, watcher, tombstone, caller, wire>>

WriteTombstone ==
  /\ server = "closing" /\ Finalized /\ server' = "burying"
  /\ tombstone' = IF quiet THEN "none" ELSE IF stopped THEN "stopped" ELSE "ended"
  /\ UNCHANGED <<plan, engine, listener, broken, watcher, caller, wire>>

\* The end of the process resets what was not answered.
Exit ==
  /\ server = "burying" /\ server' = "gone" /\ listener' = "closed"
  /\ LET lost == {c \in Clients : conn[c] = "queued" \/ Open(c)} IN
       /\ conn' = [c \in Clients |-> IF c \in lost THEN "reset" ELSE conn[c]]
       /\ reply' = [c \in Clients |-> IF c \in lost THEN "none" ELSE reply[c]]
  /\ UNCHANGED <<plan, engine, broken, watcher, tombstone, caller, sent>>

-----------------------------------------------------------------------------
\* The clients.  A verb of the command line looks for the socket file before
\* it dials; status then reads the tombstone, if there is one.
Reachable == listener = "open"
Looks(c) == plan.verb[c] \in {"status", "stop", "wait_exit"}

\* A stop reads first whom it will wait for; the lock file is gone with the
\* daemon.
ReadPid(c) ==
  /\ client[c] = "ready" /\ plan.verb[c] = "stop" /\ lockPid[c] = "unread"
  /\ lockPid' = [lockPid EXCEPT ![c] = IF server = "gone" THEN "other" ELSE "daemon"]
  /\ UNCHANGED <<plan, engine, daemon, client, next, outcome, wire>>

Look(c) ==
  /\ client[c] = "ready" /\ Looks(c)
  /\ plan.verb[c] = "stop" => lockPid[c] # "unread"
  /\ LET end == IF plan.verb[c] = "wait_exit" THEN "already_gone"
                ELSE IF plan.verb[c] = "status" /\ tombstone # "none" THEN "tombstone"
                ELSE "NOT_FOUND"
     IN IF Reachable
        THEN client' = [client EXCEPT ![c] = "found"] /\ UNCHANGED outcome
        ELSE /\ client' = [client EXCEPT ![c] = "over"]
             /\ outcome' = [outcome EXCEPT ![c] = end]
  /\ UNCHANGED <<plan, engine, daemon, next, lockPid, wire>>

\* What is reported when the call fails, and what twee run does before that.
Fail(c, code) ==
  /\ outcome' = [outcome EXCEPT ![c] = code]
  /\ IF plan.verb[c] = "run"
     THEN /\ client' = [client EXCEPT ![c] = "cleaning"]
          /\ IF plan.trace THEN BeginFinalize ELSE UNCHANGED final
     ELSE client' = [client EXCEPT ![c] = "over"] /\ UNCHANGED final

Dial(c) ==
  /\ client[c] = IF Looks(c) THEN "found" ELSE "ready"
  /\ IF ~Reachable
     THEN /\ Fail(c, IF plan.verb[c] = "wait_exit" THEN "already_gone" ELSE "NOT_FOUND")
          /\ UNCHANGED <<conn, sent>>
     ELSE /\ conn' = [conn EXCEPT ![c] = "queued"]
          /\ sent' = [sent EXCEPT ![c] = "nothing"]
          /\ UNCHANGED final
          /\ IF plan.ops[c] = <<>>  \* an empty script only knocks
             THEN /\ client' = [client EXCEPT ![c] = "over"]
                  /\ outcome' = [outcome EXCEPT ![c] = "ok"]
             ELSE client' = [client EXCEPT ![c] = "calling"] /\ UNCHANGED outcome
  /\ UNCHANGED <<plan, child, text, stopped, quiet, daemon, next, lockPid, reply>>

Send(c) ==
  /\ client[c] = "calling" /\ conn[c] # "none" /\ sent[c] # "whole"
  /\ \E much \in {"part", "whole"} \ {sent[c]} :
       /\ plan.verb[c] = "mute" => much = "part"
       /\ sent' = [sent EXCEPT ![c] = much]
  /\ UNCHANGED <<plan, engine, daemon, caller, conn, reply>>

\* The answer: the next operation of the script, its end, or its failure.
Advance(c) ==
  IF reply[c] # "ok" THEN Fail(c, reply[c]) /\ UNCHANGED next
  ELSE IF next[c] < Len(plan.ops[c])
  THEN /\ next' = [next EXCEPT ![c] = @ + 1]
       /\ client' = [client EXCEPT ![c] = "ready"]
       /\ UNCHANGED <<outcome, final>>
  ELSE /\ UNCHANGED next
       /\ CASE plan.verb[c] = "stop" ->
                 /\ client' = [client EXCEPT ![c] = "exiting"]
                 /\ UNCHANGED <<outcome, final>>
            [] plan.verb[c] = "run" ->
                 /\ client' = [client EXCEPT ![c] = "saving"]
                 /\ IF plan.trace THEN BeginFinalize ELSE UNCHANGED final
                 /\ UNCHANGED outcome
            [] OTHER ->
                 /\ client' = [client EXCEPT ![c] = "over"]
                 /\ outcome' = [outcome EXCEPT ![c] = "ok"]
                 /\ UNCHANGED final

Receive(c) ==
  /\ client[c] = "calling" /\ conn[c] = "answered" /\ plan.verb[c] # "deaf"
  /\ Advance(c)
  /\ conn' = [conn EXCEPT ![c] = "none"]
  /\ reply' = [reply EXCEPT ![c] = "none"]
  /\ UNCHANGED <<plan, child, text, stopped, quiet, daemon, lockPid, sent>>

\* Neither the write nor the read finds a daemon at the other end.
ReceiveReset(c) ==
  /\ client[c] = "calling" /\ conn[c] = "reset"
  /\ Fail(c, "IO_ERROR")
  /\ conn' = [conn EXCEPT ![c] = "none"]
  /\ UNCHANGED <<plan, child, text, stopped, quiet, daemon, next, lockPid, sent, reply>>

\* A stop that was answered waits until the process is gone whose pid it has
\* read, if it has read one.
AwaitExit(c) ==
  /\ client[c] = "exiting"
  /\ client' = [client EXCEPT ![c] = "over"]
  /\ \E code \in {"ok", "IO_ERROR"} :
       /\ lockPid[c] = "daemon" => (code = "ok" <=> server = "gone")
       /\ outcome' = [outcome EXCEPT ![c] = code]
  /\ UNCHANGED <<plan, engine, daemon, next, lockPid, wire>>

Killed(c) ==
  /\ c \in plan.killed /\ client[c] \in {"calling", "exiting"}
  /\ client' = [client EXCEPT ![c] = "killed"]
  /\ UNCHANGED <<plan, engine, daemon, next, outcome, lockPid, wire>>

\* twee run: the trace is saved before the result is printed, then the
\* session is taken down.
Saved == plan.trace => Finalized
SaveTrace(c) ==
  /\ client[c] = "saving" /\ Saved
  /\ client' = [client EXCEPT ![c] = "cleaning"]
  /\ outcome' = [outcome EXCEPT ![c] = IF ArtifactError THEN "IO_ERROR" ELSE "ok"]
  /\ UNCHANGED <<plan, engine, daemon, next, lockPid, wire>>

CloseTerm(c) ==
  /\ client' = [client EXCEPT ![c] = "closing"]
  /\ BeginFinalize
TermClosed == Finalized

Clean(c) ==
  /\ client[c] = "cleaning" /\ Saved
  /\ CloseListener
  /\ CloseTerm(c)
  /\ UNCHANGED <<plan, child, text, stopped, quiet, broken, watcher, server, tombstone, next, outcome, lockPid, sent, reply>>

RunExits(c) ==
  /\ client[c] = "closing" /\ TermClosed
  /\ client' = [client EXCEPT ![c] = "over"]
  /\ server' = "gone"
  /\ UNCHANGED <<plan, engine, listener, broken, watcher, tombstone, next, outcome, lockPid, wire>>

Call(c) == ReadPid(c) \/ Look(c) \/ Dial(c) \/ Send(c) \/ Receive(c) \/ ReceiveReset(c)
Finish(c) == AwaitExit(c) \/ SaveTrace(c) \/ Clean(c) \/ RunExits(c)
Serve(c) == \/ Accept(c) \/ ReadRequest(c) \/ ReadDeadline(c) \/ ReadEOF(c)
            \/ Handle(c) \/ WriteRest(c)
Teardown == \/ Ready \/ BeginQuickExit \/ QuickExit
            \/ WatchExit \/ WatchFinal \/ Stop
            \/ AcceptFails \/ ServeReturns \/ WriteTombstone \/ Exit
Next ==
  \/ ChildExits \/ ShowText \/ Drain \/ FinalizeEnds \/ Teardown \/ AcceptBreaks
  \/ \E c \in Clients : Call(c) \/ Finish(c) \/ Serve(c) \/ Killed(c)

\* Goroutines are scheduled, sleeps and deadlines end, a killed child dies and
\* its output ends; a client that is not mute sends its request, and one that
\* is not deaf reads the answer.  Nothing makes the child exit by itself.
Fairness ==
  /\ WF_vars(Drain) /\ WF_vars(FinalizeEnds)
  /\ WF_vars(Teardown)
  /\ \A c \in Clients : WF_vars(Serve(c)) /\ WF_vars(Call(c)) /\ WF_vars(Finish(c))
Spec == Init /\ [][Next]_vars /\ Fairness

-----------------------------------------------------------------------------
TypeOK ==
  /\ plan \in Plans
  /\ child \in {"running", "exited"} /\ text \in BOOLEAN
  /\ final \in {"no", "doing", "done"} /\ (Finalized => child = "exited")
  /\ stopped \in BOOLEAN /\ quiet \in BOOLEAN
  /\ listener \in {"open", "closed"} /\ broken \in BOOLEAN
  /\ watcher \in {"waiting", "finalizing", "sleeping", "over"}
  /\ server \in {"starting", "quick_exit", "serving", "draining", "closing", "burying", "gone"}
  /\ tombstone \in {"none", "stopped", "ended"}
  /\ client \in [Clients -> {"ready", "found", "calling", "exiting", "saving",
                             "cleaning", "closing", "over", "killed"}]
  /\ \A c \in Clients : next[c] \in 1 .. Len(plan.ops[c]) + 1
  /\ lockPid \in [Clients -> {"unread", "daemon", "other"}]
  /\ conn \in [Clients -> {"none", "queued", "reading", "running", "finalizing",
                           "writing", "answered", "reset"}]
  /\ sent \in [Clients -> {"nothing", "part", "whole"}]

\* Success of wait exit, of stop and of a run with a trace means that the
\* child is dead and its artifacts are on disk, whoever finalized them
\* (handlers_wait.go:147-152, handlers_lifecycle.go:67, cmd_run.go:96-105).
SuccessIsDurable ==
  \A c \in Clients :
    (\/ plan.verb[c] = "wait_exit" /\ outcome[c] = "ok"
     \/ /\ conn[c] = "answered" /\ reply[c] = "ok"
        /\ Op(c) \in Stops \cup {"wait_exit"}
     \/ plan.verb[c] = "run" /\ plan.trace /\ outcome[c] = "ok")
    => child = "exited" /\ Finalized /\ ~ArtifactError

\* A trace is on disk before clients can no longer ask for it: the socket
\* goes away only when the finalization is over (daemonize.go:235-239).
DurableBeforeDeaf == listener = "closed" /\ plan.trace => Finalized

\* When the tombstone is written, every request that was accepted has had its
\* answer, so that a stop still in its handler is in the tombstone
\* (server.go:48-52, daemonize.go:244-247), unless Accept has failed.  A stop
\* that succeeded leaves a dead child, and a dead daemon if it is its pid that
\* the stop had read; and then a tombstone that says so, unless it was asked
\* not to or Accept has failed.
StopIsTold ==
  /\ server \in {"burying", "gone"} => Drained \/ broken
  /\ \A c \in Clients :
       plan.verb[c] = "stop" /\ outcome[c] = "ok" =>
         /\ stopped /\ child = "exited"
         /\ lockPid[c] = "daemon" => server = "gone"
         /\ server = "gone" /\ ~broken =>
              tombstone = IF quiet THEN "none" ELSE "stopped"

\* Only a stop that owns the session's generation marks it as stopped, and
\* only it, twee run or a failing Accept makes anyone else kill a running
\* child (handlers_lifecycle.go:43-48, server.go:54).
StopIsOwned ==
  /\ stopped => \E c \in Clients : \E i \in DOMAIN plan.ops[c] :
                  i <= next[c] /\ plan.ops[c][i] \in Stops
  /\ (final # "no" /\ child = "running" /\ plan.daemon => stopped \/ broken)

\* twee run takes down what it started: when its process ends the child is
\* dead and drained and nobody can call it (cmd_run.go:106-120).
RunLeavesNothing ==
  ~plan.daemon /\ server = "gone" => Finalized /\ child = "exited" /\ listener = "closed"

\* Who is told that a session has ended can rely on it: what they asked for is
\* done and on disk, and nothing of it is left.
EndIsDurable == TypeOK /\ SuccessIsDurable /\ DurableBeforeDeaf /\ RunLeavesNothing

\* As long as connections can be accepted, a session is stopped by its owner
\* and by nobody else, and what is left of it says so.
EndIsOwned == StopIsTold /\ StopIsOwned

\* Once the child is gone the daemon ends, whatever a client leaves unsent
\* (server.go:67-70), unless one of them never reads a large answer.
Unread(c) == plan.verb[c] = "deaf" /\ conn[c] = "writing" /\ client[c] # "killed"
DaemonEnds ==
  (plan.daemon /\ child = "exited") ~> (server = "gone" \/ [](\E c \in Clients : Unread(c)))

\* Every call comes back, unless its client is killed or does not read: also
\* the calls that the end of the listener or of the process finds on their way,
\* and those of a child that never exits.  A run whose Accept has failed waits
\* for itself.
CallsReturn ==
  \A c \in Clients :
    (/\ plan.verb[c] # "deaf"
     /\ client[c] \in {"found", "calling", "exiting", "saving", "cleaning", "closing"})
    ~> (client[c] \in {"ready", "over", "killed"} \/ (broken /\ ~plan.daemon))

=============================================================================
