---------------------------- MODULE ProcessGroup ----------------------------
(***************************************************************************)
(* The process group of a local session on Linux                           *)
(* (internal/ptyrunner): the goroutine that waits for the group's leader,  *)
(* the close of the runner with its grace period, the context watcher of   *)
(* exec.Cmd, and callers that send signals.  They share processGroup.mu.   *)
(*                                                                         *)
(* The kernel gives the group's number to somebody else once the leader is *)
(* reaped and no member of the group is left.  A leader that has exited    *)
(* and is not reaped (a zombie) keeps the number.                          *)
(***************************************************************************)
EXTENDS FiniteSets

CONSTANTS
  Callers,      \* goroutines that send a signal or resize
  Closer,       \* the goroutine inside CloseWithGrace
  Watcher,      \* the goroutine of exec.CommandContext
  Waiter,       \* the goroutine of localBackend.wait
  Descendants,  \* processes the leader and its descendants may fork
  None,         \* owner of the free mutex
  WaitMayFail   \* TRUE: waitid may fail

Procs == Callers \cup {Closer, Watcher, Waiter}

ASSUME GroupAssumption ==
  /\ Closer # Watcher /\ Closer # Waiter /\ Watcher # Waiter
  /\ {Closer, Watcher, Waiter} \cap Callers = {}
  /\ None \notin Procs /\ WaitMayFail \in BOOLEAN

VARIABLES
  leader,     \* "running", "zombie", "reaped"
  members,    \* living descendants in the group
  unborn,     \* descendants not yet forked
  stranger,   \* the group's number names another group
  cancelled,  \* the context is cancelled
  mu,         \* owner of processGroup.mu while it sends a signal
  pgid,       \* TRUE: processGroup.pgid holds the number (FALSE: 0)
  exited,     \* processGroup.exited
  started,    \* startedCh is closed
  exitedCh,   \* processGroup.exitedCh is closed
  published,  \* Runner.ExitedCh is closed
  released,   \* releaseCh is closed
  reaped,     \* localBackend.reaped is closed
  waitFailed, \* waitid has failed
  pc,         \* per goroutine: its next step
  sending     \* per goroutine: the signal it is about to send under mu

kernel   == <<leader, members, unborn, stranger>>
channels == <<started, exitedCh, published, released, reaped>>
groupVars == <<kernel, cancelled, mu, pgid, exited, channels, waitFailed, pc, sending>>

GroupInit ==
  /\ leader = "running" /\ members = {} /\ unborn = Descendants /\ stranger = FALSE
  /\ cancelled = FALSE /\ mu = None /\ pgid = FALSE /\ exited = FALSE
  /\ started = FALSE /\ exitedCh = FALSE /\ published = FALSE
  /\ released = FALSE /\ reaped = FALSE /\ waitFailed = FALSE
  /\ pc = [p \in Procs |-> IF p = Waiter THEN "start" ELSE "idle"]
  /\ sending = [p \in Procs |-> "none"]

Goto(p, step) == pc' = [pc EXCEPT ![p] = step]

-----------------------------------------------------------------------------
(* The kernel, the user's processes and the context.                        *)

goroutines == <<mu, pgid, exited, channels, waitFailed, pc, sending>>

Fork(d) ==
  /\ d \in unborn /\ (leader = "running" \/ members # {})
  /\ unborn' = unborn \ {d} /\ members' = members \cup {d}
  /\ UNCHANGED <<leader, stranger, cancelled, goroutines>>

(* A descendant exits or leaves the group.                                  *)
Leave(d) ==
  /\ d \in members /\ members' = members \ {d}
  /\ UNCHANGED <<leader, unborn, stranger, cancelled, goroutines>>

LeaderExits ==
  /\ leader = "running" /\ leader' = "zombie"
  /\ UNCHANGED <<members, unborn, stranger, cancelled, goroutines>>

Recycle ==
  /\ leader = "reaped" /\ members = {} /\ ~stranger
  /\ stranger' = TRUE
  /\ UNCHANGED <<leader, members, unborn, cancelled, goroutines>>

Cancel ==
  /\ ~cancelled /\ cancelled' = TRUE
  /\ UNCHANGED <<kernel, goroutines>>

-----------------------------------------------------------------------------
(* Signals.  The watcher runs since cmd.Start, before the number is known;  *)
(* everybody else has the Runner, which Start returns after the goroutine   *)
(* of wait is there.                                                        *)

(* processGroup.started, in Start.                                          *)
Started ==
  /\ pc[Waiter] = "start" /\ mu = None
  /\ pgid' = TRUE /\ started' = TRUE /\ Goto(Waiter, "waitid")
  /\ UNCHANGED <<kernel, cancelled, mu, exited, exitedCh, published, released, reaped,
                 waitFailed, sending>>

(* Variant of MaySend: SIGWINCH is sent to a group whose leader has exited. *)
MaySendLate(s) == pgid

(* The conditions under which signal and resizeSignal call kill; otherwise  *)
(* they return ErrProcessDone.                                              *)
MaySend(s) == pgid /\ (s = "WINCH" => ~exited)

(* processGroup.signal and resizeSignal: wait for startedCh, take mu, read  *)
(* pgid.  mu is kept until the signal is sent.                              *)
Lock(p, s) ==
  /\ started /\ mu = None
  /\ IF MaySend(s) THEN mu' = p /\ sending' = [sending EXCEPT ![p] = s]
     ELSE UNCHANGED <<mu, sending>>

(* The step after a signal is sent or refused.                              *)
After(step) == CASE step = "term"   -> "grace"
                 [] step = "kill"   -> "release"
                 [] step = "cancel" -> "gone"
                 [] OTHER           -> "idle"

TrySend(p, s) ==
  /\ Lock(p, s)
  /\ IF mu' = p THEN UNCHANGED pc ELSE Goto(p, After(pc[p]))
  /\ UNCHANGED <<kernel, cancelled, pgid, exited, channels, waitFailed>>

(* kill(-pgid, sig) and Unlock.  SIGKILL ends the whole group, SIGWINCH     *)
(* nobody, any other signal those who do not handle it.                     *)
SendSignal(p) ==
  /\ mu = p
  /\ \E dies \in BOOLEAN, dead \in SUBSET members :
       /\ sending[p] = "KILL" /\ ~stranger => dies /\ dead = members
       /\ sending[p] = "WINCH" \/ stranger => ~dies /\ dead = {}
       /\ leader' = IF dies /\ leader = "running" THEN "zombie" ELSE leader
       /\ members' = members \ dead
  /\ mu' = None /\ sending' = [sending EXCEPT ![p] = "none"]
  /\ Goto(p, After(pc[p]))
  /\ UNCHANGED <<unborn, stranger, cancelled, pgid, exited, channels, waitFailed>>

(* Runner.Signal.                                                           *)
Signal(c) == c \in Callers /\ pc[c] = "idle" /\ mu # c /\ TrySend(c, "USER")

(* Runner.Resize: the look at ExitedCh and the window size, then the signal *)
Resize(c) ==
  /\ c \in Callers /\ pc[c] = "idle" /\ mu # c /\ started /\ ~published
  /\ Goto(c, "winch")
  /\ UNCHANGED <<kernel, cancelled, mu, pgid, exited, channels, waitFailed, sending>>

ResizeSignal(c) == pc[c] = "winch" /\ TrySend(c, "WINCH")

(* exec.Cmd calls Cancel, which is group.signal(SIGKILL).                   *)
WatchContext ==
  /\ pc[Watcher] = "idle" /\ cancelled
  /\ Goto(Watcher, "cancel")
  /\ UNCHANGED <<kernel, cancelled, mu, pgid, exited, channels, waitFailed, sending>>

CancelKill == pc[Watcher] = "cancel" /\ TrySend(Watcher, "KILL")

-----------------------------------------------------------------------------
(* processGroup.wait.                                                       *)

(* waitid has returned: the leader is a zombie.                             *)
LeaderExited ==
  /\ pc[Waiter] = "waitid" /\ leader = "zombie" /\ mu = None
  /\ exited' = TRUE /\ Goto(Waiter, "close")
  /\ UNCHANGED <<kernel, cancelled, mu, pgid, channels, waitFailed, sending>>

(* waitid has failed: forget the number, reap at once.                      *)
WaitFails ==
  /\ pc[Waiter] = "waitid" /\ WaitMayFail /\ mu = None
  /\ waitFailed' = TRUE /\ exited' = TRUE /\ pgid' = FALSE
  /\ Goto(Waiter, "reap")
  /\ UNCHANGED <<kernel, cancelled, mu, channels, sending>>

CloseExitedCh ==
  /\ pc[Waiter] = "close"
  /\ exitedCh' = TRUE /\ Goto(Waiter, "notify")
  /\ UNCHANGED <<kernel, cancelled, mu, pgid, exited, started, published, released, reaped,
                 waitFailed, sending>>

(* The callback of localBackend.wait.                                       *)
Notify ==
  /\ pc[Waiter] = "notify"
  /\ published' = TRUE /\ Goto(Waiter, IF waitFailed THEN "end" ELSE "forget")
  /\ UNCHANGED <<kernel, cancelled, mu, pgid, exited, started, exitedCh, released, reaped,
                 waitFailed, sending>>

ForgetUnchanged == UNCHANGED <<kernel, cancelled, exited, channels, waitFailed, sending>>

(* Variants of Forget: without mu, without the wait for the release, and    *)
(* with mu kept while Cmd.Wait runs.                                        *)
ForgetUnlocked ==
  /\ pc[Waiter] = "forget" /\ released
  /\ pgid' = FALSE /\ Goto(Waiter, "reap") /\ UNCHANGED mu /\ ForgetUnchanged

ForgetLocked ==
  /\ pc[Waiter] = "forget" /\ released /\ mu = None
  /\ pgid' = FALSE /\ Goto(Waiter, "reap") /\ mu' = Waiter /\ ForgetUnchanged

(* After releaseCh is closed, disable signals.                              *)
Forget ==
  /\ pc[Waiter] = "forget" /\ released /\ mu = None
  /\ pgid' = FALSE /\ Goto(Waiter, "reap") /\ UNCHANGED mu /\ ForgetUnchanged

(* Cmd.Wait reaps the leader and then joins the context watcher.            *)
Reap ==
  /\ pc[Waiter] = "reap" /\ leader = "zombie"
  /\ leader' = "reaped" /\ Goto(Waiter, "join")
  /\ UNCHANGED <<members, unborn, stranger, cancelled, mu, pgid, exited, channels,
                 waitFailed, sending>>

JoinWatcher ==
  /\ pc[Waiter] = "join" /\ pc[Watcher] \in {"idle", "gone"}
  /\ pc' = [pc EXCEPT ![Watcher] = "gone", ![Waiter] = IF waitFailed THEN "close" ELSE "end"]
  /\ UNCHANGED <<kernel, cancelled, mu, pgid, exited, channels, waitFailed, sending>>

CloseReaped ==
  /\ pc[Waiter] = "end"
  /\ reaped' = TRUE /\ Goto(Waiter, "done")
  /\ UNCHANGED <<kernel, cancelled, mu, pgid, exited, started, exitedCh, published, released,
                 waitFailed, sending>>

-----------------------------------------------------------------------------
(* localBackend.closeWithGrace, once per runner.                            *)

closing == <<kernel, cancelled, mu, pgid, exited, started, exitedCh, published, reaped,
             waitFailed, sending>>

BeginClose ==
  /\ pc[Closer] = "idle" /\ started /\ Goto(Closer, "term")
  /\ UNCHANGED <<closing, released>>

Terminate == pc[Closer] = "term" /\ TrySend(Closer, "TERM")

(* Variant of ExitSeen: an exit is enough, as on other systems.             *)
ExitSeenAnyhow == exitedCh

(* waitDone answers TRUE: the leader has exited and its number is gone.     *)
ExitSeen == exitedCh /\ mu = None /\ ~pgid

(* waitDone: TRUE skips the SIGKILL; FALSE when the timer has fired, the    *)
(* grace period is zero or the number is still there.                       *)
WaitDone ==
  /\ pc[Closer] = "grace"
  /\ \/ ExitSeen /\ Goto(Closer, "release")
     \/ Goto(Closer, "kill")
  /\ UNCHANGED <<closing, released>>

Kill == pc[Closer] = "kill" /\ TrySend(Closer, "KILL")

Release ==
  /\ pc[Closer] = "release"
  /\ released' = TRUE /\ Goto(Closer, "join")
  /\ UNCHANGED closing

(* The select on reaped and the two-second timer.                           *)
JoinWaiter ==
  /\ pc[Closer] = "join" /\ Goto(Closer, "done")
  /\ UNCHANGED <<closing, released>>

-----------------------------------------------------------------------------
GroupNext ==
  \/ LeaderExits \/ Recycle \/ Cancel \/ Started
  \/ \E d \in Descendants : Fork(d) \/ Leave(d)
  \/ \E c \in Callers : Signal(c) \/ Resize(c) \/ ResizeSignal(c)
  \/ \E p \in Procs : SendSignal(p)
  \/ WatchContext \/ CancelKill
  \/ LeaderExited \/ WaitFails \/ CloseExitedCh \/ Notify
  \/ Forget \/ Reap \/ JoinWatcher \/ CloseReaped
  \/ BeginClose \/ Terminate \/ WaitDone \/ Kill \/ Release \/ JoinWaiter

(* Goroutines run, and sync.Mutex hands a starving waiter the lock.         *)
GroupFairness ==
  /\ WF_groupVars(Started) /\ \A p \in Procs : WF_groupVars(SendSignal(p))
  /\ WF_groupVars(WatchContext) /\ SF_groupVars(CancelKill)
  /\ SF_groupVars(LeaderExited) /\ WF_groupVars(CloseExitedCh) /\ WF_groupVars(Notify)
  /\ SF_groupVars(Forget) /\ WF_groupVars(Reap) /\ WF_groupVars(JoinWatcher) /\ WF_groupVars(CloseReaped)
  /\ SF_groupVars(Terminate) /\ WF_groupVars(WaitDone) /\ SF_groupVars(Kill)
  /\ WF_groupVars(Release) /\ WF_groupVars(JoinWaiter)

GroupSpec == GroupInit /\ [][GroupNext]_groupVars /\ GroupFairness

-----------------------------------------------------------------------------
(* Types; the goroutine that is about to send a signal owns mu.             *)
GroupTypeOK ==
  /\ leader \in {"running", "zombie", "reaped"}
  /\ members \subseteq Descendants /\ unborn \subseteq Descendants \ members
  /\ {stranger, cancelled, pgid, exited, started, exitedCh, published, released, reaped,
      waitFailed} \subseteq BOOLEAN
  /\ mu \in Procs \cup {None}
  /\ pc \in [Procs -> {"idle", "winch", "cancel", "gone", "term", "grace", "kill", "release",
                       "join", "done", "start", "waitid", "close", "notify", "forget", "reap",
                       "end"}]
  /\ sending \in [Procs -> {"none", "USER", "WINCH", "TERM", "KILL"}]
  /\ \A p \in Procs : sending[p] # "none" => mu = p

(* process_group_linux.go:19-21, 85-86: the number signals go to is never   *)
(* that of another group.                                                   *)
NoForeignSignal == \A p \in Procs : sending[p] # "none" => ~stranger

(* runner.go:322-325: until Close releases it, the leader stays waitable    *)
(* and signals still go to the group, whether the leader runs or not.       *)
LeaderPinned == started /\ ~released /\ ~waitFailed => pgid /\ leader # "reaped"

(* process_group_linux.go:64-70: whoever has seen the exit of the leader    *)
(* sees no SIGWINCH after it.                                               *)
NoLateWinch == published => \A p \in Procs : sending[p] # "WINCH"

(* process_group_linux.go:154-155: when the close has released the number,  *)
(* no process of the group is left, even if the leader exited within the    *)
(* grace period and descendants did not.                                    *)
NobodySurvivesClose == released /\ ~waitFailed => leader # "running" /\ members = {}

(* The close reaps the leader, although the context may be cancelled while  *)
(* Cmd.Wait joins its watcher (process_group_linux.go:109-110).             *)
CloseReaps == pc[Closer] # "idle" ~> reaped \/ waitFailed

(* A context that is cancelled, even before the number is known, kills the  *)
(* leader (runner.go:122-125).                                              *)
CancelKills == cancelled ~> leader # "running" \/ waitFailed

(* Neither a close nor a cancel is lost, whatever holds the mutex.          *)
GroupEnds == CloseReaps /\ CancelKills
=============================================================================
