---------------------------- MODULE SessionLock ----------------------------
(***************************************************************************)
(* One session name and the files that stand for it in the state           *)
(* directory: <name>.lock (flocked by the generation that owns the name),  *)
(* <name>.sock and <name>.exited (the tombstone).  The processes are the   *)
(* "twee start" commands, each with the daemon it spawns, the clients that *)
(* run "twee stop" and "twee ls", and the crash of any daemon.  What is    *)
(* seen of a file and what is done to it are steps of their own.           *)
(*                                                                         *)
(* A start and its daemon share one open file description of the lock, so  *)
(* they are one holder, and their token is the start's own name.           *)
(***************************************************************************)
EXTENDS Naturals, Sequences

CONSTANTS
  Starts,        \* "twee start" commands; each is a generation of the name
  Clients,       \* "twee stop" and "twee ls" commands
  None,          \* no process, no generation
  Attempts,      \* tries of acquireSessionLock (5 in the code)
  MaxCrashes,    \* bound: daemons killed without cleaning up
  WaitTimesOut   \* TRUE: waitForPIDExit may give up after three seconds

ASSUME LockAssumption ==
  /\ Starts \cap Clients = {} /\ None \notin Starts \cup Clients
  /\ Attempts \in Nat \ {0} /\ MaxCrashes \in Nat /\ WaitTimesOut \in BOOLEAN

Procs == Starts \cup Clients

VARIABLES
  pc,         \* next step of each process
  lockFiles,  \* every lock file created: its flock holder and its contents
  lockPath,   \* the lock file <name>.lock names (0: none)
  fd, tries,  \* per process: lock file it has open, attempts it has made
  sock,       \* generation whose socket <name>.sock is (None: no file)
  listening,  \* generations whose listener is open
  tomb,       \* generation <name>.exited describes
  child,      \* generations whose managed child is alive
  ready,      \* generations that passed the start-up window
  report,     \* what each start command has reported
  pid, peer,  \* per stopper: process it waits for, generation it stopped
  suppressed, \* generations stopped by "stop --all"
  crashes     \* daemons killed so far

files == <<lockFiles, lockPath, sock, tomb>>
sess  == <<listening, child, ready, suppressed, crashes>>
local == <<fd, tries, report, pid, peer>>
vars  == <<pc, files, sess, local>>

-----------------------------------------------------------------------------
NoPid == <<"nobody", None>>

Goto(p, step) == pc' = [pc EXCEPT ![p] = step]

(* readLockMetadata: the token in the file <name>.lock names now.           *)
PathToken == IF lockPath = 0 THEN None ELSE lockFiles[lockPath].token

(* Steps of a start or its daemon between taking and giving up the name.    *)
OwnerSteps == {"writeMeta", "launcherMeta", "clearTomb", "spawn", "adopt", "daemonMeta",
               "clearSock", "engine", "listen", "window", "serve", "closeSock",
               "tombCheck", "tombWrite", "removeCheck", "removeSock", "removeLock"}
Owns(s) == pc[s] \in OwnerSteps

(* A daemon's process has ended; a start's launcher has once it reported.   *)
Alive(who) == \/ who[1] = "launcher" /\ report[who[2]] = "none"
              \/ who[1] = "daemon" /\ pc[who[2]] # "gone"

Init ==
  /\ pc = [p \in Procs |-> "idle"]
  /\ lockFiles = <<>> /\ lockPath = 0
  /\ fd = [p \in Procs |-> 0] /\ tries = [p \in Procs |-> 0]
  /\ sock = None /\ listening = {} /\ tomb = None
  /\ child = {} /\ ready = {} /\ suppressed = {} /\ crashes = 0
  /\ report = [s \in Starts |-> "none"]
  /\ pid = [p \in Procs |-> NoPid] /\ peer = [p \in Procs |-> None]

-----------------------------------------------------------------------------
(* acquireSessionLock *)

BeginStart(s) ==
  /\ pc[s] = "idle" /\ Goto(s, "open")
  /\ UNCHANGED <<files, sess, local>>

OpenLock(s) ==
  /\ pc[s] = "open"
  /\ tries' = [tries EXCEPT ![s] = @ + 1]
  /\ IF lockPath = 0
     THEN /\ lockFiles' = Append(lockFiles, [holder |-> None, token |-> None, role |-> "none"])
          /\ lockPath' = Len(lockFiles) + 1
     ELSE UNCHANGED <<lockFiles, lockPath>>
  /\ fd' = [fd EXCEPT ![s] = lockPath']
  /\ Goto(s, "flock")
  /\ UNCHANGED <<sock, tomb, sess, report, pid, peer>>

(* The lock files when the one p has open is locked or unlocked.            *)
Locked(p, holder) == [lockFiles EXCEPT ![fd[p]].holder = holder]
Unlocked(p) == Locked(p, None)

Flock(s) ==
  /\ pc[s] = "flock"
  /\ IF lockFiles[fd[s]].holder = None
     THEN /\ lockFiles' = Locked(s, s)
          /\ Goto(s, "verify")
          /\ UNCHANGED report
     ELSE /\ Goto(s, "gone")
          /\ report' = [report EXCEPT ![s] = "running"]
          /\ UNCHANGED lockFiles
  /\ UNCHANGED <<lockPath, sock, tomb, sess, fd, tries, pid, peer>>

(* Variant: the path is not compared with the file that was locked.         *)
VerifyNothing(s) ==
  /\ pc[s] = "verify"
  /\ Goto(s, "writeMeta")
  /\ UNCHANGED <<files, sess, local>>

(* The lock counts only if the path still names the file that was locked.   *)
VerifyPath(s) ==
  /\ pc[s] = "verify"
  /\ IF lockPath = fd[s]
     THEN Goto(s, "writeMeta") /\ UNCHANGED <<lockFiles, report>>
     ELSE /\ lockFiles' = Unlocked(s)
          /\ IF tries[s] < Attempts
             THEN Goto(s, "open") /\ UNCHANGED report
             ELSE Goto(s, "gone") /\ report' = [report EXCEPT ![s] = "failed"]
  /\ UNCHANGED <<lockPath, sock, tomb, sess, fd, tries, pid, peer>>

(* A call on the lock file fails: the file, if there is one, stays.         *)
AcquireFails(s) ==
  /\ pc[s] \in {"open", "flock", "verify"}
  /\ lockFiles' = IF pc[s] = "verify" THEN Unlocked(s) ELSE lockFiles
  /\ report' = [report EXCEPT ![s] = "failed"]
  /\ Goto(s, "gone")
  /\ UNCHANGED <<lockPath, sock, tomb, sess, fd, tries, pid, peer>>

-----------------------------------------------------------------------------
(* daemonize and the start of the daemon child.  writeLockMetadata empties  *)
(* the file before it writes.                                               *)

WriteMeta(s, token, role) ==
  lockFiles' = [lockFiles EXCEPT ![fd[s]] = [@ EXCEPT !.token = token, !.role = role]]

LauncherClears(s) ==
  /\ pc[s] = "writeMeta" /\ WriteMeta(s, None, "none") /\ Goto(s, "launcherMeta")
  /\ UNCHANGED <<lockPath, sock, tomb, sess, local>>

LauncherMeta(s) ==
  /\ pc[s] = "launcherMeta" /\ WriteMeta(s, s, "launcher") /\ Goto(s, "clearTomb")
  /\ UNCHANGED <<lockPath, sock, tomb, sess, local>>

(* No token, or the file cannot be written: it is closed and stays.         *)
LauncherFails(s) ==
  /\ pc[s] \in {"writeMeta", "launcherMeta"} /\ Goto(s, "unlock")
  /\ UNCHANGED <<files, sess, local>>

(* Variant: an old tombstone is left for the new session.                   *)
KeepTombstone(s) ==
  /\ pc[s] = "clearTomb" /\ Goto(s, "spawn")
  /\ UNCHANGED <<files, sess, local>>

RemoveTombstone(s) ==
  /\ pc[s] = "clearTomb" /\ tomb' = None /\ Goto(s, "spawn")
  /\ UNCHANGED <<lockFiles, lockPath, sock, sess, local>>

(* The pipe, the executable's path or the process may fail.                 *)
Spawn(s) ==
  /\ pc[s] = "spawn"
  /\ Goto(s, "adopt") \/ Goto(s, "removeCheck")
  /\ UNCHANGED <<files, sess, local>>

(* The daemon reads its token and puts its own pid in the launcher's place. *)
DaemonClears(s) ==
  /\ pc[s] = "adopt" /\ WriteMeta(s, None, "none") /\ Goto(s, "daemonMeta")
  /\ UNCHANGED <<lockPath, sock, tomb, sess, local>>

DaemonMeta(s) ==
  /\ pc[s] = "daemonMeta" /\ WriteMeta(s, s, "daemon") /\ Goto(s, "clearSock")
  /\ UNCHANGED <<lockPath, sock, tomb, sess, local>>

(* failDaemonStartup reads the token once more: if it is not there, or not  *)
(* to be read, nothing is removed.                                          *)
DaemonFails(s) ==
  /\ \/ pc[s] = "adopt" /\ Goto(s, "removeCheck")
     \/ pc[s] \in {"adopt", "daemonMeta"} /\ Goto(s, "unlock")
  /\ UNCHANGED <<files, sess, local>>

RemoveStaleSocket(s) ==
  /\ pc[s] = "clearSock" /\ sock' = None /\ Goto(s, "engine")
  /\ UNCHANGED <<lockFiles, lockPath, tomb, sess, local>>

EngineStart(s) ==
  /\ pc[s] = "engine"
  /\ \/ child' = child \cup {s} /\ Goto(s, "listen")
     \/ UNCHANGED child /\ Goto(s, "removeCheck")
  /\ UNCHANGED <<files, listening, ready, suppressed, crashes, local>>

(* bind fails when the path exists.                                         *)
Listen(s) ==
  /\ pc[s] = "listen"
  /\ IF sock = None
     THEN sock' = s /\ listening' = listening \cup {s} /\ Goto(s, "window")
          /\ UNCHANGED child
     ELSE child' = child \ {s} /\ Goto(s, "removeCheck") /\ UNCHANGED <<sock, listening>>
  /\ UNCHANGED <<lockFiles, lockPath, tomb, ready, suppressed, crashes, local>>

(* After 100 ms the daemon tells the launcher that it is ready ...          *)
ReportReady(s) ==
  /\ pc[s] = "window"
  /\ ready' = ready \cup {s}
  /\ report' = [report EXCEPT ![s] = IF @ = "none" THEN "ready" ELSE @]
  /\ Goto(s, "serve")
  /\ UNCHANGED <<files, listening, child, suppressed, crashes, fd, tries, pid, peer>>

(* ... unless the child has exited by then.                                 *)
QuickExit(s) ==
  /\ pc[s] = "window" /\ s \notin child
  /\ Goto(s, "closeSock")
  /\ UNCHANGED <<files, sess, local>>

(* The launcher waits ten seconds for that.                                 *)
LauncherGivesUp(s) ==
  /\ report[s] = "none"
  /\ pc[s] \in {"adopt", "daemonMeta", "clearSock", "engine", "listen", "window"}
  /\ report' = [report EXCEPT ![s] = "silent"]
  /\ UNCHANGED <<pc, files, sess, fd, tries, pid, peer>>

-----------------------------------------------------------------------------
(* The end of a session.                                                    *)

ChildExit(s) ==
  /\ s \in child /\ child' = child \ {s}
  /\ UNCHANGED <<pc, files, listening, ready, suppressed, crashes, local>>

(* The exit watcher closes the listener, which unlinks the socket's path.   *)
EndServe(s) ==
  /\ pc[s] = "serve" /\ s \notin child /\ Goto(s, "closeSock")
  /\ UNCHANGED <<files, sess, local>>

CloseListener(s) ==
  /\ pc[s] = "closeSock"
  /\ sock' = None /\ listening' = listening \ {s}
  /\ Goto(s, IF s \in ready /\ s \notin suppressed THEN "tombCheck" ELSE "removeCheck")
  /\ UNCHANGED <<lockFiles, lockPath, tomb, child, ready, suppressed, crashes, local>>

(* Variant: waits for the lock path to name this generation.                *)
TombstoneCheckOwn(s) ==
  /\ pc[s] = "tombCheck" /\ PathToken = s
  /\ Goto(s, "tombWrite")
  /\ UNCHANGED <<files, sess, local>>

(* writeTombstoneForGeneration *)
TombstoneCheck(s) ==
  /\ pc[s] = "tombCheck"
  /\ Goto(s, IF PathToken = s THEN "tombWrite" ELSE "removeCheck")
  /\ UNCHANGED <<files, sess, local>>

WriteTombstone(s) ==
  /\ pc[s] = "tombWrite" /\ tomb' = s /\ Goto(s, "removeCheck")
  /\ UNCHANGED <<lockFiles, lockPath, sock, sess, local>>

(* removeSessionFilesForGeneration *)
RemoveCheck(s) ==
  /\ pc[s] = "removeCheck"
  /\ Goto(s, IF PathToken = s THEN "removeSock" ELSE "unlock")
  /\ UNCHANGED <<files, sess, local>>

RemoveSocket(s) ==
  /\ pc[s] = "removeSock" /\ sock' = None /\ Goto(s, "removeLock")
  /\ UNCHANGED <<lockFiles, lockPath, tomb, sess, local>>

(* Variant: the lock is released before its file is removed.                *)
RemoveLockUnlocked(s) ==
  /\ pc[s] = "removeLock"
  /\ \/ /\ lockFiles[fd[s]].holder = s /\ lockFiles' = Unlocked(s)
        /\ UNCHANGED <<lockPath, pc>>
     \/ /\ lockFiles[fd[s]].holder # s /\ lockPath' = 0 /\ Goto(s, "unlock")
        /\ UNCHANGED lockFiles
  /\ UNCHANGED <<sock, tomb, sess, local>>

(* Variant: the lock file stays behind.                                     *)
KeepLock(s) ==
  /\ pc[s] = "removeLock" /\ Goto(s, "unlock")
  /\ UNCHANGED <<files, sess, local>>

RemoveLock(s) ==
  /\ pc[s] = "removeLock" /\ lockPath' = 0 /\ Goto(s, "unlock")
  /\ UNCHANGED <<lockFiles, sock, tomb, sess, local>>

(* The lock is closed, the error reported where nothing was yet, and the    *)
(* process exits.                                                           *)
Unlock(s) ==
  /\ pc[s] = "unlock"
  /\ lockFiles' = Unlocked(s)
  /\ report' = [report EXCEPT ![s] = IF @ = "none" THEN "failed" ELSE @]
  /\ Goto(s, "gone")
  /\ UNCHANGED <<lockPath, sock, tomb, sess, fd, tries, pid, peer>>

(* kill -9: the kernel closes the listener and drops the flock.             *)
Crash(s) ==
  /\ crashes < MaxCrashes /\ crashes' = crashes + 1
  /\ Owns(s) \/ pc[s] \in {"verify", "unlock"}
  /\ lockFiles' = Unlocked(s)
  /\ listening' = listening \ {s} /\ child' = child \ {s}
  /\ report' = [report EXCEPT ![s] = IF @ = "none" THEN "failed" ELSE @]
  /\ Goto(s, "gone")
  /\ UNCHANGED <<lockPath, sock, tomb, ready, suppressed, fd, tries, pid, peer>>

-----------------------------------------------------------------------------
(* stopSession, run by "twee stop" and first by "twee start --force".       *)

BeginStop(p) ==
  /\ pc[p] = "idle" /\ Goto(p, "readPid")
  /\ UNCHANGED <<files, sess, local>>

AfterStop(p) == IF p \in Starts THEN "open" ELSE "done"

ReadLockPid(p) ==
  /\ pc[p] = "readPid"
  /\ pid' = [pid EXCEPT ![p] = IF PathToken = None THEN NoPid
                               ELSE <<lockFiles[lockPath].role, PathToken>>]
  /\ Goto(p, "dial")
  /\ UNCHANGED <<files, sess, fd, tries, report, peer>>

(* No file, or nobody listening: NOT_FOUND, and the stale state is removed. *)
Dial(p) ==
  /\ pc[p] = "dial"
  /\ IF sock # None /\ sock \in listening
     THEN peer' = [peer EXCEPT ![p] = sock] /\ Goto(p, "rpc")
     ELSE Goto(p, "cleanOpen") /\ UNCHANGED peer
  /\ UNCHANGED <<files, sess, fd, tries, report, pid>>

(* handleStop kills the child; closing the terminal may report an error.    *)
StopRpc(p) ==
  /\ pc[p] = "rpc" /\ peer[p] \in listening
  /\ child' = child \ {peer[p]}
  /\ \E all \in BOOLEAN :
       suppressed' = IF all THEN suppressed \cup {peer[p]} ELSE suppressed
  /\ \/ Goto(p, "waitPid") /\ UNCHANGED peer
     \/ Goto(p, AfterStop(p)) /\ peer' = [peer EXCEPT ![p] = None]
  /\ UNCHANGED <<files, listening, ready, crashes, fd, tries, report, pid>>

(* A wrong token is refused; a daemon that has gone resets the connection.  *)
StopRefused(p) ==
  /\ pc[p] = "rpc" /\ Goto(p, AfterStop(p))
  /\ peer' = [peer EXCEPT ![p] = None]
  /\ UNCHANGED <<files, sess, fd, tries, report, pid>>

(* waitForPIDExit *)
WaitPid(p) ==
  /\ pc[p] = "waitPid"
  /\ ~Alive(pid[p]) \/ WaitTimesOut
  /\ Goto(p, AfterStop(p))
  /\ UNCHANGED <<files, sess, local>>

(* cleanupStaleSession *)
CleanOpen(p) ==
  /\ pc[p] = "cleanOpen"
  /\ fd' = [fd EXCEPT ![p] = lockPath]
  /\ Goto(p, IF lockPath = 0 THEN AfterStop(p) ELSE "cleanFlock")
  /\ UNCHANGED <<files, sess, tries, report, pid, peer>>

CleanFlock(p) ==
  /\ pc[p] = "cleanFlock"
  /\ IF lockFiles[fd[p]].holder = None
     THEN lockFiles' = Locked(p, p) /\ Goto(p, "cleanLock")
     ELSE Goto(p, AfterStop(p)) /\ UNCHANGED lockFiles
  /\ UNCHANGED <<lockPath, sock, tomb, sess, local>>

CleanLock(p) ==
  /\ pc[p] = "cleanLock" /\ lockPath' = 0 /\ Goto(p, "cleanSock")
  /\ UNCHANGED <<lockFiles, sock, tomb, sess, local>>

CleanSocket(p) ==
  /\ pc[p] = "cleanSock" /\ sock' = None /\ Goto(p, "cleanClose")
  /\ UNCHANGED <<lockFiles, lockPath, tomb, sess, local>>

CleanClose(p) ==
  /\ pc[p] = "cleanClose" /\ lockFiles' = Unlocked(p) /\ Goto(p, AfterStop(p))
  /\ UNCHANGED <<lockPath, sock, tomb, sess, local>>

(* "twee ls": the directory has a socket, nobody answers it when it is      *)
(* dialled later, or not in time, and isSessionStale takes for a moment the *)
(* flock of whatever lock file there is by then.                            *)
ListRead(c) ==
  /\ pc[c] = "idle" /\ sock # None /\ Goto(c, "listDial")
  /\ UNCHANGED <<files, sess, local>>

ListDial(c) ==
  /\ pc[c] = "listDial"
  /\ \/ sock # None /\ sock \in listening /\ Goto(c, "done")
     \/ Goto(c, "listOpen")
  /\ UNCHANGED <<files, sess, local>>

ListOpen(c) ==
  /\ pc[c] = "listOpen"
  /\ fd' = [fd EXCEPT ![c] = lockPath]
  /\ Goto(c, IF lockPath = 0 THEN "done" ELSE "listFlock")
  /\ UNCHANGED <<files, sess, tries, report, pid, peer>>

ListFlock(c) ==
  /\ pc[c] = "listFlock"
  /\ IF lockFiles[fd[c]].holder = None
     THEN lockFiles' = Locked(c, c) /\ Goto(c, "cleanClose")
     ELSE Goto(c, "done") /\ UNCHANGED lockFiles
  /\ UNCHANGED <<lockPath, sock, tomb, sess, local>>

-----------------------------------------------------------------------------
Acquire(s) == OpenLock(s) \/ Flock(s) \/ VerifyPath(s) \/ AcquireFails(s)
Metadata(s) == \/ LauncherClears(s) \/ LauncherMeta(s) \/ LauncherFails(s)
               \/ DaemonClears(s) \/ DaemonMeta(s) \/ DaemonFails(s)
Launch(s)  == \/ RemoveTombstone(s) \/ Spawn(s) \/ RemoveStaleSocket(s)
              \/ EngineStart(s) \/ Listen(s)
              \/ ReportReady(s) \/ QuickExit(s)
EndSession(s) == \/ EndServe(s) \/ CloseListener(s) \/ TombstoneCheck(s)
                 \/ WriteTombstone(s) \/ RemoveCheck(s) \/ RemoveSocket(s)
                 \/ RemoveLock(s) \/ Unlock(s)
Stop(p) == \/ ReadLockPid(p) \/ Dial(p) \/ StopRpc(p) \/ StopRefused(p) \/ WaitPid(p)
           \/ CleanOpen(p) \/ CleanFlock(p) \/ CleanLock(p) \/ CleanSocket(p)
           \/ CleanClose(p)

Run(s) == Acquire(s) \/ Metadata(s) \/ Launch(s) \/ EndSession(s)

(* Every command has returned and no session is left.                       *)
Over == (\A p \in Procs : pc[p] \in {"gone", "done"}) /\ UNCHANGED vars

Start(s) == BeginStart(s) \/ Run(s) \/ LauncherGivesUp(s) \/ ChildExit(s) \/ Crash(s)
Client(c) == BeginStop(c) \/ Stop(c) \/ ListRead(c) \/ ListDial(c) \/ ListOpen(c) \/ ListFlock(c)

Next == \/ \E s \in Starts : Start(s)
        \/ \E c \in Clients : Client(c)
        \/ Over

(* With "start --force" among the starts.                                   *)
ForceNext == Next \/ \E s \in Starts : BeginStop(s) \/ Stop(s)

Spec == Init /\ [][Next]_vars
ForceSpec == Init /\ [][ForceNext]_vars
FairSpec == Spec /\ \A s \in Starts : WF_vars(Run(s))

-----------------------------------------------------------------------------
StartSteps == OwnerSteps \cup {"idle", "open", "flock", "verify", "unlock", "gone"}
StopSteps == {"idle", "readPid", "dial", "rpc", "waitPid", "cleanOpen", "cleanFlock",
              "cleanLock", "cleanSock", "cleanClose", "listDial", "listOpen", "listFlock",
              "done"}

LockFile == [holder : Procs \cup {None}, token : Starts \cup {None},
             role : {"none", "launcher", "daemon"}]

TypeOK ==
  /\ pc \in [Procs -> StartSteps \cup StopSteps]
  /\ lockFiles \in Seq(LockFile) /\ lockPath \in 0..Len(lockFiles)
  /\ fd \in [Procs -> 0..Len(lockFiles)] /\ tries \in [Procs -> 0..Attempts]
  /\ sock \in Starts \cup {None} /\ tomb \in Starts \cup {None}
  /\ listening \subseteq Starts /\ child \subseteq Starts /\ ready \subseteq Starts
  /\ suppressed \subseteq Starts /\ crashes \in 0..MaxCrashes
  /\ report \in [Starts -> {"none", "ready", "running", "failed", "silent"}]

(* docs/trace-lifecycle-proposal.md:255-257: concurrent starts of one name  *)
(* yield exactly one daemon (acquireSessionLock).                           *)
OneOwner == \A s, t \in Starts : Owns(s) /\ Owns(t) => s = t

(* Whatever the interleaving of starts, exits and crashes, one generation   *)
(* at a time is between taking and giving up the name.                      *)
NameIsExclusive == TypeOK /\ OneOwner

(* The files of a serving session are its own: no earlier generation's      *)
(* teardown and no command removes them (daemonize.go:296-299).             *)
OwnerKeepsFiles ==
  \A s \in Starts : pc[s] \in {"window", "serve"} =>
    sock = s /\ s \in listening /\ PathToken = s

(* The tombstone never outlives its session's successor: it describes a     *)
(* generation that nobody has replaced (daemonize.go:430-432).              *)
TombstoneIsLatest ==
  tomb # None =>
    \A s \in Starts : Owns(s) /\ pc[s] \notin {"writeMeta", "launcherMeta", "clearTomb"} => tomb = s

(* Unless a daemon was killed, no socket is left when nobody is at work,    *)
(* and no lock file that a daemon has taken over                            *)
(* (docs/trace-lifecycle-proposal.md:254-255).  A lock file may be left by  *)
(* a start that came to nothing before its daemon had written its pid.      *)
EndLeavesNoFiles ==
  crashes = 0 /\ (\A p \in Procs : pc[p] \in {"idle", "gone", "done"})
    => sock = None /\ (lockPath # 0 => lockFiles[lockPath].role # "daemon")

(* A session whose child has exited gives up the name in the end.           *)
ExitReleasesName ==
  \A s \in Starts : (pc[s] = "serve" /\ s \notin child) ~> pc[s] = "gone"

-----------------------------------------------------------------------------
(* What the repository says and the code does not.                          *)

(* docs/trace-lifecycle-proposal.md:254-255: after a start-up failure, as   *)
(* after every end, the state directory has no lock file.                   *)
FailedStartsLeaveNoFiles ==
  crashes = 0 /\ (\A p \in Procs : pc[p] \in {"idle", "gone", "done"}) => lockPath = 0

(* cmd_start.go:81-87: --force waits for the daemon it stopped to fully     *)
(* exit, so the start after it does not race the teardown.                  *)
ForceWaitsForOwner ==
  \A s \in Starts : pc[s] = "open" /\ peer[s] # None => pc[peer[s]] = "gone"
=============================================================================
