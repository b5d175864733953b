------------------------- MODULE SessionLockProofs -------------------------
(***************************************************************************)
(* The safety properties of SessionLock, for every number of starts,       *)
(* clients, attempts and crashes.                                          *)
(***************************************************************************)
EXTENDS SessionLock, TLAPS

(* Steps at which a process has the flock of the file it opened.            *)
HolderSteps == OwnerSteps \cup {"verify", "unlock", "cleanLock", "cleanSock", "cleanClose"}

(* Steps at which an owner has not written its token, or has cleared it.    *)
MetaSteps == {"writeMeta", "launcherMeta", "daemonMeta"}

(* Where starts and clients can be.                                         *)
StepsInv ==
  /\ \A s \in Starts : pc[s] \in StartSteps
  /\ \A c \in Clients : pc[c] \in StopSteps
  /\ \A s \in Starts : pc[s] \in {"idle", "open"} => tries[s] < Attempts

(* Who has a flock is at a step that has one, and the other way round.      *)
FlockInv ==
  /\ \A p \in Procs : pc[p] \in {"flock", "cleanFlock", "listFlock"} => fd[p] # 0
  /\ \A p \in Procs : pc[p] \in HolderSteps => fd[p] # 0 /\ lockFiles[fd[p]].holder = p
  /\ \A i \in DOMAIN lockFiles :
       lockFiles[i].holder # None =>
         pc[lockFiles[i].holder] \in HolderSteps /\ fd[lockFiles[i].holder] = i

(* The locked file says whose it is.                                        *)
TokenInv ==
  \A s \in Starts : Owns(s) /\ pc[s] \notin MetaSteps => lockFiles[fd[s]].token = s

LockInv == TypeOK /\ StepsInv /\ FlockInv /\ TokenInv

LEMMA LockInit == Init => LockInv
  BY LockAssumption
  DEF Init, LockInv, TypeOK, StepsInv, FlockInv, TokenInv, Owns, OwnerSteps, HolderSteps,
      StartSteps, StopSteps, LockFile, Procs

-----------------------------------------------------------------------------
LEMMA FilesAreTyped ==
  ASSUME TypeOK
  PROVE  /\ Len(lockFiles) \in Nat /\ DOMAIN lockFiles = 1 .. Len(lockFiles)
         /\ \A j \in DOMAIN lockFiles : lockFiles[j].holder \in Procs \cup {None}
<1>1. lockFiles \in [1 .. Len(lockFiles) -> LockFile] /\ Len(lockFiles) \in Nat
  BY DEF TypeOK
<1>2. \A j \in DOMAIN lockFiles : lockFiles[j] \in LockFile
  BY <1>1
<1>3. QED
  BY <1>1, <1>2 DEF LockFile

(* What the lock files are after one of them is locked, unlocked or written. *)
LEMMA HolderOfFile ==
  ASSUME NEW r \in LockFile, NEW h \in Procs \cup {None}
  PROVE  /\ [r EXCEPT !.holder = h] \in LockFile
         /\ [r EXCEPT !.holder = h].holder = h
         /\ [r EXCEPT !.holder = h].token = r.token
         /\ [r EXCEPT !.holder = h].role = r.role
  BY DEF LockFile

LEMMA LockedFiles ==
  ASSUME TypeOK, NEW p \in Procs, fd[p] # 0, NEW h \in Procs \cup {None}
  PROVE  /\ Locked(p, h) \in Seq(LockFile) /\ Len(Locked(p, h)) = Len(lockFiles)
         /\ DOMAIN Locked(p, h) = DOMAIN lockFiles
         /\ \A j \in DOMAIN lockFiles :
              /\ Locked(p, h)[j].holder = IF j = fd[p] THEN h ELSE lockFiles[j].holder
              /\ Locked(p, h)[j].token = lockFiles[j].token
              /\ Locked(p, h)[j].role = lockFiles[j].role
<1> DEFINE file == [lockFiles[fd[p]] EXCEPT !.holder = h]
<1>1. lockFiles \in [1 .. Len(lockFiles) -> LockFile] /\ Len(lockFiles) \in Nat
  BY DEF TypeOK
<1>2. fd[p] \in 1 .. Len(lockFiles) /\ lockFiles[fd[p]] \in LockFile
  BY <1>1 DEF TypeOK
<1>3. /\ file \in LockFile /\ file.holder = h /\ file.token = lockFiles[fd[p]].token
      /\ file.role = lockFiles[fd[p]].role
  BY <1>2, HolderOfFile
<1>4. Locked(p, h) = [lockFiles EXCEPT ![fd[p]] = file]
  BY Zenon DEF Locked
<1> HIDE DEF file
<1>5. Locked(p, h) \in [1 .. Len(lockFiles) -> LockFile]
  BY <1>1, <1>2, <1>3, <1>4
<1>6. QED
  BY <1>1, <1>2, <1>3, <1>4, <1>5

LEMMA MetaUpdate ==
  ASSUME TypeOK, NEW s \in Starts, NEW token \in Starts \cup {None},
         NEW role \in {"none", "launcher", "daemon"}, fd[s] # 0, WriteMeta(s, token, role)
  PROVE  /\ lockFiles' \in Seq(LockFile) /\ Len(lockFiles') = Len(lockFiles)
         /\ DOMAIN lockFiles' = DOMAIN lockFiles
         /\ \A j \in DOMAIN lockFiles :
              /\ lockFiles'[j].holder = lockFiles[j].holder
              /\ lockFiles'[j].token = IF j = fd[s] THEN token ELSE lockFiles[j].token
              /\ lockFiles'[j].role = IF j = fd[s] THEN role ELSE lockFiles[j].role
<1> DEFINE old == lockFiles[fd[s]]
           file == [old EXCEPT !.token = token, !.role = role]
<1>1. lockFiles \in [1 .. Len(lockFiles) -> LockFile] /\ Len(lockFiles) \in Nat
  BY DEF TypeOK
<1>2. fd[s] \in 1 .. Len(lockFiles) /\ old \in LockFile
  BY <1>1 DEF TypeOK, Procs
<1>3. file \in LockFile /\ file.token = token /\ file.role = role /\ file.holder = old.holder
  <2> HIDE DEF old
  <2>1. QED
    BY <1>2 DEF LockFile
<1>4. lockFiles' = [lockFiles EXCEPT ![fd[s]] = file]
  BY Zenon DEF WriteMeta
<1> HIDE DEF file
<1>5. lockFiles' \in [1 .. Len(lockFiles) -> LockFile]
  BY <1>1, <1>2, <1>3, <1>4
<1>6. QED
  BY <1>1, <1>2, <1>3, <1>4, <1>5

-----------------------------------------------------------------------------
(* Steps that leave the files' locks and what is open alone: nothing but the *)
(* place of one process changes, and it stays a holder or goes where it      *)
(* needs no lock.                                                           *)
LEMMA MoveStep ==
  ASSUME LockInv, TypeOK', NEW p \in Procs, NEW step, pc' = [pc EXCEPT ![p] = step],
         UNCHANGED <<lockFiles, fd, tries>>,
         p \in Starts => step \in StartSteps,
         p \in Clients => step \in StopSteps,
         step \notin {"idle", "open", "flock", "cleanFlock", "listFlock"},
         pc[p] \in HolderSteps <=> step \in HolderSteps,
         step \in OwnerSteps => \/ step = "writeMeta"
                                \/ Owns(p) /\ pc[p] \notin MetaSteps
  PROVE  LockInv'
<1> USE LockAssumption DEF LockInv
<1>1. StepsInv'
  BY DEF StepsInv, TypeOK, Procs
<1>2. FlockInv'
  BY DEF FlockInv, TypeOK, LockFile
<1>3. TokenInv'
  BY DEF TokenInv, TypeOK, Owns, Procs, MetaSteps
<1>4. QED
  BY <1>1, <1>2, <1>3

(* Steps of a start that take or give up a flock.                           *)
LEMMA OpenStep ==
  ASSUME LockInv, NEW s \in Starts, OpenLock(s)
  PROVE  LockInv'
<1> USE LockAssumption DEF LockInv
<1> DEFINE fresh == [holder |-> None, token |-> None, role |-> "none"]
<1>1. /\ lockFiles' \in Seq(LockFile) /\ lockPath' \in 1 .. Len(lockFiles')
      /\ Len(lockFiles) \in Nat /\ Len(lockFiles') \in Nat /\ Len(lockFiles') >= Len(lockFiles)
      /\ \A j \in 1 .. Len(lockFiles) : lockFiles'[j] = lockFiles[j]
      /\ \A j \in 1 .. Len(lockFiles') : j \in 1 .. Len(lockFiles) \/ lockFiles'[j].holder = None
  <2>1. fresh \in LockFile /\ fresh.holder = None
    BY DEF LockFile
  <2>2. CASE lockPath = 0
    <3>1. lockFiles' = Append(lockFiles, fresh) /\ lockPath' = Len(lockFiles) + 1
      BY <2>2 DEF OpenLock
    <3> HIDE DEF fresh
    <3>2. lockFiles \in Seq(LockFile) /\ Len(lockFiles) \in Nat
      BY DEF TypeOK
    <3>3. QED
      BY <2>1, <3>1, <3>2
  <2>3. CASE lockPath # 0
    BY <2>3 DEF TypeOK, OpenLock
  <2>4. QED
    BY <2>2, <2>3
<1>2. TypeOK'
  BY <1>1 DEF TypeOK, StepsInv, sess, Procs, StartSteps, OpenLock, Goto
<1>3. StepsInv'
  BY DEF StepsInv, TypeOK, Procs, StartSteps, OpenLock, Goto
<1>4. FlockInv'
  <2>1. \A p \in Procs : p # s => pc'[p] = pc[p] /\ fd'[p] = fd[p]
    BY DEF OpenLock, Goto, TypeOK
  <2>2. pc'[s] = "flock" /\ fd'[s] # 0 /\ pc[s] \notin HolderSteps
    BY <1>1 DEF OpenLock, Goto, TypeOK, Procs, HolderSteps, OwnerSteps
  <2>3. \A p \in Procs : fd[p] # 0 => fd[p] \in 1 .. Len(lockFiles)
    BY <1>1 DEF TypeOK
  <2>4. DOMAIN lockFiles = 1 .. Len(lockFiles) /\ DOMAIN lockFiles' = 1 .. Len(lockFiles')
    BY <1>1 DEF TypeOK
  <2>5. \A j \in 1 .. Len(lockFiles) : lockFiles[j].holder \in Procs \cup {None}
    BY FilesAreTyped
  <2>6. \A p \in Procs : pc'[p] \in {"flock", "cleanFlock", "listFlock"} => fd'[p] # 0
    BY <2>1, <2>2 DEF FlockInv
  <2>7. \A p \in Procs : pc'[p] \in HolderSteps => fd'[p] # 0 /\ lockFiles'[fd'[p]].holder = p
    BY <1>1, <2>1, <2>2, <2>3 DEF FlockInv, HolderSteps, OwnerSteps
  <2>8. ASSUME NEW j \in 1 .. Len(lockFiles'), lockFiles'[j].holder # None
        PROVE  pc'[lockFiles'[j].holder] \in HolderSteps /\ fd'[lockFiles'[j].holder] = j
    <3>1. j \in 1 .. Len(lockFiles) /\ lockFiles'[j].holder = lockFiles[j].holder
      BY <1>1, <2>8
    <3>2. /\ lockFiles[j].holder \in Procs
          /\ pc[lockFiles[j].holder] \in HolderSteps /\ fd[lockFiles[j].holder] = j
      BY <2>4, <2>5, <2>8, <3>1 DEF FlockInv
    <3>3. QED
      BY <2>1, <2>2, <3>1, <3>2
  <2>9. QED
    BY <2>4, <2>6, <2>7, <2>8 DEF FlockInv
<1>5. TokenInv'
  <2> SUFFICES ASSUME NEW t \in Starts, Owns(t)', pc'[t] \notin MetaSteps
               PROVE  lockFiles'[fd'[t]].token = t
    BY DEF TokenInv
  <2>1. t # s /\ Owns(t) /\ pc[t] \notin MetaSteps /\ fd'[t] = fd[t]
    BY DEF Owns, OwnerSteps, TypeOK, Procs, OpenLock, Goto
  <2>2. fd[t] \in 1 .. Len(lockFiles)
    BY <1>1, <2>1 DEF TypeOK, FlockInv, Owns, HolderSteps, Procs
  <2>3. QED
    BY <1>1, <2>1, <2>2 DEF TokenInv
<1>6. QED
  BY <1>2, <1>3, <1>4, <1>5

(* A process whose flock succeeds holds the file from then on, one that     *)
(* closes its file holds nothing; the locks of others stay.                 *)
LEMMA LockStep ==
  ASSUME LockInv, NEW p \in Procs, fd[p] # 0, NEW step, step \in StartSteps \cup StopSteps,
         pc' = [pc EXCEPT ![p] = step],
         UNCHANGED fd,
         \/ /\ lockFiles[fd[p]].holder = None /\ step \in HolderSteps \ OwnerSteps
            /\ lockFiles' = Locked(p, p)
         \/ /\ lockFiles[fd[p]].holder = p /\ step \notin HolderSteps
            /\ step \notin {"flock", "cleanFlock", "listFlock"}
            /\ lockFiles' = Unlocked(p)
  PROVE  FlockInv' /\ TokenInv' /\ lockFiles' \in Seq(LockFile) /\ Len(lockFiles') = Len(lockFiles)
<1> USE LockAssumption DEF LockInv
<1>1. PICK h \in {p, None} : /\ lockFiles' = Locked(p, h)
                             /\ h = p <=> step \in HolderSteps
                             /\ lockFiles[fd[p]].holder \in {p, None}
  BY DEF Unlocked, Procs
<1>2. /\ lockFiles' \in Seq(LockFile) /\ Len(lockFiles') = Len(lockFiles)
      /\ DOMAIN lockFiles' = DOMAIN lockFiles
      /\ \A j \in DOMAIN lockFiles :
           /\ lockFiles'[j].holder = IF j = fd[p] THEN h ELSE lockFiles[j].holder
           /\ lockFiles'[j].token = lockFiles[j].token
  BY <1>1, LockedFiles
<1>3. \A q \in Procs : q # p => pc'[q] = pc[q]
  BY DEF TypeOK
<1>4. pc'[p] = step
  BY DEF TypeOK
<1>5. \A q \in Procs : fd[q] # 0 => fd[q] \in DOMAIN lockFiles
  BY DEF TypeOK
<1>6. \A q \in Procs : q # p /\ pc[q] \in HolderSteps => fd[q] # fd[p]
  BY <1>1 DEF FlockInv, Procs
<1>7. FlockInv'
  <2>1. \A q \in Procs : pc'[q] \in {"flock", "cleanFlock", "listFlock"} => fd'[q] # 0
    BY <1>3, <1>4, <1>1 DEF FlockInv, HolderSteps, OwnerSteps
  <2>2. \A q \in Procs : pc'[q] \in HolderSteps => fd'[q] # 0 /\ lockFiles'[fd'[q]].holder = q
    BY <1>1, <1>2, <1>3, <1>4, <1>5, <1>6 DEF FlockInv
  <2>3. \A j \in DOMAIN lockFiles' : lockFiles'[j].holder # None =>
          pc'[lockFiles'[j].holder] \in HolderSteps /\ fd'[lockFiles'[j].holder] = j
    <3> SUFFICES ASSUME NEW j \in DOMAIN lockFiles, lockFiles'[j].holder # None
                 PROVE  pc'[lockFiles'[j].holder] \in HolderSteps /\ fd[lockFiles'[j].holder] = j
      BY <1>2
    <3>1. CASE j = fd[p]
      BY <1>1, <1>2, <1>4, <3>1
    <3>2. CASE j # fd[p]
      <4>1. lockFiles'[j].holder = lockFiles[j].holder /\ lockFiles[j].holder \in Procs
        BY <1>2, <3>2, FilesAreTyped
      <4>2. pc[lockFiles[j].holder] \in HolderSteps /\ fd[lockFiles[j].holder] = j
        BY <4>1 DEF FlockInv
      <4>3. QED
        BY <1>3, <3>2, <4>1, <4>2
    <3>3. QED
      BY <3>1, <3>2
  <2>4. QED
    BY <2>1, <2>2, <2>3 DEF FlockInv
<1>8. TokenInv'
  <2> SUFFICES ASSUME NEW t \in Starts, Owns(t)', pc'[t] \notin MetaSteps
               PROVE  lockFiles'[fd[t]].token = t
    BY DEF TokenInv
  <2>1. t # p /\ Owns(t) /\ pc[t] \notin MetaSteps
    BY <1>3, <1>4 DEF Owns, Procs, HolderSteps
  <2>2. fd[t] \in DOMAIN lockFiles
    BY <1>5, <2>1 DEF FlockInv, Owns, HolderSteps, Procs
  <2>3. QED
    BY <1>2, <2>1, <2>2 DEF TokenInv
<1>9. QED
  BY <1>2, <1>7, <1>8

(* A daemon works and ends without touching the locks.                      *)
LEMMA OwnerStep ==
  ASSUME LockInv, NEW s \in Starts,
         \/ RemoveTombstone(s) \/ Spawn(s) \/ RemoveStaleSocket(s) \/ EngineStart(s)
         \/ Listen(s) \/ ReportReady(s) \/ QuickExit(s) \/ EndServe(s) \/ CloseListener(s)
         \/ TombstoneCheck(s) \/ WriteTombstone(s) \/ RemoveCheck(s) \/ RemoveSocket(s)
         \/ RemoveLock(s)
  PROVE  LockInv'
<1> DEFINE steps == (OwnerSteps \ MetaSteps) \cup {"unlock"}
<1> USE DEF LockInv
<1>1. Owns(s) /\ pc[s] \notin MetaSteps
  BY DEF Owns, OwnerSteps, MetaSteps, RemoveTombstone, Spawn, RemoveStaleSocket, EngineStart, Listen,
         ReportReady, QuickExit, EndServe, CloseListener, TombstoneCheck, WriteTombstone,
         RemoveCheck, RemoveSocket, RemoveLock
<1>2. (\E step \in steps : pc' = [pc EXCEPT ![s] = step]) /\ UNCHANGED <<lockFiles, fd, tries>>
  BY DEF OwnerSteps, MetaSteps, RemoveTombstone, Spawn, RemoveStaleSocket, EngineStart, Listen,
         ReportReady, QuickExit, EndServe, CloseListener, TombstoneCheck, WriteTombstone,
         RemoveCheck, RemoveSocket, RemoveLock, Goto, files, local
<1>3. /\ sock' \in Starts \cup {None} /\ tomb' \in Starts \cup {None}
      /\ listening' \subseteq Starts /\ child' \subseteq Starts /\ ready' \subseteq Starts
      /\ suppressed' \subseteq Starts /\ crashes' \in 0..MaxCrashes
      /\ report' \in [Starts -> {"none", "ready", "running", "failed", "silent"}]
      /\ lockPath' \in 0 .. Len(lockFiles)
  BY FilesAreTyped
  DEF TypeOK, RemoveTombstone, Spawn, RemoveStaleSocket, EngineStart, Listen,
         ReportReady, QuickExit, EndServe, CloseListener, TombstoneCheck, WriteTombstone,
         RemoveCheck, RemoveSocket, RemoveLock, files, sess, local
<1>4. TypeOK'
  <2>1. pc' \in [Procs -> StartSteps \cup StopSteps]
    BY <1>2 DEF TypeOK, StartSteps, Procs
  <2>2. /\ lockFiles' \in Seq(LockFile) /\ lockPath' \in 0 .. Len(lockFiles')
        /\ fd' \in [Procs -> 0 .. Len(lockFiles')] /\ tries' \in [Procs -> 0 .. Attempts]
    BY <1>2, <1>3 DEF TypeOK
  <2>3. QED
    BY <1>3, <2>1, <2>2 DEF TypeOK
<1>5. QED
  BY <1>1, <1>2, <1>4, MoveStep, LockAssumption DEF Procs, StartSteps, HolderSteps, OwnerSteps, Owns

(* The lock file is cleared or written by the process that has locked it.   *)
LEMMA MetaStep ==
  ASSUME LockInv, NEW s \in Starts,
         LauncherClears(s) \/ LauncherMeta(s) \/ DaemonClears(s) \/ DaemonMeta(s)
  PROVE  LockInv'
<1> USE LockAssumption DEF LockInv
<1>1. PICK token \in {s, None}, role \in {"none", "launcher", "daemon"},
           step \in {"launcherMeta", "clearTomb", "daemonMeta", "clearSock"} :
             /\ WriteMeta(s, token, role) /\ pc' = [pc EXCEPT ![s] = step]
             /\ step \notin MetaSteps => token = s
  BY DEF LauncherClears, LauncherMeta, DaemonClears, DaemonMeta, Goto, MetaSteps
<1>3. pc[s] \in HolderSteps /\ UNCHANGED <<lockPath, sock, tomb, sess, local>>
  BY DEF LauncherClears, LauncherMeta, DaemonClears, DaemonMeta, HolderSteps, OwnerSteps
<1>4. /\ lockFiles' \in Seq(LockFile) /\ Len(lockFiles') = Len(lockFiles)
      /\ DOMAIN lockFiles' = DOMAIN lockFiles
      /\ \A j \in DOMAIN lockFiles :
           /\ lockFiles'[j].holder = lockFiles[j].holder
           /\ lockFiles'[j].token = IF j = fd[s] THEN token ELSE lockFiles[j].token
  BY <1>1, <1>3, MetaUpdate DEF FlockInv, Procs
<1>5. \A q \in Procs : fd[q] # 0 => fd[q] \in DOMAIN lockFiles
  BY FilesAreTyped DEF TypeOK
<1>6. TypeOK'
  BY <1>1, <1>3, <1>4 DEF TypeOK, Procs, StartSteps, OwnerSteps, sess, local
<1>7. StepsInv'
  BY <1>1, <1>3 DEF StepsInv, TypeOK, Procs, StartSteps, OwnerSteps, local
<1>8. \A q \in Procs : pc'[q] = IF q = s THEN step ELSE pc[q]
  BY <1>1 DEF TypeOK, Procs
<1>9. FlockInv'
  BY <1>3, <1>4, <1>5, <1>8, FilesAreTyped DEF FlockInv, HolderSteps, OwnerSteps, local
<1>10. TokenInv'
  <2> SUFFICES ASSUME NEW t \in Starts, Owns(t)', pc'[t] \notin MetaSteps
               PROVE  lockFiles'[fd[t]].token = t
    BY <1>3 DEF TokenInv, local
  <2>1. CASE t = s
    BY <1>1, <1>3, <1>4, <1>5, <1>8, <2>1 DEF FlockInv, Procs
  <2>2. CASE t # s
    BY <1>3, <1>4, <1>5, <1>8, <2>2 DEF TokenInv, FlockInv, Owns, HolderSteps, Procs
  <2>3. QED
    BY <2>1, <2>2
<1>11. QED
  BY <1>6, <1>7, <1>9, <1>10

(* A start that cannot write its metadata goes on to give up the lock.      *)
LEMMA FailStep ==
  ASSUME LockInv, NEW s \in Starts, LauncherFails(s) \/ DaemonFails(s)
  PROVE  LockInv'
<1> USE LockAssumption DEF LockInv
<1>1. PICK step \in {"removeCheck", "unlock"} :
        /\ pc' = [pc EXCEPT ![s] = step] /\ UNCHANGED <<files, sess, local>>
        /\ pc[s] \in {"writeMeta", "launcherMeta", "adopt", "daemonMeta"}
        /\ step = "removeCheck" => pc[s] = "adopt"
  BY DEF LauncherFails, DaemonFails, Goto
<1>2. TypeOK'
  BY <1>1 DEF TypeOK, Procs, StartSteps, OwnerSteps, files, sess, local
<1>3. QED
  BY <1>1, <1>2, MoveStep
  DEF Procs, StartSteps, HolderSteps, OwnerSteps, MetaSteps, Owns, files, local

(* Every step of a start or its daemon.                                     *)
LEMMA StartStep ==
  ASSUME LockInv, NEW s \in Starts, Start(s)
  PROVE  LockInv'
<1> USE LockAssumption DEF LockInv
<1>1. CASE BeginStart(s)
  <2>1. TypeOK' /\ StepsInv'
    BY <1>1 DEF BeginStart, Goto, files, sess, local, TypeOK, StepsInv, Procs, StartSteps
  <2>2. FlockInv' /\ TokenInv'
    BY <1>1 DEF BeginStart, Goto, files, sess, local, TypeOK, FlockInv, TokenInv, Procs,
                HolderSteps, OwnerSteps, Owns
  <2>3. QED
    BY <2>1, <2>2
<1>2. CASE OpenLock(s)
  BY <1>2, OpenStep
<1>3. CASE Flock(s)
  <2>1. fd[s] # 0
    BY <1>3 DEF Flock, FlockInv, Procs
  <2>2. CASE lockFiles[fd[s]].holder = None
    <3>1. FlockInv' /\ TokenInv' /\ lockFiles' \in Seq(LockFile) /\ Len(lockFiles') = Len(lockFiles)
      BY <1>3, <2>1, <2>2, LockStep
      DEF Flock, Goto, Procs, StartSteps, HolderSteps, OwnerSteps
    <3>2. pc' = [pc EXCEPT ![s] = "verify"] /\ UNCHANGED <<report, lockPath, sock, tomb, sess, fd, tries>>
      BY <1>3, <2>2 DEF Flock, Goto
    <3>3. TypeOK' /\ StepsInv'
      BY <3>1, <3>2 DEF TypeOK, StepsInv, Procs, StartSteps, sess
    <3>4. QED
      BY <3>1, <3>3
  <2>3. CASE lockFiles[fd[s]].holder # None
    <3>1. /\ pc' = [pc EXCEPT ![s] = "gone"] /\ report' = [report EXCEPT ![s] = "running"]
          /\ UNCHANGED <<lockFiles, lockPath, sock, tomb, sess, fd, tries>> /\ pc[s] = "flock"
      BY <1>3, <2>3 DEF Flock, Goto
    <3>2. TypeOK'
      BY <3>1 DEF TypeOK, Procs, StartSteps, sess
    <3>3. QED
      BY <3>1, <3>2, MoveStep DEF Procs, StartSteps, HolderSteps, OwnerSteps
  <2>4. QED
    BY <2>2, <2>3
<1>4. CASE VerifyPath(s)
  <2>1. pc[s] = "verify" /\ fd[s] # 0 /\ lockFiles[fd[s]].holder = s
    BY <1>4 DEF VerifyPath, FlockInv, HolderSteps, Procs
  <2>2. CASE lockPath = fd[s]
    <3>1. pc' = [pc EXCEPT ![s] = "writeMeta"] /\ UNCHANGED <<files, sess, fd, tries, report>>
      BY <1>4, <2>2 DEF VerifyPath, Goto, files
    <3>2. TypeOK'
      BY <3>1 DEF TypeOK, Procs, StartSteps, OwnerSteps, files, sess
    <3>3. QED
      BY <2>1, <3>1, <3>2, MoveStep DEF files, Procs, StartSteps, HolderSteps, OwnerSteps
  <2>3. CASE lockPath # fd[s]
    <3>1. PICK step \in {"open", "gone"} :
            /\ pc' = [pc EXCEPT ![s] = step] /\ (step = "open" => tries[s] < Attempts)
            /\ lockFiles' = Unlocked(s)
            /\ report' \in {report, [report EXCEPT ![s] = "failed"]}
            /\ UNCHANGED <<lockPath, sock, tomb, sess, fd, tries>>
      BY <1>4, <2>3 DEF VerifyPath, Goto
    <3>2. FlockInv' /\ TokenInv' /\ lockFiles' \in Seq(LockFile) /\ Len(lockFiles') = Len(lockFiles)
      BY <2>1, <3>1, LockStep DEF Procs, StartSteps, HolderSteps, OwnerSteps
    <3>3. TypeOK' /\ StepsInv'
      BY <3>1, <3>2 DEF TypeOK, StepsInv, Procs, StartSteps, sess
    <3>4. QED
      BY <3>2, <3>3
  <2>4. QED
    BY <2>2, <2>3
<1>5. CASE LauncherGivesUp(s) \/ ChildExit(s)
  <2>1. TypeOK' /\ StepsInv'
    BY <1>5 DEF LauncherGivesUp, ChildExit, files, sess, local, TypeOK, StepsInv, Procs
  <2>2. FlockInv' /\ TokenInv'
    BY <1>5 DEF LauncherGivesUp, ChildExit, files, local, FlockInv, TokenInv, Owns
  <2>3. QED
    BY <2>1, <2>2
<1>6. CASE Unlock(s) \/ Crash(s)
  <2>1. /\ pc[s] \in HolderSteps /\ pc' = [pc EXCEPT ![s] = "gone"]
        /\ lockFiles' = Unlocked(s) /\ UNCHANGED <<lockPath, fd, tries>>
    BY <1>6 DEF Unlock, Crash, Goto, Owns, HolderSteps, OwnerSteps
  <2>2. FlockInv' /\ TokenInv' /\ lockFiles' \in Seq(LockFile) /\ Len(lockFiles') = Len(lockFiles)
    BY <2>1, LockStep DEF FlockInv, Procs, StartSteps, HolderSteps, OwnerSteps
  <2>3. /\ sock' = sock /\ tomb' = tomb /\ ready' = ready /\ suppressed' = suppressed
        /\ listening' \subseteq listening /\ child' \subseteq child /\ crashes' \in 0 .. MaxCrashes
        /\ report' \in [Starts -> {"none", "ready", "running", "failed", "silent"}]
    <3>1. CASE Unlock(s)
      BY <3>1 DEF Unlock, sess, TypeOK
    <3>2. CASE Crash(s)
      BY <3>2 DEF Crash, TypeOK
    <3>3. QED
      BY <1>6, <3>1, <3>2
  <2>4. TypeOK' /\ StepsInv'
    BY <2>1, <2>2, <2>3 DEF TypeOK, StepsInv, Procs, StartSteps
  <2>5. QED
    BY <2>2, <2>4
<1>7. CASE AcquireFails(s)
  <2>1. UNCHANGED <<lockPath, sock, tomb, sess, fd, tries>> /\ pc' = [pc EXCEPT ![s] = "gone"]
        /\ report' = [report EXCEPT ![s] = "failed"]
    BY <1>7 DEF AcquireFails, Goto
  <2>2. CASE pc[s] = "verify"
    <3>1. fd[s] # 0 /\ lockFiles[fd[s]].holder = s /\ lockFiles' = Unlocked(s)
      BY <1>7, <2>2 DEF AcquireFails, FlockInv, HolderSteps, Procs
    <3>2. FlockInv' /\ TokenInv' /\ lockFiles' \in Seq(LockFile) /\ Len(lockFiles') = Len(lockFiles)
      BY <2>1, <3>1, LockStep DEF Procs, StartSteps, HolderSteps, OwnerSteps
    <3>3. TypeOK' /\ StepsInv'
      BY <2>1, <3>2 DEF TypeOK, StepsInv, Procs, StartSteps, sess
    <3>4. QED
      BY <3>2, <3>3
  <2>3. CASE pc[s] # "verify"
    <3>1. lockFiles' = lockFiles /\ pc[s] \in {"open", "flock"}
      BY <1>7, <2>3 DEF AcquireFails
    <3>2. TypeOK'
      BY <2>1, <3>1 DEF TypeOK, Procs, StartSteps, sess
    <3>3. QED
      BY <2>1, <3>1, <3>2, MoveStep DEF Procs, StartSteps, HolderSteps, OwnerSteps
  <2>4. QED
    BY <2>2, <2>3
<1>8. QED
  BY <1>1, <1>2, <1>3, <1>4, <1>5, <1>6, <1>7, OwnerStep, MetaStep, FailStep
  DEF Start, Run, Acquire, Metadata, Launch, EndSession

(* Every step of a client: it may take a flock for a moment.                *)
LEMMA ClientStep ==
  ASSUME LockInv, NEW c \in Clients, Client(c)
  PROVE  LockInv'
<1> USE LockAssumption DEF LockInv
<1>1. CASE \/ BeginStop(c) \/ ReadLockPid(c) \/ Dial(c) \/ StopRpc(c) \/ StopRefused(c)
           \/ WaitPid(c) \/ CleanLock(c) \/ CleanSocket(c) \/ ListRead(c) \/ ListDial(c)
  <2> DEFINE free == {"readPid", "dial", "cleanOpen", "rpc", "waitPid", "listDial", "listOpen",
                      "done"}
             held == {"cleanSock", "cleanClose"}
  <2>1. \/ pc[c] \in HolderSteps /\ \E step \in held : pc' = [pc EXCEPT ![c] = step]
        \/ pc[c] \notin HolderSteps /\ \E step \in free : pc' = [pc EXCEPT ![c] = step]
    BY <1>1 DEF HolderSteps, OwnerSteps, BeginStop, ReadLockPid, Dial, StopRpc, StopRefused,
                WaitPid, CleanLock, CleanSocket, ListRead, ListDial, Goto, AfterStop
  <2>2. UNCHANGED <<lockFiles, fd, tries, report, tomb, listening, ready, crashes>>
    BY <1>1 DEF BeginStop, ReadLockPid, Dial, StopRpc, StopRefused, WaitPid, CleanLock,
                CleanSocket, ListRead, ListDial, files, sess, local
  <2>3. /\ lockPath' \in 0 .. Len(lockFiles) /\ sock' \in Starts \cup {None}
        /\ child' \subseteq Starts /\ suppressed' \subseteq Starts
    BY <1>1, FilesAreTyped
    DEF BeginStop, ReadLockPid, Dial, StopRpc, StopRefused, WaitPid, CleanLock, CleanSocket,
        ListRead, ListDial, files, sess, local, TypeOK
  <2>4. TypeOK'
    <3>1. pc' \in [Procs -> StartSteps \cup StopSteps]
      BY <2>1 DEF TypeOK, StopSteps
    <3>2. QED
      BY <2>2, <2>3, <3>1 DEF TypeOK
  <2>5. QED
    BY <2>1, <2>2, <2>4, MoveStep DEF Procs, StopSteps, HolderSteps, OwnerSteps
<1>2. CASE CleanOpen(c) \/ ListOpen(c)
  <2>1. /\ pc[c] \in {"listOpen", "cleanOpen"} /\ fd' = [fd EXCEPT ![c] = lockPath]
        /\ UNCHANGED <<files, sess, tries, report>>
        /\ \E step \in {"done", "cleanFlock", "listFlock"} :
             pc' = [pc EXCEPT ![c] = step] /\ (step # "done" => lockPath # 0)
    BY <1>2 DEF CleanOpen, ListOpen, Goto, AfterStop
  <2>2. TypeOK' /\ StepsInv'
    BY <2>1 DEF TypeOK, StepsInv, Procs, StopSteps, files, sess
  <2>3. \A q \in Procs : q # c => pc'[q] = pc[q] /\ fd'[q] = fd[q]
    BY <2>1 DEF TypeOK
  <2>4. pc[c] \notin HolderSteps /\ pc'[c] \notin HolderSteps
    BY <2>1 DEF TypeOK, HolderSteps, OwnerSteps, Procs
  <2>5. FlockInv' /\ TokenInv'
    BY <2>1, <2>3, <2>4, FilesAreTyped DEF TypeOK, FlockInv, TokenInv, Owns, Procs, files, HolderSteps
  <2>6. QED
    BY <2>2, <2>5
<1>3. CASE CleanFlock(c) \/ ListFlock(c)
  <2>1. pc[c] \in {"cleanFlock", "listFlock"} /\ fd[c] # 0
    BY <1>3 DEF CleanFlock, ListFlock, FlockInv, Procs
  <2>2. UNCHANGED <<lockPath, sock, tomb, sess, fd, tries, report>>
    BY <1>3 DEF CleanFlock, ListFlock, local
  <2>3. CASE lockFiles[fd[c]].holder = None
    <3>1. lockFiles' = Locked(c, c)
          /\ \E step \in {"cleanLock", "cleanClose"} : pc' = [pc EXCEPT ![c] = step]
      BY <1>3, <2>3 DEF CleanFlock, ListFlock, Goto
    <3>2. FlockInv' /\ TokenInv' /\ lockFiles' \in Seq(LockFile) /\ Len(lockFiles') = Len(lockFiles)
      BY <2>1, <2>2, <2>3, <3>1, LockStep DEF Procs, StopSteps, HolderSteps, OwnerSteps
    <3>3. TypeOK' /\ StepsInv'
      BY <2>2, <3>1, <3>2 DEF TypeOK, StepsInv, Procs, StopSteps, sess
    <3>4. QED
      BY <3>2, <3>3
  <2>4. CASE lockFiles[fd[c]].holder # None
    <3>1. lockFiles' = lockFiles /\ pc' = [pc EXCEPT ![c] = "done"]
      BY <1>3, <2>4 DEF CleanFlock, ListFlock, Goto, AfterStop
    <3>2. TypeOK'
      BY <2>2, <3>1 DEF TypeOK, Procs, StopSteps, sess
    <3>3. QED
      BY <2>1, <2>2, <3>1, <3>2, MoveStep DEF Procs, StopSteps, HolderSteps, OwnerSteps
  <2>5. QED
    BY <2>3, <2>4
<1>4. CASE CleanClose(c)
  <2>1. /\ pc[c] \in HolderSteps /\ pc' = [pc EXCEPT ![c] = "done"]
        /\ lockFiles' = Unlocked(c) /\ UNCHANGED <<lockPath, sock, tomb, sess, fd, tries, report>>
    BY <1>4 DEF CleanClose, Goto, AfterStop, HolderSteps, local
  <2>2. FlockInv' /\ TokenInv' /\ lockFiles' \in Seq(LockFile) /\ Len(lockFiles') = Len(lockFiles)
    BY <2>1, LockStep DEF FlockInv, Procs, StopSteps, HolderSteps, OwnerSteps
  <2>3. TypeOK' /\ StepsInv'
    BY <2>1, <2>2 DEF TypeOK, StepsInv, Procs, StopSteps, sess
  <2>4. QED
    BY <2>2, <2>3
<1>5. QED
  BY <1>1, <1>2, <1>3, <1>4 DEF Client, Stop

(* Every reachable state has the shape of LockInv: in particular nobody     *)
(* thinks it has a flock that another has, whatever crashes.                *)
LEMMA LockNext ==
  ASSUME LockInv, [Next]_vars
  PROVE  LockInv'
<1>1. CASE UNCHANGED vars
  BY <1>1 DEF vars, files, sess, local, LockInv, TypeOK, StepsInv, FlockInv, TokenInv, Owns
<1>2. CASE Next
  BY <1>1, <1>2, StartStep, ClientStep DEF Next, Over
<1>3. QED
  BY <1>1, <1>2

LEMMA FlocksAreKnown == Spec => []LockInv
<1>1. LockInv /\ [Next]_vars => LockInv'
  BY LockNext
<1>2. QED
  BY LockInit, <1>1, PTL DEF Spec

-----------------------------------------------------------------------------
(* cleanupStaleSession works on the name and not on the file it has locked, *)
(* and so may remove what belongs to a live session (see the README).  The  *)
(* properties below hold in every behaviour in which it does not: in which  *)
(* what it removes is the file it has locked, and a socket nobody listens   *)
(* on.  In particular they hold without clients.                            *)
RightCleanup == \A c \in Clients : /\ CleanLock(c) => lockPath = fd[c]
                                   /\ CleanSocket(c) => sock \notin listening
CleanupIsRight == [][RightCleanup]_vars

(* The name refers to the file its owner has locked.                        *)
NameInv == \A s \in Starts : Owns(s) => lockPath = fd[s]

OwnerInv == LockInv /\ NameInv

(* So there is one owner at a time: two would have locked one file.         *)
LEMMA OwnersAreOne ==
  ASSUME OwnerInv
  PROVE  OneOwner
  BY DEF OwnerInv, LockInv, NameInv, FlockInv, OneOwner, Owns, HolderSteps, Procs

(* Who begins to own the name, and when the name changes.                   *)
LEMMA StartAndName ==
  ASSUME LockInv, NEW s \in Starts, Start(s)
  PROVE  \/ UNCHANGED <<lockPath, fd>> /\ \A t \in Starts : Owns(t)' => Owns(t)
         \/ VerifyPath(s) /\ lockPath = fd[s] /\ UNCHANGED <<lockPath, fd>>
            /\ \A t \in Starts : Owns(t)' => Owns(t) \/ t = s
         \/ OpenLock(s) /\ (lockPath # 0 => lockPath' = lockPath)
            /\ \A t \in Starts : Owns(t)' => Owns(t) /\ fd'[t] = fd[t]
         \/ Owns(s) /\ RemoveLock(s) /\ \A t \in Starts : Owns(t)' => Owns(t) /\ t # s
<1> USE DEF LockInv, TypeOK, Procs, Owns, OwnerSteps
<1>1. CASE OpenLock(s)
  BY <1>1 DEF OpenLock, Goto
<1>2. CASE VerifyPath(s)
  <2>1. UNCHANGED <<lockPath, fd>> /\ \A t \in Starts : Owns(t)' => Owns(t) \/ t = s
    BY <1>2 DEF VerifyPath, Goto
  <2>2. lockPath # fd[s] => ~Owns(s)'
    BY <1>2 DEF VerifyPath, Goto
  <2>3. QED
    BY <1>2, <2>1, <2>2
<1>3. CASE RemoveLock(s)
  BY <1>3 DEF RemoveLock, Goto
<1>4. CASE \/ BeginStart(s) \/ Flock(s) \/ AcquireFails(s) \/ LauncherGivesUp(s) \/ ChildExit(s)
           \/ Crash(s)
  BY <1>4 DEF BeginStart, Flock, AcquireFails, LauncherGivesUp, ChildExit, Crash, Goto, files, local
<1>5. CASE Metadata(s) \/ Launch(s)
  BY <1>5 DEF Metadata, LauncherClears, LauncherMeta, LauncherFails, DaemonClears, DaemonMeta,
              DaemonFails, Launch, RemoveTombstone, Spawn, RemoveStaleSocket,
              EngineStart, Listen, ReportReady, QuickExit, Goto, files, local
<1>6. CASE \/ EndServe(s) \/ CloseListener(s) \/ TombstoneCheck(s) \/ WriteTombstone(s)
           \/ RemoveCheck(s) \/ RemoveSocket(s) \/ Unlock(s)
  BY <1>6 DEF EndServe, CloseListener, TombstoneCheck, WriteTombstone, RemoveCheck,
              RemoveSocket, Unlock, Goto, files, local
<1>7. QED
  BY <1>1, <1>2, <1>3, <1>4, <1>5, <1>6 DEF Start, Run, Acquire, EndSession

LEMMA ClientAndName ==
  ASSUME LockInv, NEW c \in Clients, Client(c)
  PROVE  \A t \in Starts : /\ Owns(t)' <=> Owns(t)
                           /\ pc'[t] = pc[t] /\ fd'[t] = fd[t]
                           /\ lockPath' = lockPath \/ CleanLock(c)
<1> USE LockAssumption DEF LockInv, TypeOK, Procs, Owns
<1>1. CASE BeginStop(c) \/ Stop(c)
  BY <1>1 DEF BeginStop, Stop, ReadLockPid, Dial, StopRpc, StopRefused, WaitPid, CleanOpen,
              CleanFlock, CleanLock, CleanSocket, CleanClose, Goto, files, local
<1>2. CASE ListRead(c) \/ ListDial(c) \/ ListOpen(c) \/ ListFlock(c)
  BY <1>2 DEF ListRead, ListDial, ListOpen, ListFlock, Goto, files, local
<1>3. QED
  BY <1>1, <1>2 DEF Client

LEMMA OwnerNext ==
  ASSUME OwnerInv, [Next]_vars, [RightCleanup]_vars
  PROVE  OwnerInv'
<1> USE LockAssumption DEF OwnerInv
<1>1. LockInv'
  BY LockNext
<1>2. \A s \in Starts : Owns(s) => fd[s] # 0 /\ lockFiles[fd[s]].holder = s
  BY DEF LockInv, FlockInv, Owns, HolderSteps, Procs
<1>3. CASE UNCHANGED vars
  BY <1>1, <1>3 DEF vars, files, local, NameInv, Owns
<1>4. CASE \E s \in Starts : Start(s)
  BY <1>1, <1>2, <1>4, StartAndName, OwnersAreOne DEF NameInv, OneOwner
<1>5. ASSUME NEW c \in Clients, Client(c), RightCleanup
      PROVE  OwnerInv'
  <2>1. CASE CleanLock(c)
    <3>1. pc[c] \in HolderSteps /\ lockPath = fd[c]
      BY <1>5, <2>1 DEF RightCleanup, CleanLock, HolderSteps
    <3>2. lockFiles[lockPath].holder = c
      BY <3>1 DEF LockInv, FlockInv, Procs
    <3>3. \A s \in Starts : ~Owns(s)
      BY <1>2, <3>2 DEF NameInv
    <3>4. QED
      BY <1>1, <1>5, <3>3, ClientAndName DEF NameInv
  <2>2. CASE ~CleanLock(c)
    BY <1>1, <1>5, <2>2, ClientAndName DEF NameInv
  <2>3. QED
    BY <2>1, <2>2
<1>6. QED
  BY <1>3, <1>4, <1>5 DEF Next, Over

(* One generation at a time is between taking and giving up the name        *)
(* (acquireSessionLock, removeSessionFilesForGeneration): whatever the      *)
(* interleaving of starts, ends, crashes, stops and lists.                  *)
THEOREM NameStaysExclusive == Spec /\ CleanupIsRight => []NameIsExclusive
<1>1. Init => OwnerInv
  BY LockInit DEF Init, OwnerInv, NameInv, Owns, OwnerSteps, Procs
<1>2. OwnerInv /\ [Next]_vars /\ [RightCleanup]_vars => OwnerInv'
  BY OwnerNext
<1>3. OwnerInv => NameIsExclusive
  BY OwnersAreOne DEF OwnerInv, LockInv, NameIsExclusive
<1>4. QED
  BY <1>1, <1>2, <1>3, PTL DEF Spec, CleanupIsRight

-----------------------------------------------------------------------------
(* The socket and the tombstone belong to the owner.                        *)
SocketInv ==
  \A s \in Starts : pc[s] \in {"window", "serve"} => sock = s /\ s \in listening

ServingInv == OwnerInv /\ SocketInv /\ TombstoneIsLatest

(* A step moves one start.                                                  *)
LEMMA OthersStay ==
  ASSUME LockInv, NEW s \in Starts, Start(s)
  PROVE  \A t \in Procs : t # s => pc'[t] = pc[t]
<1> USE DEF LockInv, TypeOK, Procs, Goto
<1>1. CASE BeginStart(s) \/ Acquire(s)
  BY <1>1 DEF BeginStart, Acquire, OpenLock, Flock, VerifyPath, AcquireFails
<1>2. CASE LauncherGivesUp(s) \/ ChildExit(s) \/ Crash(s)
  BY <1>2 DEF LauncherGivesUp, ChildExit, Crash
<1>3. CASE Metadata(s) \/ Launch(s)
  BY <1>3 DEF Metadata, LauncherClears, LauncherMeta, LauncherFails, DaemonClears, DaemonMeta,
              DaemonFails, Launch, RemoveTombstone, Spawn, RemoveStaleSocket,
              EngineStart, Listen, ReportReady, QuickExit
<1>4. CASE EndSession(s)
  BY <1>4 DEF EndSession, EndServe, CloseListener, TombstoneCheck, WriteTombstone, RemoveCheck,
              RemoveSocket, RemoveLock, Unlock
<1>5. QED
  BY <1>1, <1>2, <1>3, <1>4 DEF Start, Run

(* A start that does not own the name leaves both alone.                    *)
LEMMA OutsiderStep ==
  ASSUME OwnerInv, NEW s \in Starts, Start(s), ~Owns(s)
  PROVE  /\ UNCHANGED <<sock, tomb>> /\ listening \ {s} \subseteq listening'
         /\ Owns(s)' => pc'[s] = "writeMeta"
<1> USE DEF OwnerInv, LockInv, TypeOK, Procs, Owns, OwnerSteps
<1>1. CASE BeginStart(s) \/ OpenLock(s) \/ Flock(s) \/ VerifyPath(s) \/ AcquireFails(s)
  BY <1>1 DEF BeginStart, OpenLock, Flock, VerifyPath, AcquireFails, Goto, files, sess, local
<1>2. CASE LauncherGivesUp(s) \/ ChildExit(s) \/ Crash(s) \/ Unlock(s)
  BY <1>2 DEF LauncherGivesUp, ChildExit, Crash, Unlock, Goto, files, sess, local
<1>3. CASE Metadata(s) \/ Launch(s) \/ (EndSession(s) /\ ~Unlock(s))
  BY <1>3 DEF Metadata, LauncherClears, LauncherMeta, LauncherFails, DaemonClears, DaemonMeta,
              DaemonFails, Launch, RemoveTombstone, Spawn, RemoveStaleSocket,
              EngineStart, Listen, ReportReady, QuickExit, EndSession, EndServe, CloseListener,
              TombstoneCheck, WriteTombstone, RemoveCheck, RemoveSocket, RemoveLock
<1>4. QED
  BY <1>1, <1>2, <1>3 DEF Start, Run, Acquire

(* What the owner does to its own socket and to the tombstone.              *)
LEMMA InsiderStep ==
  ASSUME OwnerInv, SocketInv, TombstoneIsLatest, NEW s \in Starts, Start(s), Owns(s)
  PROVE  /\ pc'[s] \in {"window", "serve"} => sock' = s /\ s \in listening'
         /\ tomb' # None /\ Owns(s)' /\ pc'[s] \notin {"writeMeta", "launcherMeta", "clearTomb"} => tomb' = s
<1> USE DEF OwnerInv, LockInv, TypeOK, Procs, Owns, OwnerSteps, SocketInv, TombstoneIsLatest
<1>1. CASE BeginStart(s) \/ Acquire(s)
  BY <1>1 DEF BeginStart, Acquire, OpenLock, Flock, VerifyPath, AcquireFails
<1>2. CASE LauncherGivesUp(s) \/ ChildExit(s) \/ Crash(s) \/ Unlock(s)
  BY <1>2 DEF LauncherGivesUp, ChildExit, Crash, Unlock, Goto, files, sess, local
<1>3. CASE Metadata(s) \/ Launch(s)
  BY <1>3 DEF Metadata, LauncherClears, LauncherMeta, LauncherFails, DaemonClears, DaemonMeta,
              DaemonFails, Launch, RemoveTombstone, Spawn, RemoveStaleSocket,
              EngineStart, Listen, ReportReady, QuickExit, Goto, files, sess, local
<1>4. CASE EndSession(s) /\ ~Unlock(s)
  BY <1>4 DEF EndSession, EndServe, CloseListener, TombstoneCheck, WriteTombstone, RemoveCheck,
              RemoveSocket, RemoveLock, Goto, files, sess, local
<1>5. QED
  BY <1>1, <1>2, <1>3, <1>4 DEF Start, Run

LEMMA ServingNext ==
  ASSUME ServingInv, [Next]_vars, [RightCleanup]_vars
  PROVE  ServingInv'
<1> USE DEF ServingInv
<1>1. OwnerInv' /\ OneOwner /\ OneOwner'
  BY OwnerNext, OwnersAreOne, PTL
<1>2. CASE UNCHANGED vars
  BY <1>1, <1>2 DEF vars, files, sess, local, SocketInv, TombstoneIsLatest, Owns
<1>3. ASSUME NEW s \in Starts, Start(s)
      PROVE  SocketInv' /\ TombstoneIsLatest'
  <2>1. \A t \in Starts : t # s => pc'[t] = pc[t]
    BY <1>3, OthersStay DEF OwnerInv, Procs
  <2>2. CASE Owns(s)
    <3>1. \A t \in Starts : t # s => ~Owns(t)'
      BY <1>1, <2>1, <2>2 DEF OneOwner, Owns
    <3>2. QED
      BY <1>3, <2>2, <3>1, InsiderStep DEF SocketInv, TombstoneIsLatest, Owns, OwnerSteps
  <2>3. CASE ~Owns(s)
    BY <1>3, <2>1, <2>3, OutsiderStep DEF SocketInv, TombstoneIsLatest, Owns, OwnerSteps
  <2>4. QED
    BY <2>2, <2>3
<1>4. ASSUME NEW c \in Clients, Client(c), RightCleanup
      PROVE  SocketInv' /\ TombstoneIsLatest'
  <2>1. \A t \in Starts : pc'[t] = pc[t]
    BY <1>4, ClientAndName DEF OwnerInv
  <2>2. UNCHANGED <<tomb, listening>> /\ (sock' = sock \/ sock \notin listening)
    BY <1>4
    DEF Client, BeginStop, Stop, ReadLockPid, Dial, StopRpc, StopRefused, WaitPid, CleanOpen,
        CleanFlock, CleanLock, CleanSocket, CleanClose, ListRead, ListDial, ListOpen, ListFlock, RightCleanup,
        files, sess
  <2>3. QED
    BY <2>1, <2>2 DEF SocketInv, TombstoneIsLatest, Owns
<1>5. QED
  BY <1>1, <1>2, <1>3, <1>4 DEF Next, Over

LEMMA ServingHolds == Spec /\ CleanupIsRight => []ServingInv
<1>1. Init => ServingInv
  BY LockInit
  DEF Init, ServingInv, OwnerInv, NameInv, SocketInv, TombstoneIsLatest, Owns, OwnerSteps, Procs
<1>2. ServingInv /\ [Next]_vars /\ [RightCleanup]_vars => ServingInv'
  BY ServingNext
<1>3. QED
  BY <1>1, <1>2, PTL DEF Spec, CleanupIsRight

(* The lock and the socket of a session that serves are its own, until it   *)
(* ends them itself (daemonize.go:296-299): the teardown of an earlier      *)
(* generation looks at the token before it removes anything by name.        *)
THEOREM OwnersKeepFiles == Spec /\ CleanupIsRight => []OwnerKeepsFiles
<1>1. ServingInv => OwnerKeepsFiles
  <2> SUFFICES ASSUME ServingInv, NEW s \in Starts, pc[s] \in {"window", "serve"}
               PROVE  sock = s /\ s \in listening /\ PathToken = s
    BY DEF OwnerKeepsFiles
  <2>1. lockPath = fd[s] /\ fd[s] # 0 /\ lockFiles[fd[s]].token = s
    BY DEF ServingInv, OwnerInv, LockInv, NameInv, FlockInv, TokenInv, Owns, OwnerSteps,
           MetaSteps, HolderSteps, Procs
  <2>2. QED
    BY <2>1 DEF ServingInv, SocketInv, PathToken
<1>2. QED
  BY <1>1, ServingHolds, PTL

(* A tombstone is gone before the successor's daemon is spawned, and no     *)
(* earlier generation writes one after that (daemonize.go:430-432).         *)
THEOREM TombstonesAreLatest == Spec /\ CleanupIsRight => []TombstoneIsLatest
  BY ServingHolds, PTL DEF ServingInv

(* Starts, ends and crashes alone never disturb each other: without a stop  *)
(* or ls command at work, all three hold of every behaviour.                *)
COROLLARY StartsAreSafe ==
  ASSUME Clients = {}
  PROVE  Spec => [](NameIsExclusive /\ OwnerKeepsFiles /\ TombstoneIsLatest)
<1>1. RightCleanup
  BY DEF RightCleanup
<1>2. CleanupIsRight
  BY <1>1, PTL DEF CleanupIsRight
<1>3. QED
  BY <1>2, NameStaysExclusive, OwnersKeepFiles, TombstonesAreLatest, PTL


-----------------------------------------------------------------------------
(* As long as nobody crashes, a lock file that a daemon has taken over has  *)
(* that daemon to remove it, and the socket is a daemon's that will.  This  *)
(* holds whatever cleanupStaleSession removes.                              *)
TakenSteps == {"clearSock", "engine", "listen", "window", "serve", "closeSock", "tombCheck",
               "tombWrite", "removeCheck", "removeSock", "removeLock"}
SocketSteps == {"window", "serve", "closeSock"}

NameKept ==
  lockPath # 0 /\ lockFiles[lockPath].role = "daemon" =>
    \E s \in Starts : fd[s] = lockPath /\ pc[s] \in TakenSteps
SocketKept == sock # None => sock \in listening /\ pc[sock] \in SocketSteps

KeptInv == NameKept /\ SocketKept

EndInv == LockInv /\ (crashes = 0 => KeptInv)

(* A flock taken or given up leaves what the files say alone.               *)
LEMMA RolesStay ==
  ASSUME LockInv, NEW p \in Procs, fd[p] # 0, NEW h \in Procs \cup {None},
         lockFiles' = Locked(p, h), lockPath # 0
  PROVE  lockFiles'[lockPath].role = lockFiles[lockPath].role
<1>1. lockPath \in DOMAIN lockFiles /\ TypeOK
  BY FilesAreTyped DEF LockInv, TypeOK
<1>2. QED
  BY <1>1, LockedFiles

LEMMA StartKeeps ==
  ASSUME LockInv, KeptInv, NEW s \in Starts, Start(s), ~Crash(s)
  PROVE  KeptInv'
<1> USE LockAssumption DEF LockInv, TypeOK, Procs, Goto
<1> USE DEF KeptInv, NameKept, SocketKept, TakenSteps, SocketSteps
<1>1. \A p \in Procs : p # s => pc'[p] = pc[p]
  BY OthersStay
<1>2. s \in Procs /\ s \notin Clients
  OBVIOUS
<1>3. CASE BeginStart(s) \/ LauncherGivesUp(s) \/ ChildExit(s)
  <2>1. UNCHANGED <<files, fd, listening>>
    BY <1>3 DEF BeginStart, LauncherGivesUp, ChildExit, sess, local
  <2>2. pc' = pc \/ (pc[s] = "idle" /\ pc'[s] = "open")
    BY <1>2, <1>3 DEF BeginStart, LauncherGivesUp, ChildExit
  <2>3. QED
    BY <1>1, <1>2, <2>1, <2>2 DEF files
<1>4. CASE OpenLock(s)
  <2>1. /\ UNCHANGED <<sock, listening>> /\ \A p \in Procs : p # s => fd'[p] = fd[p]
        /\ pc[s] = "open"
    BY <1>4 DEF OpenLock, sess
  <2>2. CASE lockPath = 0
    <3> DEFINE fresh == [holder |-> None, token |-> None, role |-> "none"]
    <3>1. lockFiles' = Append(lockFiles, fresh) /\ lockPath' = Len(lockFiles) + 1
      BY <1>4, <2>2 DEF OpenLock
    <3>2. fresh.role = "none" /\ lockFiles \in Seq(LockFile)
      OBVIOUS
    <3> HIDE DEF fresh
    <3>3. lockFiles'[lockPath'] = fresh
      BY <3>1, <3>2
    <3>4. QED
      BY <1>1, <2>1, <3>2, <3>3
  <2>3. CASE lockPath # 0
    BY <1>1, <1>4, <2>1, <2>3 DEF OpenLock
  <2>4. QED
    BY <2>2, <2>3
<1>5. CASE Flock(s) \/ VerifyPath(s) \/ AcquireFails(s) \/ Unlock(s)
  <2>1. /\ UNCHANGED <<lockPath, fd, sock, listening>>
        /\ pc[s] \in {"open", "flock", "verify", "unlock"}
    BY <1>5 DEF Flock, VerifyPath, AcquireFails, Unlock, sess
  <2>2. \/ lockFiles' = lockFiles
        \/ fd[s] # 0 /\ \E h \in {s, None} : lockFiles' = Locked(s, h)
    BY <1>5 DEF Flock, VerifyPath, AcquireFails, Unlock, Unlocked, FlockInv, HolderSteps
  <2>3. lockPath # 0 => lockFiles'[lockPath].role = lockFiles[lockPath].role
    BY <2>2, RolesStay
  <2>4. QED
    BY <1>1, <2>1, <2>3
<1>6. CASE LauncherFails(s) \/ DaemonFails(s)
  <2>1. UNCHANGED <<files, fd, listening>> /\ pc[s] \notin TakenSteps
    BY <1>6 DEF LauncherFails, DaemonFails, sess, local
  <2>2. QED
    BY <1>1, <2>1 DEF files
<1>7. CASE LauncherClears(s) \/ LauncherMeta(s) \/ DaemonClears(s) \/ DaemonMeta(s)
  <2>1. PICK token \in {s, None}, role \in {"none", "launcher", "daemon"} :
          WriteMeta(s, token, role) /\ (role = "daemon" => pc'[s] = "clearSock")
    BY <1>2, <1>7 DEF LauncherClears, LauncherMeta, DaemonClears, DaemonMeta
  <2>2. UNCHANGED <<lockPath, fd, sock, listening>> /\ pc[s] \notin TakenSteps /\ fd[s] # 0
    BY <1>7 DEF LauncherClears, LauncherMeta, DaemonClears, DaemonMeta, sess, local, FlockInv,
                HolderSteps, OwnerSteps
  <2>3. \A j \in DOMAIN lockFiles :
          lockFiles'[j].role = IF j = fd[s] THEN role ELSE lockFiles[j].role
    BY <2>1, <2>2, MetaUpdate
  <2>4. lockPath # 0 => lockPath \in DOMAIN lockFiles
    BY FilesAreTyped
  <2>5. QED
    BY <1>1, <2>1, <2>2, <2>3, <2>4
<1>8. CASE Launch(s)
  <2>1. UNCHANGED <<lockFiles, lockPath, fd>>
    BY <1>8 DEF Launch, RemoveTombstone, Spawn, RemoveStaleSocket, EngineStart, Listen,
                ReportReady, QuickExit, files, sess, local
  <2>2. pc[s] \in TakenSteps => pc'[s] \in TakenSteps
    BY <1>2, <1>8 DEF Launch, RemoveTombstone, Spawn, RemoveStaleSocket, EngineStart, Listen,
                ReportReady, QuickExit
  <2>3. SocketKept'
    BY <1>1, <1>8 DEF Launch, RemoveTombstone, Spawn, RemoveStaleSocket, EngineStart, Listen,
                ReportReady, QuickExit, files, sess, local
  <2> QED
    BY <1>1, <1>2, <2>1, <2>2, <2>3
<1>9. CASE EndServe(s) \/ CloseListener(s) \/ TombstoneCheck(s) \/ WriteTombstone(s) \/ RemoveSocket(s)
  <2>1. UNCHANGED <<lockFiles, lockPath, fd>> /\ pc'[s] \in TakenSteps
    BY <1>2, <1>9 DEF EndServe, CloseListener, TombstoneCheck, WriteTombstone, RemoveSocket, files,
                sess, local
  <2>2. SocketKept'
    BY <1>1, <1>9 DEF EndServe, CloseListener, TombstoneCheck, WriteTombstone, RemoveSocket,
                      files, sess, local
  <2> QED
    BY <1>1, <1>2, <2>1, <2>2
<1>10. CASE RemoveCheck(s)
  <2>1. UNCHANGED <<files, fd, listening>> /\ pc[s] = "removeCheck"
    BY <1>10 DEF RemoveCheck, sess, local
  <2>2. lockFiles[fd[s]].token = s /\ fd[s] # 0
    BY <2>1 DEF TokenInv, Owns, OwnerSteps, MetaSteps, FlockInv, HolderSteps
  <2>3. fd[s] = lockPath => pc'[s] = "removeSock"
    BY <1>2, <1>10, <2>2 DEF RemoveCheck, PathToken
  <2> QED
    BY <1>1, <1>2, <2>1, <2>3 DEF files
<1>11. CASE RemoveLock(s)
  <2>1. lockPath' = 0 /\ UNCHANGED <<sock, listening>> /\ pc[s] = "removeLock"
    BY <1>11 DEF RemoveLock, sess
  <2> QED
    BY <1>1, <2>1
<1>12. QED
  BY <1>3, <1>4, <1>5, <1>6, <1>7, <1>8, <1>9, <1>10, <1>11
  DEF Start, Run, Acquire, Metadata, EndSession

LEMMA ClientKeeps ==
  ASSUME LockInv, KeptInv, NEW c \in Clients, Client(c)
  PROVE  KeptInv'
<1> USE DEF KeptInv, NameKept, SocketKept
<1>1. \A t \in Starts : pc'[t] = pc[t] /\ fd'[t] = fd[t]
  BY ClientAndName
<1>2. /\ listening' = listening /\ sock' \in {sock, None} /\ lockPath' \in {lockPath, 0}
      /\ \/ lockFiles' = lockFiles
         \/ pc[c] \in {"cleanFlock", "listFlock", "cleanClose"}
            /\ \E h \in {c, None} : lockFiles' = Locked(c, h)
  BY DEF Client, BeginStop, Stop, ReadLockPid, Dial, StopRpc, StopRefused, WaitPid, CleanOpen,
         CleanFlock, CleanLock, CleanSocket, CleanClose, ListRead, ListDial, ListOpen, ListFlock,
         Unlocked, files, sess
<1>3. pc[c] \in {"cleanFlock", "listFlock", "cleanClose"} => fd[c] # 0
  BY DEF LockInv, FlockInv, HolderSteps, Procs
<1>4. lockPath # 0 => lockFiles'[lockPath].role = lockFiles[lockPath].role
  BY <1>2, <1>3, RolesStay DEF Procs
<1>5. sock # None => sock \in Starts
  BY DEF LockInv, TypeOK
<1>6. QED
  BY <1>1, <1>2, <1>4, <1>5

(* Only a crash counts as one, and it does.                                 *)
LEMMA CrashCounts ==
  ASSUME LockInv, [Next]_vars, crashes' = 0
  PROVE  crashes = 0 /\ \A s \in Starts : ~Crash(s)
<1> USE DEF LockInv, TypeOK
<1>1. \A s \in Starts : ~Crash(s)
  BY DEF Crash
<1>2. ASSUME NEW s \in Starts, Start(s)
      PROVE  crashes' = crashes
  BY <1>1, <1>2
  DEF Start, BeginStart, Run, Acquire, OpenLock, Flock, VerifyPath, AcquireFails, Metadata,
      LauncherClears, LauncherMeta, LauncherFails, DaemonClears, DaemonMeta, DaemonFails,
      Launch, RemoveTombstone, Spawn, RemoveStaleSocket, EngineStart, Listen, ReportReady,
      QuickExit, EndSession, EndServe, CloseListener, TombstoneCheck, WriteTombstone,
      RemoveCheck, RemoveSocket, RemoveLock, Unlock, LauncherGivesUp, ChildExit, sess
<1>3. ASSUME NEW c \in Clients, Client(c)
      PROVE  crashes' = crashes
  BY <1>3
  DEF Client, BeginStop, Stop, ReadLockPid, Dial, StopRpc, StopRefused, WaitPid, CleanOpen,
      CleanFlock, CleanLock, CleanSocket, CleanClose, ListRead, ListDial, ListOpen, ListFlock, sess
<1>4. QED
  BY <1>1, <1>2, <1>3 DEF Next, Over, vars, sess

LEMMA EndNext ==
  ASSUME EndInv, [Next]_vars
  PROVE  EndInv'
<1> USE DEF EndInv
<1>1. LockInv'
  BY LockNext
<1>2. ASSUME crashes' = 0
      PROVE  KeptInv'
  <2>1. KeptInv /\ \A s \in Starts : ~Crash(s)
    BY <1>2, CrashCounts
  <2>2. CASE UNCHANGED vars
    BY <2>1, <2>2 DEF vars, files, sess, local, KeptInv, NameKept, SocketKept
  <2>3. CASE \E s \in Starts : Start(s)
    BY <2>1, <2>3, StartKeeps
  <2>4. CASE \E c \in Clients : Client(c)
    BY <2>1, <2>4, ClientKeeps
  <2>5. QED
    BY <2>2, <2>3, <2>4 DEF Next, Over
<1>3. QED
  BY <1>1, <1>2

(* Unless somebody was killed, a state directory in which nobody is at work *)
(* has no socket, and no lock file that a daemon has taken over, whatever   *)
(* stop and ls do meanwhile (removeSessionFilesForGeneration,               *)
(* cleanupStaleSession).  What may be left is the lock file of a start that *)
(* came to nothing before.                                                  *)
THEOREM EndsLeaveNoFiles == Spec => []EndLeavesNoFiles
<1>1. Init => EndInv
  BY LockInit, LockAssumption DEF Init, EndInv, KeptInv, NameKept, SocketKept
<1>2. EndInv /\ [Next]_vars => EndInv'
  BY EndNext
<1>3. EndInv => EndLeavesNoFiles
  <2> SUFFICES ASSUME EndInv, crashes = 0, \A p \in Procs : pc[p] \in {"idle", "gone", "done"}
               PROVE  sock = None /\ (lockPath # 0 => lockFiles[lockPath].role # "daemon")
    BY DEF EndLeavesNoFiles
  <2>1. lockPath # 0 => lockFiles[lockPath].role # "daemon"
    BY DEF EndInv, KeptInv, NameKept, TakenSteps, Procs
  <2>2. sock = None
    BY DEF EndInv, KeptInv, SocketKept, SocketSteps, LockInv, TypeOK, Procs
  <2>3. QED
    BY <2>1, <2>2
<1>4. QED
  BY <1>1, <1>2, <1>3, PTL DEF Spec
=============================================================================
