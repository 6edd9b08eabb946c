------------------------------ MODULE FileLock ------------------------------
(***************************************************************************)
(* internal/flock: an advisory lock on the file LOCK of a directory.       *)
(*                                                                         *)
(* flock(2) locks the file behind a descriptor, not the name it was opened *)
(* by, and Release removes the name after it has unlocked.  So files have  *)
(* an identity here, an inode, and the name LOCK refers to one of them or  *)
(* to none.  An inode without a name and without a descriptor is free to   *)
(* be used again.  Each system call is one step; a process runs one call   *)
(* of the package at a time and may be killed at any point.                *)
(***************************************************************************)
EXTENDS Naturals, FiniteSets

CONSTANTS
  Proc,        \* processes; the pid a process writes is itself
  Inode,       \* inodes of the file system
  NoFile,      \* no file
  NoPID,       \* a lock file that holds no pid
  MaxAttempts  \* bound: failed attempts before AcquireWithRetry's deadline

ASSUME LockAssumption ==
  /\ NoFile \notin Inode
  /\ NoPID \notin Proc
  /\ MaxAttempts \in Nat

VARIABLES
  path,      \* the inode named LOCK
  content,   \* the pid in a file, by inode
  fd,        \* the file a process has open: Lock.f, or the local f of a call
  pc,        \* where a process is
  left,      \* attempts left before the deadline of AcquireWithRetry
  unmarked,  \* history: holders whose diagnostic write failed
  raced      \* history: a LOCK that somebody had open was removed

vars == <<path, content, fd, pc, left, unmarked, raced>>

(***************************************************************************)
(* out: in no call.  opened: Acquire has opened the file.  locked: and got *)
(* the lock.  blank: and truncated the file.  held: Acquire has returned a *)
(* Lock.  unlocked: Release has unlocked and closed the file.  sleep:      *)
(* between two attempts of AcquireWithRetry.  probe, probed: IsHeld has    *)
(* opened the file, and got the lock.                                      *)
(***************************************************************************)
PC == {"out", "opened", "locked", "blank", "held", "unlocked", "sleep", "probe", "probed"}

TypeOK ==
  /\ path \in Inode \cup {NoFile}
  /\ content \in [Inode -> Proc \cup {NoPID}]
  /\ fd \in [Proc -> Inode \cup {NoFile}]
  /\ pc \in [Proc -> PC]
  /\ left \in [Proc -> 0 .. MaxAttempts]
  /\ unmarked \subseteq Proc
  /\ raced \in BOOLEAN

\* The processes that have the flock(2) lock of a file.
Locking == {"locked", "blank", "held", "probed"}
Holders(i) == {p \in Proc : fd[p] = i /\ pc[p] \in Locking}

Goto(p, l) == pc' = [pc EXCEPT ![p] = l]

Free(i) == i # path /\ \A p \in Proc : fd[p] # i

\* os.OpenFile with O_CREATE; the open that both callers of Acquire do.
OpenFile(p) ==
  /\ \/ path # NoFile /\ UNCHANGED <<path, content>>
     \/ /\ path = NoFile
        /\ \E i \in Inode :
             /\ Free(i)
             /\ path' = i
             /\ content' = [content EXCEPT ![i] = NoPID]
  /\ fd' = [fd EXCEPT ![p] = path']
  /\ Goto(p, "opened")
  /\ UNCHANGED <<unmarked, raced>>

\* The first attempt: of Acquire with n = 0, of AcquireWithRetry otherwise.
Acquire(p, n) ==
  /\ pc[p] = "out"
  /\ OpenFile(p)
  /\ left' = [left EXCEPT ![p] = n]

\* AcquireWithRetry wakes up and calls Acquire again.
Retry(p) ==
  /\ pc[p] = "sleep"
  /\ OpenFile(p)
  /\ UNCHANGED left

\* Wrong: tryLock takes EWOULDBLOCK for success.
TryLockAlways(p) ==
  /\ pc[p] = "opened" /\ Goto(p, "locked")
  /\ UNCHANGED <<path, content, fd, left, unmarked, raced>>

\* Acquire's tryLock succeeds.
TryLock(p) ==
  /\ pc[p] = "opened" /\ Holders(fd[p]) = {}
  /\ Goto(p, "locked")
  /\ UNCHANGED <<path, content, fd, left, unmarked, raced>>

\* Wrong: the pid is written before the lock is tried.
LockedAfterMark(p) ==
  /\ pc[p] = "opened" /\ Holders(fd[p]) # {}
  /\ content' = [content EXCEPT ![fd[p]] = p]
  /\ fd' = [fd EXCEPT ![p] = NoFile] /\ Goto(p, "out")
  /\ UNCHANGED <<path, left, unmarked, raced>>

\* Wrong: the deadline is never looked at.
LockedForever(p) ==
  /\ pc[p] = "opened" /\ Holders(fd[p]) # {}
  /\ fd' = [fd EXCEPT ![p] = NoFile]
  /\ Goto(p, IF left[p] > 0 THEN "sleep" ELSE "out")
  /\ UNCHANGED <<path, content, left, unmarked, raced>>

\* Acquire's tryLock finds the file locked and Acquire returns ErrLocked;
\* AcquireWithRetry sleeps unless its deadline has passed.
Locked(p) ==
  /\ pc[p] = "opened" /\ Holders(fd[p]) # {}
  /\ fd' = [fd EXCEPT ![p] = NoFile]
  /\ IF left[p] > 0
       THEN Goto(p, "sleep") /\ left' = [left EXCEPT ![p] = @ - 1]
       ELSE Goto(p, "out") /\ UNCHANGED left
  /\ UNCHANGED <<path, content, unmarked, raced>>

\* Any other error of mkdir, open or flock ends the call.
AcquireFails(p) ==
  /\ pc[p] \in {"opened", "sleep"}
  /\ fd' = [fd EXCEPT ![p] = NoFile] /\ Goto(p, "out")
  /\ UNCHANGED <<path, content, left, unmarked, raced>>

\* f.Truncate(0), whose failure skips the write that would follow.
Truncate(p) ==
  /\ pc[p] = "locked"
  /\ \/ /\ content' = [content EXCEPT ![fd[p]] = NoPID]
        /\ Goto(p, "blank") /\ UNCHANGED unmarked
     \/ /\ unmarked' = unmarked \cup {p}
        /\ Goto(p, "held") /\ UNCHANGED content
  /\ UNCHANGED <<path, fd, left, raced>>

\* f.WriteAt(content, 0), whose error is dropped.
WritePID(p) ==
  /\ pc[p] = "blank"
  /\ \/ content' = [content EXCEPT ![fd[p]] = p] /\ UNCHANGED unmarked
     \/ unmarked' = unmarked \cup {p} /\ UNCHANGED content
  /\ Goto(p, "held")
  /\ UNCHANGED <<path, fd, left, raced>>

\* Release: unlock and close.
Unlock(p) ==
  /\ pc[p] = "held"
  /\ fd' = [fd EXCEPT ![p] = NoFile] /\ Goto(p, "unlocked")
  /\ unmarked' = unmarked \ {p}
  /\ UNCHANGED <<path, content, left, raced>>

\* Release: unlock fails; the file is closed, which unlocks it, and stays.
UnlockFails(p) ==
  /\ pc[p] = "held"
  /\ fd' = [fd EXCEPT ![p] = NoFile] /\ Goto(p, "out")
  /\ unmarked' = unmarked \ {p}
  /\ UNCHANGED <<path, content, left, raced>>

\* Release: os.Remove(l.path), whatever file the name refers to by now, or
\* an error that is dropped.
Remove(p) ==
  /\ pc[p] = "unlocked"
  /\ \/ /\ path' = NoFile
        /\ raced' = (raced \/ (path # NoFile /\ \E q \in Proc : fd[q] = path))
     \/ UNCHANGED <<path, raced>>
  /\ Goto(p, "out")
  /\ UNCHANGED <<content, fd, left, unmarked>>

\* IsHeld: open without O_CREATE, try the lock, and give it back.
IsHeldOpen(p) ==
  /\ pc[p] = "out" /\ path # NoFile
  /\ fd' = [fd EXCEPT ![p] = path] /\ Goto(p, "probe")
  /\ UNCHANGED <<path, content, left, unmarked, raced>>

IsHeldTryLock(p) ==
  /\ pc[p] = "probe"
  /\ IF Holders(fd[p]) = {}
       THEN Goto(p, "probed") /\ UNCHANGED fd
       ELSE Goto(p, "out") /\ fd' = [fd EXCEPT ![p] = NoFile]
  /\ UNCHANGED <<path, content, left, unmarked, raced>>

IsHeldUnlock(p) ==
  /\ pc[p] = "probed"
  /\ fd' = [fd EXCEPT ![p] = NoFile] /\ Goto(p, "out")
  /\ UNCHANGED <<path, content, left, unmarked, raced>>

\* The process dies: its descriptors are closed, the file LOCK stays.
Kill(p) ==
  /\ pc[p] # "out"
  /\ fd' = [fd EXCEPT ![p] = NoFile] /\ Goto(p, "out")
  /\ unmarked' = unmarked \ {p}
  /\ UNCHANGED <<path, content, left, raced>>

\* The steps of a call that is under way; when to call Release, or whether,
\* is the client's choice.
CallStep(p) ==
  \/ Retry(p) \/ TryLock(p) \/ Locked(p) \/ AcquireFails(p)
  \/ Truncate(p) \/ WritePID(p) \/ Remove(p)
  \/ IsHeldTryLock(p) \/ IsHeldUnlock(p)

Init ==
  /\ path = NoFile
  /\ content = [i \in Inode |-> NoPID]
  /\ fd = [p \in Proc |-> NoFile]
  /\ pc = [p \in Proc |-> "out"]
  /\ left = [p \in Proc |-> 0]
  /\ unmarked = {}
  /\ raced = FALSE

Next ==
  \E p \in Proc :
    \/ \E n \in 0 .. MaxAttempts : Acquire(p, n)
    \/ IsHeldOpen(p) \/ CallStep(p)
    \/ Unlock(p) \/ UnlockFails(p) \/ Kill(p)

Spec == Init /\ [][Next]_vars

\* A process that is in a call of the package keeps running.
FairSpec == Spec /\ \A p \in Proc : WF_vars(CallStep(p))

(***************************************************************************)
(* Only one process at a time has the directory locked, and no kill, no    *)
(* probe by IsHeld and no failed call changes that, as long as no Release  *)
(* removes a LOCK that another process has already opened: the window      *)
(* between unlock and os.Remove is the only way to two owners.             *)
(***************************************************************************)
ExclusiveUnlessRaced ==
  ~raced => \A p, q \in Proc :
    (pc[p] \in Locking /\ pc[q] \in Locking) => p = q

(***************************************************************************)
(* The pid in the lock file of a process that owns the lock is its own,    *)
(* whatever other callers tried meanwhile and whatever a killed owner left *)
(* in the file, unless its own diagnostic write failed (Acquire, read back *)
(* by OwnerPID and ReadOwner).  This holds on both sides of a lost race.   *)
(***************************************************************************)
OwnerOnRecord ==
  \A p \in Proc : (pc[p] = "held" /\ p \notin unmarked) => content[fd[p]] = p

(***************************************************************************)
(* AcquireWithRetry returns: with the lock, with an error, or because its  *)
(* deadline has passed, however often others take and release the lock.    *)
(***************************************************************************)
RetryReturns == \A p \in Proc : pc[p] = "sleep" ~> pc[p] \in {"out", "held"}

\* "Only one process at a time should open a bitcask directory for writing;
\* the lock file prevents concurrent access" (flock.go, package comment).
MutualExclusion ==
  \A p, q \in Proc : (pc[p] = "held" /\ pc[q] = "held") => p = q
=============================================================================
