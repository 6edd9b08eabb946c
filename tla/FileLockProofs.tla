--------------------------- MODULE FileLockProofs ---------------------------
(***************************************************************************)
(* Proofs about FileLock, for any set of processes and of inodes.          *)
(***************************************************************************)
EXTENDS FileLock, TLAPS

\* A process has a file open in the middle of a call, and while it owns the lock.
Descriptors ==
  \A p \in Proc : fd[p] = NoFile <=> pc[p] \in {"out", "unlocked", "sleep"}

\* What flock(2) gives: one holder for each file, whatever its name.
OnePerFile ==
  \A p, q \in Proc :
    (pc[p] \in Locking /\ pc[q] \in Locking /\ fd[p] = fd[q]) => p = q

\* Without a race, every file that is open is the one LOCK refers to.
OpenIsNamed == ~raced => \A p \in Proc : fd[p] \in {NoFile, path}

LockInv == TypeOK /\ Descriptors /\ OnePerFile /\ OpenIsNamed /\ OwnerOnRecord

USE LockAssumption DEF LockAssumption, PC, Locking

\* The initial state satisfies the invariant.
LEMMA LockInit == Init => LockInv
<1> SUFFICES ASSUME Init PROVE LockInv
    OBVIOUS
<1>1. TypeOK
    <2>1. 0 \in 0 .. MaxAttempts
        OBVIOUS
    <2>2. left \in [Proc -> 0 .. MaxAttempts]
        BY <2>1 DEF Init
    <2>3. pc \in [Proc -> PC] /\ fd \in [Proc -> Inode \cup {NoFile}]
        BY DEF Init
    <2>4. content \in [Inode -> Proc \cup {NoPID}] /\ path \in Inode \cup {NoFile}
        BY DEF Init
    <2>5. unmarked \subseteq Proc /\ raced \in BOOLEAN
        BY DEF Init
    <2> QED BY <2>2, <2>3, <2>4, <2>5 DEF TypeOK
<1>2. Descriptors /\ OnePerFile /\ OwnerOnRecord
    BY DEF Init, Descriptors, OnePerFile, OwnerOnRecord
<1>3. OpenIsNamed
    BY DEF Init, OpenIsNamed
<1> QED BY <1>1, <1>2, <1>3 DEF LockInv

\* Every step keeps the types.
LEMMA LockTypes == TypeOK /\ [Next]_vars => TypeOK'
<1> SUFFICES ASSUME TypeOK, [Next]_vars PROVE TypeOK'
    OBVIOUS
<1> USE DEF TypeOK, Goto
<1>1. CASE UNCHANGED vars
    BY <1>1 DEF vars
<1>2. ASSUME NEW p \in Proc, NEW n \in 0 .. MaxAttempts, Acquire(p, n) PROVE TypeOK'
    BY <1>2 DEF Acquire, OpenFile
<1>3. ASSUME NEW p \in Proc, Retry(p) PROVE TypeOK'
    BY <1>3 DEF Retry, OpenFile
<1>4. ASSUME NEW p \in Proc, TryLock(p) PROVE TypeOK'
    BY <1>4 DEF TryLock
<1>5. ASSUME NEW p \in Proc, Locked(p) PROVE TypeOK'
    BY <1>5 DEF Locked
<1>6. ASSUME NEW p \in Proc, AcquireFails(p) PROVE TypeOK'
    BY <1>6 DEF AcquireFails
<1>7. ASSUME NEW p \in Proc, Truncate(p) \/ WritePID(p) PROVE TypeOK'
    BY <1>7 DEF Truncate, WritePID
<1>8. ASSUME NEW p \in Proc, Unlock(p) \/ UnlockFails(p) \/ Kill(p) PROVE TypeOK'
    BY <1>8 DEF Unlock, UnlockFails, Kill
<1>9. ASSUME NEW p \in Proc, Remove(p) PROVE TypeOK'
    BY <1>9 DEF Remove
<1>10. ASSUME NEW p \in Proc, IsHeldOpen(p) \/ IsHeldTryLock(p) \/ IsHeldUnlock(p) PROVE TypeOK'
    BY <1>10 DEF IsHeldOpen, IsHeldTryLock, IsHeldUnlock
<1> QED
    BY <1>1, <1>2, <1>3, <1>4, <1>5, <1>6, <1>7, <1>8, <1>9, <1>10 DEF Next, CallStep

\* Opening LOCK, created or not, keeps the invariant: a new inode is one that
\* nobody has open.
LEMMA LockOpens ==
  ASSUME LockInv, TypeOK', NEW p \in Proc, fd[p] = NoFile, OpenFile(p)
  PROVE LockInv'
<1> USE DEF LockInv, TypeOK, Goto, OpenFile
<1>1. path' \in Inode
    OBVIOUS
<1>2. Descriptors'
    BY <1>1 DEF Descriptors
<1>3. OnePerFile'
    BY DEF OnePerFile
<1>4. OpenIsNamed'
    <2> SUFFICES ASSUME ~raced', NEW q \in Proc PROVE fd'[q] \in {NoFile, path'}
        BY DEF OpenIsNamed
    <2> QED BY DEF OpenIsNamed
<1>5. OwnerOnRecord'
    <2> SUFFICES ASSUME NEW q \in Proc, pc'[q] = "held", q \notin unmarked'
                 PROVE content'[fd'[q]] = q
        BY DEF OwnerOnRecord
    <2>1. q # p /\ fd'[q] = fd[q] /\ content[fd[q]] = q
        BY DEF OwnerOnRecord
    <2>2. content'[fd[q]] = content[fd[q]]
        BY DEF Free, Descriptors
    <2> QED BY <2>1, <2>2
<1> QED BY <1>2, <1>3, <1>4, <1>5

\* Closing a file, and with it giving up its lock, keeps the invariant.
LEMMA LockCloses ==
  ASSUME LockInv, TypeOK', NEW p \in Proc, NEW l \in {"out", "unlocked", "sleep"},
         fd' = [fd EXCEPT ![p] = NoFile], Goto(p, l),
         unmarked' \in {unmarked, unmarked \ {p}},
         UNCHANGED <<path, content, raced>>
  PROVE LockInv'
<1> USE DEF LockInv, TypeOK, Goto
<1>1. Descriptors'
    BY DEF Descriptors
<1>2. OnePerFile'
    BY DEF OnePerFile
<1>3. OpenIsNamed'
    BY DEF OpenIsNamed
<1>4. OwnerOnRecord'
    BY DEF OwnerOnRecord
<1> QED BY <1>1, <1>2, <1>3, <1>4

\* Every step keeps the invariant.
LEMMA LockStep == LockInv /\ [Next]_vars => LockInv'
<1> SUFFICES ASSUME LockInv, [Next]_vars PROVE LockInv'
    OBVIOUS
<1>t. TypeOK'
    BY LockTypes DEF LockInv
<1>1. CASE UNCHANGED vars
    BY <1>1, <1>t DEF vars, LockInv, Descriptors, OnePerFile, OpenIsNamed, OwnerOnRecord
<1>2. ASSUME NEW p \in Proc, NEW n \in 0 .. MaxAttempts, Acquire(p, n) PROVE LockInv'
    BY <1>2, <1>t, LockOpens DEF Acquire, LockInv, Descriptors
<1>3. ASSUME NEW p \in Proc, Retry(p) PROVE LockInv'
    BY <1>3, <1>t, LockOpens DEF Retry, LockInv, Descriptors
<1>4. ASSUME NEW p \in Proc, TryLock(p) PROVE LockInv'
    <2> USE <1>4, <1>t DEF TryLock, LockInv, TypeOK, Goto
    <2>1. Descriptors'
        BY DEF Descriptors
    <2>2. OnePerFile'
        BY DEF OnePerFile, Holders
    <2>3. OpenIsNamed'
        BY DEF OpenIsNamed
    <2>4. OwnerOnRecord'
        BY DEF OwnerOnRecord
    <2> QED BY <2>1, <2>2, <2>3, <2>4
<1>5. ASSUME NEW p \in Proc, Locked(p) PROVE LockInv'
    BY <1>5, <1>t, LockCloses DEF Locked
<1>6. ASSUME NEW p \in Proc, AcquireFails(p) PROVE LockInv'
    BY <1>6, <1>t, LockCloses DEF AcquireFails
<1>7. ASSUME NEW p \in Proc, Truncate(p) \/ WritePID(p) PROVE LockInv'
    <2> USE <1>7, <1>t DEF Truncate, WritePID, LockInv, TypeOK, Goto
    <2>1. Descriptors'
        BY DEF Descriptors
    <2>2. OnePerFile'
        BY DEF OnePerFile
    <2>3. OpenIsNamed'
        BY DEF OpenIsNamed
    <2>4. OwnerOnRecord'
        <3> SUFFICES ASSUME NEW q \in Proc, pc'[q] = "held", q \notin unmarked'
                     PROVE content'[fd'[q]] = q
            BY DEF OwnerOnRecord
        <3>1. fd[p] \in Inode
            BY DEF Descriptors
        <3>2. CASE q = p
            BY <3>1, <3>2
        <3>3. CASE q # p
            <4>1. pc[q] = "held" /\ q \notin unmarked /\ content[fd[q]] = q
                BY <3>3 DEF OwnerOnRecord
            <4>2. fd[q] # fd[p]
                BY <3>3, <4>1 DEF OnePerFile
            <4>3. fd[q] \in Inode
                BY <4>1 DEF Descriptors
            <4>4. content'[fd[q]] = content[fd[q]]
                BY <3>1, <4>2, <4>3
            <4> QED BY <4>1, <4>4
        <3> QED BY <3>2, <3>3
    <2> QED BY <2>1, <2>2, <2>3, <2>4
<1>8. ASSUME NEW p \in Proc, Unlock(p) \/ UnlockFails(p) \/ Kill(p) PROVE LockInv'
    BY <1>8, <1>t, LockCloses DEF Unlock, UnlockFails, Kill
<1>9. ASSUME NEW p \in Proc, Remove(p) PROVE LockInv'
    <2> USE <1>9, <1>t DEF Remove, LockInv, TypeOK, Goto
    <2>1. Descriptors'
        BY DEF Descriptors
    <2>2. OnePerFile'
        BY DEF OnePerFile
    <2>3. OpenIsNamed'
        BY DEF OpenIsNamed
    <2>4. OwnerOnRecord'
        BY DEF OwnerOnRecord
    <2> QED BY <2>1, <2>2, <2>3, <2>4
<1>10. ASSUME NEW p \in Proc, IsHeldOpen(p) \/ IsHeldTryLock(p) PROVE LockInv'
    <2> USE <1>10, <1>t DEF IsHeldOpen, IsHeldTryLock, LockInv, TypeOK, Goto
    <2>1. Descriptors'
        BY DEF Descriptors
    <2>2. OnePerFile'
        BY DEF OnePerFile, Holders
    <2>3. OpenIsNamed'
        BY DEF OpenIsNamed
    <2>4. OwnerOnRecord'
        BY DEF OwnerOnRecord
    <2> QED BY <2>1, <2>2, <2>3, <2>4
<1>11. ASSUME NEW p \in Proc, IsHeldUnlock(p) PROVE LockInv'
    BY <1>11, <1>t, LockCloses DEF IsHeldUnlock
<1> QED
    BY <1>1, <1>2, <1>3, <1>4, <1>5, <1>6, <1>7, <1>8, <1>9, <1>10, <1>11
    DEF Next, CallStep

(***************************************************************************)
(* With any number of processes, two of them own the lock at once only     *)
(* after a Release has removed a LOCK that another process had open.       *)
(***************************************************************************)
THEOREM RaceIsTheOnlyWay == Spec => []ExclusiveUnlessRaced
<1>1. LockInv => ExclusiveUnlessRaced
    BY DEF LockInv, TypeOK, Descriptors, OnePerFile, OpenIsNamed, ExclusiveUnlessRaced
<1> QED
    BY <1>1, LockInit, LockStep, PTL DEF Spec

(***************************************************************************)
(* With any number of processes, the pid an owner wrote stays in its lock  *)
(* file for as long as it owns the lock.                                   *)
(***************************************************************************)
THEOREM OwnerStaysOnRecord == Spec => []OwnerOnRecord
<1>1. LockInv => OwnerOnRecord
    BY DEF LockInv
<1> QED
    BY <1>1, LockInit, LockStep, PTL DEF Spec
=============================================================================
