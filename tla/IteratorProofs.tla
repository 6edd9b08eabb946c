--------------------------- MODULE IteratorProofs ---------------------------
(***************************************************************************)
(* Iterators over a store that goes on: what Value returns is current      *)
(* (ValueIsCurrent), Iter and Range yield the acknowledged keys of their   *)
(* moment (RangeYieldsLive), and Seek finds the first key that is not less *)
(* than its target (SeekIsExact), proved for Iterators.                    *)
(***************************************************************************)
EXTENDS Iterators, ResolutionProofs, FiniteSetTheorems

(***************************************************************************)
(* While the store is not damaged every record on disk that is not a       *)
(* tombstone holds a value: Merge copies nothing but values.  So a live    *)
(* key never reads as absent.                                              *)
(***************************************************************************)
Sound(f) == \A o \in DOMAIN f.at : f.at[o].tomb \/ f.at[o].val \in Value
AllSound(d) == \A id \in DOMAIN d : Sound(d[id])

SoundEntry(e) == e.tomb \/ e.val \in Value

SoundInv == ~Damaged => AllSound(disk)

\* Frames of sound records, whole or torn, keep a file and a directory sound.
LEMMA SoundKept ==
  /\ \A f : Sound(f) => Sound(Sync(f))
  /\ \A f, e : Sound(f) /\ SoundEntry(e) => Sound(Append(f, e))
  /\ \A f, e, n : Sound(f) /\ SoundEntry(e) => Sound(AppendPrefix(f, e, n))
  /\ \A f : \A g \in AfterPowerLoss(f) : Sound(f) => Sound(g)
  /\ \A d, id : AllSound(d) => AllSound(WithSegment(d, id)) /\ AllSound(WithoutSegment(d, id))
  /\ \A d, id, f : AllSound(d) /\ Sound(f) => AllSound([d EXCEPT ![id] = f])
<1>1. \A f : Sound(f) => Sound(Sync(f))
  BY DEF Sound, Sync
<1>2. \A f, e : Sound(f) /\ SoundEntry(e) => Sound(Append(f, e))
  BY DEF Sound, SoundEntry, Append, Place
<1>3. \A f, e, n : Sound(f) /\ SoundEntry(e) => Sound(AppendPrefix(f, e, n))
  BY <1>2 DEF Sound, SoundEntry, AppendPrefix, TornEntry, Place
<1>4. \A f : \A g \in AfterPowerLoss(f) : Sound(f) => Sound(g)
  <2>1. ASSUME NEW f, NEW n, Sound(f) PROVE Sound(Survives(f, n))
    <3>1. \A o \in DOMAIN Survives(f, n).at :
            /\ o \in DOMAIN f.at
            /\ Survives(f, n).at[o] = f.at[o] \/ Survives(f, n).at[o] = TornEntry(f.at[o])
      BY DEF Survives
    <3>2. \A e : TornEntry(e).tomb = e.tomb /\ TornEntry(e).val = e.val
      BY DEF TornEntry
    <3>3. \A o \in DOMAIN Survives(f, n).at :
            /\ o \in DOMAIN f.at
            /\ Survives(f, n).at[o].tomb = f.at[o].tomb /\ Survives(f, n).at[o].val = f.at[o].val
      BY <3>1, <3>2
    <3> HIDE DEF Survives
    <3> QED
      BY <2>1, <3>3 DEF Sound
  <2> QED
    BY <2>1 DEF AfterPowerLoss
<1>5. Sound(EmptyFile)
  BY DEF Sound, EmptyFile
<1>6. \A d, id : AllSound(d) => AllSound(WithSegment(d, id)) /\ AllSound(WithoutSegment(d, id))
  BY <1>5 DEF AllSound, WithSegment, WithoutSegment
<1>7. \A d, id, f : AllSound(d) /\ Sound(f) => AllSound([d EXCEPT ![id] = f])
  BY DEF AllSound
<1> QED
  BY <1>1, <1>2, <1>3, <1>4, <1>6, <1>7

\* What Put and Delete write is sound.
LEMMA WriteEntriesSound == \A e \in WriteEntries : SoundEntry(e) /\ e \in Entry
BY WriteEntryTypes DEF WriteEntries, SoundEntry, PutEntry, DelEntry

\* What Merge copies is sound.
LEMMA CopiedSound ==
  ASSUME TypeInv, LocInv, SoundInv, ~Damaged, pc = "copy", NEW k \in todo
  PROVE  SoundEntry(Copied(k)) /\ newID \in DOMAIN disk /\ Sound(disk[newID])
<1>1. AllResolve(disk, index) /\ k \in LiveEntries(index) /\ up
  BY DEF LocInv, IndexInv, LiveTodo, TypeInv, TypeOK, Shape
<1>2. Resolves(disk, k, index[k])
  BY <1>1 DEF AllResolve
<1>3. disk[index[k].file].at[index[k].off].val \in Value
  BY <1>2 DEF Resolves, CanReadAt, ReadAt, SoundInv, AllSound, Sound
<1>4. newID \in DOMAIN disk /\ Sound(disk[newID])
  BY DEF TypeInv, Shape, SoundInv, AllSound
<1> QED
  BY <1>3, <1>4 DEF Copied, ReadAt, PutEntry, SoundEntry

\* Every step keeps the directory sound.
LEMMA NextSoundInv == TypeInv /\ LocInv /\ SoundInv /\ [Next]_vars => SoundInv'
<1> SUFFICES ASSUME TypeInv, LocInv, SoundInv, [Next]_vars, ~Damaged' PROVE AllSound(disk')
  BY DEF SoundInv
<1>1. ~Damaged /\ AllSound(disk)
  BY FaultsOnlyGrow DEF Damaged, SoundInv
<1>2. CASE UNCHANGED vars
  BY <1>1, <1>2 DEF vars, diskVars
<1>3. CASE Open \/ Close \/ Kill
  <2>1. disk' = disk \/ disk' = WithSegment(disk, 1)
    BY <1>3 DEF Open, OpenEmpty, OpenHint, OpenScan, Opened, Close, Kill, diskVars
  <2> QED
    BY <1>1, <2>1, SoundKept
<1>4. ASSUME NEW e \in WriteEntries, NEW sync, activeID \in segments,
             Written(e, sync) \/ WrittenAndRotated(e, sync)
      PROVE  AllSound(disk')
  <2> DEFINE d == [disk EXCEPT ![activeID] = WrittenFile(e, sync)]
  <2>1. Sound(disk[activeID]) /\ SoundEntry(e)
    BY <1>1, <1>4, WriteEntriesSound DEF AllSound, TypeInv, Shape
  <2>2. Sound(WrittenFile(e, sync))
    BY <2>1, SoundKept DEF WrittenFile
  <2>3. AllSound(d)
    BY <1>1, <2>2, SoundKept
  <2>4. disk' = d \/ disk' = WithSegment(d, maxFileID + 1)
    BY <1>4 DEF Written, WrittenAndRotated, WrittenFile
  <2> HIDE DEF d
  <2> QED
    BY <2>3, <2>4, SoundKept
<1>5. ASSUME NEW k \in Key, Delete(k) PROVE AllSound(disk')
  BY <1>4, <1>5 DEF Delete, CanAppend, WriteEntries
<1>6. ASSUME NEW k \in Key, NEW v \in Value, Put(k, v) PROVE AllSound(disk')
  BY <1>4, <1>6 DEF Put, CanAppend, WriteEntries
<1>7. ASSUME NEW e \in WriteEntries, SyncFails(e) \/ RotateFails(e) PROVE AllSound(disk')
  BY <1>4, <1>7 DEF SyncFails, RotateFails, CanAppend
<1>8. ASSUME NEW e \in WriteEntries, NEW n,
             activeID \in segments, disk' = [disk EXCEPT ![activeID] = AppendPrefix(@, e, n)]
      PROVE  AllSound(disk')
  <2>1. Sound(disk[activeID]) /\ SoundEntry(e)
    BY <1>1, <1>8, WriteEntriesSound DEF AllSound, TypeInv, Shape
  <2>2. Sound(AppendPrefix(disk[activeID], e, n))
    BY <2>1, SoundKept
  <2> QED
    BY <1>1, <1>8, <2>2, SoundKept
<1>9. CASE MergeStart \/ ResetStart
  <2>1. disk' = SyncedActive \/ disk' = WithSegment(SyncedActive, maxFileID + 1)
    BY <1>9 DEF MergeStart, ResetStart
  <2>2. activeID \in DOMAIN disk
    BY <1>9 DEF MergeStart, ResetStart, CanAppend, TypeInv, Shape
  <2>3. Sound(Sync(disk[activeID]))
    BY <1>1, <2>2, SoundKept DEF AllSound
  <2>4. AllSound(SyncedActive)
    BY <1>1, <2>3, SoundKept DEF SyncedActive
  <2> QED
    BY <2>1, <2>4, SoundKept
<1>10. ASSUME NEW k \in Key, MergeCopy(k) PROVE AllSound(disk')
  <2>1. SoundEntry(Copied(k)) /\ Sound(disk[newID])
    BY <1>1, <1>10, CopiedSound DEF MergeCopy
  <2>2. Sound(Append(disk[newID], Copied(k)))
    BY <2>1, SoundKept
  <2> QED
    BY <1>1, <1>10, <2>2, SoundKept DEF MergeCopy
<1>11. ASSUME NEW k \in todo, NEW n, pc = "copy",
              disk' = [disk EXCEPT ![newID] = AppendPrefix(@, Copied(k), n)]
       PROVE  AllSound(disk')
  <2>1. SoundEntry(Copied(k)) /\ Sound(disk[newID])
    BY <1>1, <1>11, CopiedSound
  <2>2. Sound(AppendPrefix(disk[newID], Copied(k), n))
    BY <2>1, SoundKept
  <2> QED
    BY <1>1, <1>11, <2>2, SoundKept
<1>12. CASE MergeSync
  <2>1. Sound(Sync(disk[newID]))
    BY <1>1, <1>12, SoundKept DEF MergeSync, TypeInv, Shape, AllSound
  <2> QED
    BY <1>1, <1>12, <2>1, SoundKept DEF MergeSync
<1>13. CASE \/ \E k \in Key : MergeReadFails(k)
            \/ MergeHint \/ MergePromote \/ ResetHint
            \/ MergeHintFails \/ ResetFails \/ \E id \in segments : RemoveFails(id)
  BY <1>1, <1>13 DEF MergeReadFails, MergeHint, MergePromote, ResetHint, MergeHintFails,
     ResetFails, RemoveFails, diskVars
<1>14. CASE ResetFresh \/ \E id \in segments : RemoveSegment(id)
  BY <1>1, <1>14, SoundKept DEF ResetFresh, RemoveSegment
<1>15. CASE MergeCopyFails
  BY <1>1, <1>11, <1>15 DEF MergeCopyFails
<1>16. ASSUME NEW k \in todo, KillInCopy(k) PROVE AllSound(disk')
  BY <1>11, <1>16 DEF KillInCopy
<1>17. ASSUME NEW e \in WriteEntries, NEW n, AppendFails(e, n) \/ KillInWrite(e, n)
       PROVE  AllSound(disk')
  BY <1>8, <1>17 DEF AppendFails, KillInWrite, CanAppend
<1>18. CASE PowerLoss
  BY <1>1, <1>18, PowerLossDisk, SoundKept DEF AllSound
<1> QED
  BY <1>2, <1>3, <1>5, <1>6, <1>7, <1>9, <1>10, <1>12, <1>13, <1>14, <1>15, <1>16, <1>17, <1>18
  DEF Next, MergeStep, IOError, Crash

\* The empty directory is sound.
LEMMA InitSoundInv == Init => SoundInv
BY DEF Init, SoundInv, AllSound

(***************************************************************************)
(* Seek.  The bytes of keys and targets are ordered as Go orders strings,  *)
(* which is transitive; entries in that order make the predicate of the    *)
(* search hold from one place on, and the search finds that place.         *)
(***************************************************************************)

\* A set that is numbered has as many elements, and a part of a finite set a number of them.
LEMMA Counted ==
  ASSUME NEW S, NEW n \in Nat, NEW f \in [1 .. n -> S],
         \A i, j \in 1 .. n : f[i] = f[j] => i = j, \A x \in S : \E i \in 1 .. n : f[i] = x
  PROVE  Cardinality(S) = n
<1>1. f \in Bijection(1 .. n, S)
  BY DEF Bijection, Injection, Surjection, IsInjective
<1>2. ExistsBijection(1 .. n, S)
  BY <1>1 DEF ExistsBijection
<1> QED
  BY <1>2, FS_CountingElements

LEMMA PartCounted ==
  ASSUME NEW S, IsFiniteSet(S), NEW T \in SUBSET S
  PROVE  Cardinality(T) \in Nat
BY FS_Subset, FS_CardinalityType

\* t is greater than s at place n, and s goes with t up to there.
GreaterAt(n, s, t) ==
  /\ n \in 1 .. Q!Len(t) /\ n <= Q!Len(s) + 1
  /\ \A i \in 1 .. n - 1 : s[i] = t[i]
  /\ n <= Q!Len(s) => s[n] < t[n]

LEMMA LessIs ==
  ASSUME NEW s \in Q!Seq(Nat), NEW t \in Q!Seq(Nat)
  PROVE  Less(s, t) <=> \E n \in Nat : GreaterAt(n, s, t)
<1>0. Q!Len(s) \in Nat /\ Q!Len(t) \in Nat
  OBVIOUS
<1>1. ASSUME Q!IsStrictPrefix(s, t) PROVE GreaterAt(Q!Len(s) + 1, s, t)
  <2>1. Q!Len(s) <= Q!Len(t) /\ s # t /\ Q!SubSeq(s, 1, Q!Len(s)) = Q!SubSeq(t, 1, Q!Len(s))
    BY <1>1 DEF Q!IsStrictPrefix, Q!IsPrefix
  <2>2. \A i \in 1 .. Q!Len(s) : s[i] = t[i]
    <3>1. \A i \in 1 .. Q!Len(s) : Q!SubSeq(s, 1, Q!Len(s))[i] = s[i] /\ Q!SubSeq(t, 1, Q!Len(s))[i] = t[i]
      BY <1>0, <2>1
    <3> QED
      BY <2>1, <3>1
  <2>3. Q!Len(s) # Q!Len(t)
    BY <2>1, <2>2
  <2>4. Q!Len(s) + 1 \in 1 .. Q!Len(t) /\ (Q!Len(s) + 1) - 1 = Q!Len(s)
    BY <1>0, <2>1, <2>3
  <2> QED
    BY <1>0, <2>2, <2>4 DEF GreaterAt
<1>2. ASSUME NEW n \in 1 .. Q!Len(s), n <= Q!Len(t), s[n] < t[n], \A i \in 1 .. n - 1 : s[i] = t[i]
      PROVE  GreaterAt(n, s, t) /\ n \in Nat
  BY <1>0, <1>2 DEF GreaterAt
<1>3. ASSUME NEW n \in Nat, GreaterAt(n, s, t) PROVE Less(s, t)
  <2>1. CASE n <= Q!Len(s)
    <3>1. n \in 1 .. Q!Len(s) /\ n <= Q!Len(t) /\ s[n] < t[n] /\ \A i \in 1 .. n - 1 : s[i] = t[i]
      BY <1>0, <1>3, <2>1 DEF GreaterAt
    <3> QED
      BY <3>1 DEF Less
  <2>2. CASE n = Q!Len(s) + 1
    <3>1. Q!Len(s) < Q!Len(t) /\ \A i \in 1 .. Q!Len(s) : s[i] = t[i]
      BY <1>0, <1>3, <2>2 DEF GreaterAt
    <3>2. Q!SubSeq(s, 1, Q!Len(s)) = [i \in 1 .. Q!Len(s) |-> s[i]]
      BY <1>0
    <3>3. Q!SubSeq(t, 1, Q!Len(s)) = [i \in 1 .. Q!Len(s) |-> t[i]]
      BY <1>0, <3>1
    <3>4. Q!SubSeq(s, 1, Q!Len(s)) = Q!SubSeq(t, 1, Q!Len(s))
      BY <3>1, <3>2, <3>3
    <3>5. s # t
      BY <1>0, <3>1
    <3>6. Q!Len(s) <= Q!Len(t)
      BY <1>0, <3>1
    <3> QED
      BY <3>4, <3>5, <3>6 DEF Less, Q!IsStrictPrefix, Q!IsPrefix
  <2> QED
    BY <1>0, <1>3, <2>1, <2>2 DEF GreaterAt
<1>4. ASSUME Less(s, t) PROVE \E n \in Nat : GreaterAt(n, s, t)
  <2>1. CASE Q!IsStrictPrefix(s, t)
    <3>1. Q!Len(s) + 1 \in Nat
      BY <1>0
    <3> QED
      BY <2>1, <1>1, <3>1
  <2>2. CASE ~Q!IsStrictPrefix(s, t)
    BY <2>2, <1>2, <1>4 DEF Less
  <2> QED
    BY <2>1, <2>2
<1> QED
  BY <1>3, <1>4

LEMMA ByteIsNatural ==
  ASSUME NEW s \in Q!Seq(Nat), NEW i \in 1 .. Q!Len(s)
  PROVE  s[i] \in Nat
OBVIOUS

LEMMA LessTransitive ==
  ASSUME NEW s \in Q!Seq(Nat), NEW t \in Q!Seq(Nat), NEW u \in Q!Seq(Nat), Less(s, t), Less(t, u)
  PROVE  Less(s, u)
<1>0. Q!Len(s) \in Nat /\ Q!Len(t) \in Nat /\ Q!Len(u) \in Nat
  OBVIOUS
<1>1. PICK n \in Nat : GreaterAt(n, s, t)
  BY LessIs
<1>2. PICK m \in Nat : GreaterAt(m, t, u)
  BY LessIs
<1>3. CASE n < m
  <2>1. n <= Q!Len(t) /\ n \in 1 .. Q!Len(u) /\ n <= Q!Len(s) + 1
    BY <1>0, <1>1, <1>2, <1>3 DEF GreaterAt
  <2>2. \A i \in 1 .. n : t[i] = u[i]
    BY <1>2, <1>3 DEF GreaterAt
  <2>3. \A i \in 1 .. n - 1 : s[i] = u[i]
    BY <1>1, <2>2 DEF GreaterAt
  <2>4. n <= Q!Len(s) => s[n] < u[n]
    BY <1>1, <2>1, <2>2 DEF GreaterAt
  <2>5. GreaterAt(n, s, u)
    BY <2>1, <2>3, <2>4 DEF GreaterAt
  <2> QED
    BY <2>5, LessIs
<1>4. CASE n >= m
  <2>1. m <= Q!Len(t) /\ m \in 1 .. Q!Len(u) /\ m <= Q!Len(s) + 1 /\ n \in 1 .. Q!Len(t)
    BY <1>0, <1>1, <1>2, <1>4 DEF GreaterAt
  <2>2. t[m] < u[m] /\ \A i \in 1 .. m - 1 : t[i] = u[i]
    BY <1>2, <2>1 DEF GreaterAt
  <2>3. \A i \in 1 .. m - 1 : i \in 1 .. n - 1 /\ s[i] = t[i]
    BY <1>1, <1>4 DEF GreaterAt
  <2>4. ASSUME m <= Q!Len(s) PROVE s[m] < u[m]
    <3>0. m \in 1 .. Q!Len(s) /\ m \in 1 .. Q!Len(t)
      BY <1>0, <2>1, <2>4
    <3>1. s[m] \in Nat /\ t[m] \in Nat /\ u[m] \in Nat
      BY <2>1, <3>0, ByteIsNatural
    <3>2. CASE m = n
      BY <1>1, <2>2, <2>4, <3>1, <3>2 DEF GreaterAt
    <3>3. CASE m < n
      <4>1. m \in 1 .. n - 1
        BY <2>1, <3>3
      <4> QED
        BY <1>1, <2>2, <4>1 DEF GreaterAt
    <3> QED
      BY <1>4, <3>2, <3>3
  <2>5. GreaterAt(m, s, u)
    BY <2>1, <2>2, <2>3, <2>4 DEF GreaterAt
  <2> QED
    BY <2>5, LessIs
<1> QED
  BY <1>3, <1>4

\* What sort.Search computes from one function of the ranges, f.
SearchStep(f, es, n, t) ==
  [r \in (0 .. n) \X (0 .. n) |->
     LET i == r[1]
         j == r[2]
         h == (i + j) \div 2
     IN IF i >= j THEN i
        ELSE IF Reaches(es, h, t) THEN f[<<i, h>>] ELSE f[<<h + 1, j>>]]

\* The place in each range that is closest to c.
Nearest(n, c) ==
  [r \in (0 .. n) \X (0 .. n) |->
     IF r[1] >= r[2] \/ c <= r[1] THEN r[1] ELSE IF c >= r[2] THEN r[2] ELSE c]

\* When the predicate holds from c on, the search of 0 .. n ends at c.
LEMMA SearchIs ==
  ASSUME NEW es, NEW t, NEW n \in Nat, Q!Len(es) = n, NEW c \in 0 .. n,
         \A h \in 0 .. n - 1 : Reaches(es, h, t) <=> h >= c
  PROVE  Search(es, t) = c
<1> DEFINE g == Nearest(n, c)
           f == CHOOSE x : x = SearchStep(x, es, n, t)
<1>1. Search(es, t) = f[<<0, n>>]
  BY DEF Search, SearchStep
<1>2. \A x : \A i, j \in 0 .. n :
        SearchStep(x, es, n, t)[<<i, j>>] =
          IF i >= j THEN i
          ELSE IF Reaches(es, (i + j) \div 2, t) THEN x[<<i, (i + j) \div 2>>]
               ELSE x[<<(i + j) \div 2 + 1, j>>]
  BY DEF SearchStep
<1>3. \A i, j \in 0 .. n :
        g[<<i, j>>] = IF i >= j \/ c <= i THEN i ELSE IF c >= j THEN j ELSE c
  BY DEF Nearest
<1>0. g = [r \in (0 .. n) \X (0 .. n) |-> g[r]]
  BY DEF Nearest
<1> HIDE DEF g
<1>4. \A i, j \in 0 .. n : i < j => /\ (i + j) \div 2 \in 0 .. n - 1 /\ i <= (i + j) \div 2
                                    /\ (i + j) \div 2 < j /\ (i + j) \div 2 + 1 \in 0 .. n
  OBVIOUS
<1>5. g = SearchStep(g, es, n, t)
  <2>1. ASSUME NEW i \in 0 .. n, NEW j \in 0 .. n
        PROVE  g[<<i, j>>] = SearchStep(g, es, n, t)[<<i, j>>]
    <3> DEFINE h == (i + j) \div 2
    <3>1. CASE i >= j
      <4>1. SearchStep(g, es, n, t)[<<i, j>>] = i
        BY <1>2, <3>1
      <4>2. g[<<i, j>>] = i
        BY <1>3, <3>1
      <4> QED
        BY <4>1, <4>2
    <3>2. CASE i < j
      <4>1. h \in 0 .. n - 1 /\ i <= h /\ h < j /\ h + 1 \in 0 .. n /\ h \in 0 .. n
        BY <1>4, <3>2
      <4>2. SearchStep(g, es, n, t)[<<i, j>>] = IF h >= c THEN g[<<i, h>>] ELSE g[<<h + 1, j>>]
        BY <1>2, <3>2, <4>1
      <4>3. /\ g[<<i, h>>] = IF i >= h \/ c <= i THEN i ELSE IF c >= h THEN h ELSE c
            /\ g[<<h + 1, j>>] = IF h + 1 >= j \/ c <= h + 1 THEN h + 1 ELSE IF c >= j THEN j ELSE c
            /\ g[<<i, j>>] = IF i >= j \/ c <= i THEN i ELSE IF c >= j THEN j ELSE c
        BY <1>3, <4>1
      <4> HIDE DEF h
      <4>4. CASE h >= c
        <5>1. (IF i >= h \/ c <= i THEN i ELSE IF c >= h THEN h ELSE c)
                = IF i >= j \/ c <= i THEN i ELSE IF c >= j THEN j ELSE c
          BY <3>2, <4>1, <4>4
        <5> QED
          BY <4>2, <4>3, <4>4, <5>1
      <4>5. CASE h < c
        <5>1. (IF h + 1 >= j \/ c <= h + 1 THEN h + 1 ELSE IF c >= j THEN j ELSE c)
                = IF i >= j \/ c <= i THEN i ELSE IF c >= j THEN j ELSE c
          BY <3>2, <4>1, <4>5
        <5>2. ~(h >= c)
          BY <4>1, <4>5
        <5> QED
          BY <4>2, <4>3, <5>1, <5>2
      <4> QED
        BY <4>1, <4>4, <4>5
    <3> QED
      BY <3>1, <3>2
  <2>2. \A r \in (0 .. n) \X (0 .. n) : r = <<r[1], r[2]>> /\ r[1] \in 0 .. n /\ r[2] \in 0 .. n
    OBVIOUS
  <2>3. \A r \in (0 .. n) \X (0 .. n) : g[r] = SearchStep(g, es, n, t)[r]
    BY <2>1, <2>2
  <2> QED
    BY <1>0, <2>3 DEF SearchStep
<1>6. f = SearchStep(f, es, n, t)
  BY <1>5
<1> HIDE DEF f
<1> DEFINE Wrong == {d \in Nat : \E i, j \in 0 .. n : d = j - i /\ f[<<i, j>>] # g[<<i, j>>]}
<1>7. Wrong = {}
  <2> SUFFICES ASSUME Wrong # {} PROVE FALSE
    OBVIOUS
  <2>1. PICK d \in Wrong : \A e \in Wrong : d <= e
    <3>1. Wrong \subseteq Nat
      OBVIOUS
    <3> HIDE DEF Wrong
    <3> QED
      BY <3>1, LeastExists
  <2>2. PICK i \in 0 .. n, j \in 0 .. n : d = j - i /\ f[<<i, j>>] # g[<<i, j>>]
    BY <2>1
  <2> DEFINE h == (i + j) \div 2
  <2>3. CASE i >= j
    <3>1. SearchStep(f, es, n, t)[<<i, j>>] = i
      BY <1>2, <2>3
    <3>2. g[<<i, j>>] = i
      BY <1>3, <2>3
    <3> QED
      BY <1>6, <2>2, <3>1, <3>2
  <2>4. CASE i < j
    <3>1. h \in 0 .. n - 1 /\ i <= h /\ h < j /\ h + 1 \in 0 .. n /\ h \in 0 .. n
      BY <1>4, <2>4
    <3>2. /\ f[<<i, j>>] = IF Reaches(es, h, t) THEN f[<<i, h>>] ELSE f[<<h + 1, j>>]
          /\ g[<<i, j>>] = IF Reaches(es, h, t) THEN g[<<i, h>>] ELSE g[<<h + 1, j>>]
      BY <1>2, <1>5, <1>6, <2>4
    <3> HIDE DEF h
    <3>3. h - i \in Nat /\ h - i < d /\ j - (h + 1) \in Nat /\ j - (h + 1) < d /\ d \in Nat
      BY <2>2, <2>4, <3>1
    <3>4. f[<<i, h>>] = g[<<i, h>>]
      <4>1. h - i \notin Wrong
        <5> HIDE DEF Wrong
        <5> QED
          BY <2>1, <3>3
      <4> QED
        BY <3>1, <3>3, <4>1
    <3>5. f[<<h + 1, j>>] = g[<<h + 1, j>>]
      <4>1. j - (h + 1) \notin Wrong
        <5> HIDE DEF Wrong
        <5> QED
          BY <2>1, <3>3
      <4> QED
        BY <3>1, <3>3, <4>1
    <3> QED
      BY <2>2, <3>2, <3>4, <3>5
  <2> QED
    BY <2>3, <2>4
<1>8. f[<<0, n>>] = g[<<0, n>>]
  <2>1. n = n - 0 /\ 0 \in 0 .. n /\ n \in 0 .. n
    OBVIOUS
  <2>2. f[<<0, n>>] # g[<<0, n>>] => n \in Wrong
    BY <2>1
  <2> QED
    BY <1>7, <2>2
<1>9. g[<<0, n>>] = c
  BY <1>3
<1> QED
  BY <1>1, <1>8, <1>9

\* The keys of the entries es are in order.
Ascends(es) ==
  \E n \in Nat : /\ es = [i \in 1 .. n |-> es[i]]
                 /\ \A i, j \in 1 .. n : i < j => Less(es[i].key, es[j].key)

LEMMA NotLessItself == ASSUME NEW s \in Q!Seq(Nat) PROVE ~Less(s, s)
<1> SUFFICES ASSUME Less(s, s) PROVE FALSE
  OBVIOUS
<1>1. PICK n \in Nat : GreaterAt(n, s, s)
  BY LessIs
<1>2. n \in 1 .. Q!Len(s) /\ s[n] < s[n]
  BY <1>1 DEF GreaterAt
<1>3. s[n] \in Nat
  BY <1>2, ByteIsNatural
<1> QED
  BY <1>2, <1>3

\* Among entries in order the search finds the number of the keys below the target.
LEMMA SearchCounts ==
  ASSUME NEW es, Ascends(es), \A i \in DOMAIN es : es[i].key \in Key, NEW t \in Bound
  PROVE  Search(es, t) = Cardinality({k \in {es[i].key : i \in DOMAIN es} : Less(k, t)})
<1>1. PICK n \in Nat : /\ es = [i \in 1 .. n |-> es[i]]
                       /\ \A i, j \in 1 .. n : i < j => Less(es[i].key, es[j].key)
  BY DEF Ascends
<1>2. Q!Len(es) = n /\ DOMAIN es = 1 .. n
  <2>1. ASSUME NEW e, e = [i \in 1 .. n |-> es[i]] PROVE Q!Len(e) = n /\ DOMAIN e = 1 .. n
    BY <2>1
  <2> QED
    BY <1>1, <2>1
<1>3. t \in Q!Seq(Nat) /\ \A i \in 1 .. n : es[i].key \in Q!Seq(Nat)
  BY <1>2, BytesAssumption
<1> DEFINE T == {h \in 0 .. n : h = n \/ ~Less(es[h + 1].key, t)}
<1>4. PICK c \in T : \A h \in T : c <= h
  <2>1. n \in T /\ T \subseteq Nat
    OBVIOUS
  <2> HIDE DEF T
  <2> QED
    BY <2>1, LeastExists
<1>5. c \in 0 .. n
  OBVIOUS
<1>6. ASSUME NEW h \in 0 .. n - 1, h < c PROVE Less(es[h + 1].key, t)
  <2>1. h \in 0 .. n /\ h # n /\ ~(c <= h)
    BY <1>5, <1>6
  <2> QED
    BY <1>4, <2>1
<1>7. ASSUME NEW h \in 0 .. n - 1, h >= c PROVE ~Less(es[h + 1].key, t)
  <2>1. c # n /\ c + 1 \in 1 .. n /\ h + 1 \in 1 .. n
    BY <1>5, <1>7
  <2>2. ~Less(es[c + 1].key, t)
    BY <1>4, <2>1
  <2>3. CASE h = c
    BY <2>2, <2>3
  <2>4. CASE h > c
    <3>1. c + 1 < h + 1
      BY <1>5, <2>4
    <3>2. Less(es[c + 1].key, es[h + 1].key)
      BY <1>1, <2>1, <3>1
    <3> QED
      BY <1>3, <2>1, <2>2, <3>2, LessTransitive
  <2> QED
    BY <1>5, <1>7, <2>3, <2>4
<1> HIDE DEF T
<1>8. Search(es, t) = c
  <2>1. \A h \in 0 .. n - 1 : Reaches(es, h, t) <=> h >= c
    <3>1. \A h \in 0 .. n - 1 : h < c \/ h >= c
      BY <1>5
    <3>2. \A h \in 0 .. n - 1 : ~(h < c /\ h >= c)
      BY <1>5
    <3> QED
      BY <3>1, <3>2, <1>6, <1>7 DEF Reaches, AtLeast
  <2> QED
    BY <1>2, <1>5, <2>1, SearchIs
<1> DEFINE Below == {k \in {es[i].key : i \in DOMAIN es} : Less(k, t)}
           F == [i \in 1 .. c |-> es[i].key]
<1>9. \A i \in 1 .. n : Less(es[i].key, t) <=> i <= c
  <2> SUFFICES ASSUME NEW i \in 1 .. n PROVE Less(es[i].key, t) <=> i <= c
    OBVIOUS
  <2>1. i - 1 \in 0 .. n - 1 /\ (i - 1) + 1 = i /\ (i <= c <=> i - 1 < c) /\ (i - 1 < c \/ i - 1 >= c)
    BY <1>5
  <2> QED
    BY <2>1, <1>6, <1>7
<1>10. Cardinality(Below) = c
  <2>1. \A i \in 1 .. c : i \in 1 .. n /\ i <= c
    BY <1>5
  <2>2. F \in [1 .. c -> Below]
    BY <1>2, <1>9, <2>1
  <2>3. ASSUME NEW i \in 1 .. c, NEW j \in 1 .. c, F[i] = F[j] PROVE i = j
    <3>1. es[i].key = es[j].key /\ i \in 1 .. n /\ j \in 1 .. n
      BY <2>1, <2>3
    <3>2. ~(i < j) /\ ~(j < i)
      BY <1>1, <1>3, <3>1, NotLessItself
    <3> QED
      BY <1>5, <3>2
  <2>4. ASSUME NEW k \in Below PROVE \E i \in 1 .. c : F[i] = k
    <3>1. PICK i \in 1 .. n : k = es[i].key /\ Less(k, t)
      BY <1>2
    <3>2. i \in 1 .. c
      BY <1>5, <1>9, <3>1
    <3> QED
      BY <3>1, <3>2
  <2> HIDE DEF F, Below
  <2> QED
    BY <1>5, <2>2, <2>3, <2>4, Counted
<1> QED
  BY <1>8, <1>10

\* What an iterator captures is in order.
LEMMA CapturedAscends ==
  ASSUME NEW ks, NEW es \in Captured(ks)
  PROVE  Ascends(es)
<1> DEFINE live == LiveEntries(index) \cap ks
           n == Cardinality(live)
<1>1. n \in Nat
  <2>1. live \in SUBSET Key
    BY DEF LiveEntries
  <2> HIDE DEF live
  <2> QED
    BY <2>1, BytesAssumption, PartCounted
<1>2. PICK keys \in Sorted(live) : es = [i \in DOMAIN keys |-> [key |-> keys[i], loc |-> index[keys[i]]]]
  BY DEF Captured
<1>3. DOMAIN keys = 1 .. n /\ \A i, j \in 1 .. n : i < j => Less(keys[i], keys[j])
  BY DEF Sorted
<1>4. DOMAIN es = 1 .. n /\ es = [i \in 1 .. n |-> es[i]] /\ \A i \in 1 .. n : es[i].key = keys[i]
  BY <1>2, <1>3
<1> HIDE DEF n
<1> QED
  BY <1>1, <1>3, <1>4 DEF Ascends

(***************************************************************************)
(* The inductive invariant of the iterator, beside the one of the store:   *)
(* an iterator that has not been closed belongs to the open store, so its  *)
(* Value reads what the store shows, and its entries are in order, so that *)
(* Seek can search them.                                                   *)
(***************************************************************************)
IterForm ==
  Held => /\ {"kind", "entries", "open", "live", "gone"} \subseteq DOMAIN iter
          /\ \A i \in DOMAIN iter.entries : iter.entries[i].key \in Key
          /\ Ascends(iter.entries)
          /\ iter.open => up

IterInv == IterForm /\ (read # NoRead => Held) /\ RangeYieldsLive /\ ValueIsCurrent

StoreInv == TypeInv /\ ResInv /\ ReadInv /\ SoundInv

\* The store's part, which no iterator touches.
LEMMA NextStoreInv == StoreInv /\ [Next]_vars => StoreInv'
BY NextTypeInv, NextResInv, NextReadInv, NextSoundInv DEF StoreInv, ResInv

\* Every step of the iterators is one of the store, or leaves it alone.
LEMMA IterStepIsStoreStep == [IterNext]_<<vars, iterVars>> => [Next]_vars
BY DEF IterNext, Iter, Prefix, RangeIter, NewIter, Advance, ReadValue, Rewind, Seek, StoreStep, iterVars

\* What Captured holds: the live keys asked for, and no others.
LEMMA CapturedKeys ==
  ASSUME NEW ks, NEW es \in Captured(ks)
  PROVE  {es[i].key : i \in DOMAIN es} = LiveEntries(index) \cap ks
<1>1. PICK keys \in Sorted(LiveEntries(index) \cap ks) :
        es = [i \in DOMAIN keys |-> [key |-> keys[i], loc |-> index[keys[i]]]]
  BY DEF Captured
<1>2. LiveEntries(index) \cap ks = {keys[i] : i \in DOMAIN keys}
  BY <1>1 DEF Sorted
<1>3. DOMAIN es = DOMAIN keys /\ \A i \in DOMAIN keys : es[i].key = keys[i]
  BY <1>1
<1> QED
  BY <1>2, <1>3

\* A store at rest has the keys live that the client may find, and no other.
LEMMA LiveIsAcked ==
  ASSUME StoreInv, Ready, ~Damaged, NEW k \in Key
  PROVE  /\ acked[k] \subseteq Value => k \in LiveEntries(index)
         /\ acked[k] = {NoValue} => k \notin LiveEntries(index)
<1>1. AllIn(index, segments) /\ AllResolve(disk, index) /\ DiskOK(disk)
  BY DEF Ready, StoreInv, ResInv, LocInv, IndexInv, TypeInv, Shape
<1>2. Get(index, segments, disk, k) \in acked[k]
  BY ContentsIs DEF StoreInv, ReadInv, ReadsAcked, ContentsByPC, Ready
<1>3. index[k].tomb => Get(index, segments, disk, k) = NoValue
  BY DEF Get
<1>4. ASSUME k \in LiveEntries(index) PROVE Get(index, segments, disk, k) \in Value
  <2>1. Resolves(disk, k, index[k]) /\ ~index[k].tomb
    BY <1>1, <1>4 DEF AllResolve, LiveEntries
  <2>2. disk[index[k].file].at[index[k].off].val \in Value
    BY <2>1 DEF Resolves, CanReadAt, ReadAt, StoreInv, SoundInv, AllSound, Sound
  <2> QED
    BY <1>1, <2>1, <2>2, GetResolved
<1> QED
  BY <1>2, <1>3, <1>4, LogAssumption DEF LiveEntries

\* Iter, Prefix and Range: what they asked for and what they look at agree for
\* Iter and Range.
LEMMA NewIterInv ==
  ASSUME StoreInv, IterInv, NEW kind \in {"all", "prefix", "range"}, NEW ks, NEW asked,
         kind # "prefix" => ks = asked, NewIter(kind, ks, asked)
  PROVE  IterInv'
<1>1. PICK es \in Captured(ks) :
        iter' = [kind |-> kind, entries |-> es, pos |-> 0, err |-> FALSE, open |-> TRUE,
                 live |-> {k \in asked : acked[k] \subseteq Value},
                 gone |-> {k \in Key : acked[k] = {NoValue}} \cup (Key \ asked)]
  BY DEF NewIter
<1>2. /\ iter'.kind = kind /\ iter'.entries = es /\ iter'.open
      /\ iter'.live = {k \in asked : acked[k] \subseteq Value}
      /\ iter'.gone = {k \in Key : acked[k] = {NoValue}} \cup (Key \ asked)
      /\ {"kind", "entries", "open", "live", "gone"} \subseteq DOMAIN iter'
  BY <1>1
<1>3. read' = NoRead /\ UNCHANGED vars /\ Ready
  BY DEF NewIter
<1>4. UNCHANGED <<up, faults>> /\ up
  BY <1>3 DEF vars, Ready
<1>5. {es[i].key : i \in DOMAIN es} = LiveEntries(index) \cap ks
  BY CapturedKeys
<1>6. IterForm'
  BY <1>2, <1>4, <1>5, CapturedAscends DEF IterForm, LiveEntries
<1>7. RangeYieldsLive'
  <2> SUFFICES ASSUME kind # "prefix", ~Damaged PROVE YieldsWhatWasAsked'
    BY <1>2, <1>4 DEF RangeYieldsLive, Damaged
  <2>1. Yields' = LiveEntries(index) \cap asked
    BY <1>2, <1>5 DEF Yields
  <2> QED
    BY <1>2, <1>3, <2>1, LiveIsAcked DEF YieldsWhatWasAsked, LiveEntries
<1>8. Held' /\ ValueIsCurrent'
  BY <1>2, <1>3 DEF ValueIsCurrent, Held, NoIter
<1> QED
  BY <1>6, <1>7, <1>8 DEF IterInv

\* A step that leaves the iterator as it was, or moves or closes it.
LEMMA MovedIterInv ==
  ASSUME IterInv, read' = NoRead, faults \subseteq faults',
         Held => /\ DOMAIN iter' = DOMAIN iter /\ iter' # NoIter
                 /\ iter'.kind = iter.kind /\ iter'.entries = iter.entries
                 /\ iter'.live = iter.live /\ iter'.gone = iter.gone
                 /\ iter'.open => iter.open /\ up',
         ~Held => iter' = NoIter
  PROVE  IterInv'
<1>1. CASE Held
  <2>1. Held' /\ IterForm'
    BY <1>1 DEF IterInv, IterForm, Held
  <2>2. RangeYieldsLive'
    BY <1>1 DEF IterInv, RangeYieldsLive, YieldsWhatWasAsked, Yields, Damaged
  <2> QED
    BY <2>1, <2>2 DEF IterInv, ValueIsCurrent
<1>2. CASE ~Held
  BY <1>2 DEF IterInv, IterForm, Held, RangeYieldsLive, NoIter, ValueIsCurrent
<1> QED
  BY <1>1, <1>2

\* Every step of the iterators and of the store keeps the invariant.
LEMMA NextIterInv ==
  StoreInv /\ IterInv /\ [IterNext]_<<vars, iterVars>> => IterInv'
<1> SUFFICES ASSUME StoreInv, IterInv, [IterNext]_<<vars, iterVars>> PROVE IterInv'
  OBVIOUS
<1>0. faults \subseteq faults'
  BY IterStepIsStoreStep, FaultsOnlyGrow
<1>1. CASE UNCHANGED <<vars, iterVars>>
  BY <1>1 DEF vars, iterVars, IterInv, IterForm, Held, RangeYieldsLive, YieldsWhatWasAsked, Yields,
     ValueIsCurrent, Damaged
<1>2. CASE Iter
  BY <1>2, NewIterInv DEF Iter
<1>3. ASSUME NEW p \in Bound, Prefix(p) PROVE IterInv'
  BY <1>3, NewIterInv DEF Prefix
<1>4. ASSUME NEW start \in Bound, NEW end \in Bound, RangeIter(start, end) PROVE IterInv'
  <2>1. {k \in Key : InRange(k, start, end)} = {k \in Key : ~Less(k, start) /\ Less(k, end)}
    BY DEF InRange, AtLeast
  <2> QED
    BY <1>4, <2>1, NewIterInv DEF RangeIter
<1>5. CASE Advance \/ Rewind \/ \E t \in Bound : Seek(t)
  <2>1. Held /\ read' = NoRead /\ up' = up
    BY <1>5 DEF Advance, Rewind, Seek, vars
  <2>2. {"kind", "entries", "open", "live", "gone"} \subseteq DOMAIN iter /\ (iter.open => up)
    BY <2>1 DEF IterInv, IterForm
  <2>3. \/ \E p : iter' = [iter EXCEPT !.pos = p]
        \/ \E p : iter' = [iter EXCEPT !.pos = p, !.err = FALSE]
    BY <1>5 DEF Advance, Rewind, Seek
  <2>4. /\ DOMAIN iter' = DOMAIN iter /\ iter'.kind = iter.kind /\ iter'.entries = iter.entries
        /\ iter'.live = iter.live /\ iter'.gone = iter.gone /\ iter'.open = iter.open
    BY <2>2, <2>3
  <2>5. iter' # NoIter
    BY <2>2, <2>4 DEF NoIter
  <2> QED
    BY <1>0, <2>1, <2>2, <2>4, <2>5, MovedIterInv
<1>6. CASE ReadValue
  <2> DEFINE e == iter.entries[iter.pos + 1]
             v == ReadCurrent(e)
  <2>1. /\ Held /\ pc = "idle" /\ e.key \in Key
        /\ iter' = [iter EXCEPT !.err = v = ReadError]
        /\ read' = [key |-> e.key, val |-> v]
        /\ UNCHANGED vars
    BY <1>6 DEF ReadValue, Valid, IterInv, IterForm
  <2>2. {"kind", "entries", "open", "live", "gone"} \subseteq DOMAIN iter /\ (iter.open => up)
    BY <2>1 DEF IterInv, IterForm
  <2>3. /\ DOMAIN iter' = DOMAIN iter /\ iter'.kind = iter.kind /\ iter'.entries = iter.entries
        /\ iter'.live = iter.live /\ iter'.gone = iter.gone /\ iter'.open = iter.open
    BY <2>1, <2>2
  <2>4. UNCHANGED <<up, faults, acked>>
    BY <2>1 DEF vars
  <2>5. Held'
    BY <2>2, <2>3 DEF Held, NoIter
  <2>6. IterForm' /\ RangeYieldsLive'
    BY <2>1, <2>3, <2>4 DEF IterInv, IterForm, RangeYieldsLive, YieldsWhatWasAsked, Yields, Damaged
  <2>7. ASSUME iter.open, ~Damaged PROVE v \in acked[e.key]
    <3>1. v = Get(index, segments, disk, e.key)
      BY <2>7 DEF ReadCurrent
    <3> QED
      BY <2>1, <2>2, <2>7, <3>1, ContentsIs DEF StoreInv, ReadInv, ReadsAcked, ContentsByPC
  <2>8. ValueIsCurrent'
    BY <2>1, <2>3, <2>4, <2>7 DEF ValueIsCurrent, Damaged
  <2> QED
    BY <2>5, <2>6, <2>8 DEF IterInv
<1>7. CASE StoreStep
  <2>1. /\ iter' = IF ~Held \/ up' THEN iter
                   ELSE IF crashes' # crashes THEN NoIter ELSE [iter EXCEPT !.open = FALSE]
        /\ read' = NoRead
    BY <1>7 DEF StoreStep
  <2>2. CASE ~Held \/ up'
    BY <1>0, <2>1, <2>2, MovedIterInv DEF Held
  <2>3. CASE iter' = NoIter
    BY <2>1, <2>3 DEF IterInv, IterForm, Held, NoIter, RangeYieldsLive, ValueIsCurrent
  <2>4. CASE Held /\ ~up' /\ iter' = [iter EXCEPT !.open = FALSE]
    <3>1. {"kind", "entries", "open", "live", "gone"} \subseteq DOMAIN iter
      BY <2>4 DEF IterInv, IterForm
    <3>2. /\ DOMAIN iter' = DOMAIN iter /\ iter'.kind = iter.kind /\ iter'.entries = iter.entries
          /\ iter'.live = iter.live /\ iter'.gone = iter.gone /\ iter'.open = FALSE
      BY <2>4, <3>1
    <3>3. iter' # NoIter
      BY <3>1, <3>2 DEF NoIter
    <3> QED
      BY <1>0, <2>1, <2>4, <3>2, <3>3, MovedIterInv
  <2> QED
    BY <2>1, <2>2, <2>3, <2>4
<1> QED
  BY <1>1, <1>2, <1>3, <1>4, <1>5, <1>6, <1>7 DEF IterNext

\* Initially there is no iterator.
LEMMA InitIterInv == IterInit => StoreInv /\ IterInv
<1> SUFFICES ASSUME IterInit PROVE StoreInv /\ IterInv
  OBVIOUS
<1>1. Init /\ iter = NoIter /\ read = NoRead
  BY DEF IterInit
<1>2. StoreInv
  BY <1>1, InitTypeInv, InitResInv, InitReadInv, InitSoundInv DEF StoreInv
<1> QED
  BY <1>1, <1>2 DEF IterInv, IterForm, Held, NoIter, RangeYieldsLive, ValueIsCurrent

(***************************************************************************)
(* Value returns what was last acknowledged for its key, through any       *)
(* writes, rotations and merges since the key was captured.                *)
(***************************************************************************)
THEOREM ValueAlwaysCurrent == IterSpec => []ValueIsCurrent
<1>1. IterInv => ValueIsCurrent
  BY DEF IterInv
<1> QED
  BY InitIterInv, IterStepIsStoreStep, NextStoreInv, NextIterInv, <1>1, PTL DEF IterSpec

(***************************************************************************)
(* Iter and Range yield the acknowledged keys in their range, and no       *)
(* others.                                                                 *)
(***************************************************************************)
THEOREM RangeAlwaysYieldsLive == IterSpec => []RangeYieldsLive
<1>1. IterInv => RangeYieldsLive
  BY DEF IterInv
<1> QED
  BY InitIterInv, IterStepIsStoreStep, NextStoreInv, NextIterInv, <1>1, PTL DEF IterSpec

(***************************************************************************)
(* The binary search of Seek finds the first entry whose key is not less   *)
(* than the target, for any number of keys and any byte strings.           *)
(***************************************************************************)
THEOREM SeekAlwaysExact == IterSpec => []SeekIsExact
<1>1. IterInv => SeekIsExact
  BY SearchCounts DEF IterInv, IterForm, SeekIsExact, Yields
<1> QED
  BY InitIterInv, IterStepIsStoreStep, NextStoreInv, NextIterInv, <1>1, PTL DEF IterSpec
=============================================================================
