----------------------------- MODULE StoreProps -----------------------------
(***************************************************************************)
(* What makes the store correct, stated over the variables of Store.  The  *)
(* first part holds of the code; the second part states what the           *)
(* repository says of the program where the program does something else.   *)
(***************************************************************************)
EXTENDS Store

\* What the client would read, were the mutex free: while Merge rewrites the
\* directory, what it is about to install.
Contents ==
  [k \in Key |->
     CASE pc \in {"hint", "remove"} -> Get(newIndex, {newID}, disk, k)
       [] pc \in {"reset", "fresh"} -> NoValue
       [] OTHER -> Get(index, segments, disk, k)]

(***************************************************************************)
(* The location of a live key in Store.index is the first byte of a whole  *)
(* record of that key in an open segment, so Get and Merge never fail on   *)
(* it nor return another key's value, across rotations, restarts, crashes  *)
(* and merges that gave up (Store.Get, Merge's copy loop).                 *)
(***************************************************************************)
IndexResolves ==
  (up /\ ~Damaged /\ pc \in {"idle", "copy"}) =>
    \A k \in LiveEntries(index) :
      index[k].file \in segments /\ Resolves(disk, k, index[k])

(***************************************************************************)
(* A short write damages nothing that comes before it: also in a store     *)
(* whose Segment.size no longer is the end of the file, a live key whose   *)
(* location lies before the first record that was cut short resolves,      *)
(* until a Merge, which copies what it finds (Segment.Append, Store.Put).  *)
(***************************************************************************)
DamageIsLocal ==
  (up /\ faults \subseteq {"append", "merge"} /\ pc \in {"idle", "copy"} /\ hint = "none") =>
    \A k \in LiveEntries(index) :
      /\ index[k].file \in segments
      /\ \/ Resolves(disk, k, index[k])
         \/ \E o \in Torn(disk[index[k].file]) : o <= index[k].off

(***************************************************************************)
(* A hint file that Open would load names only live records that are on    *)
(* stable storage, at every point of Merge and after any crash: Merge      *)
(* syncs the new segment before it writes the hint file, and resetToEmpty  *)
(* is the only code that removes a segment the hint file names.            *)
(***************************************************************************)
HintResolves ==
  (hint = "whole" /\ ~Damaged /\ pc # "reset") =>
    \A k \in LiveEntries(hintIndex) : DurablyResolves(disk, k, hintIndex[k])

(***************************************************************************)
(* From one Open to the next Close or crash a key reads as the last        *)
(* acknowledged Put or Delete left it (or as a write whose error came      *)
(* after the append), and rotation, Merge and a Merge that gave up do not  *)
(* change what is read.  Open itself is not judged here: the client goes   *)
(* on from what it is shown.  What Open shows is OpenFindsAcked.           *)
(***************************************************************************)
ReadsAcked ==
  (up /\ ~Damaged) => \A k \in Key : Contents[k] \in acked[k]

(***************************************************************************)
(* With no hint file, a scan of the segments that ends without an error    *)
(* finds for every key the last acknowledged write, or one that was under  *)
(* way when the process died: at every point of Merge, after every crash   *)
(* (Store.scanIndex, Merge's numbering of the new segment).  The same      *)
(* holds where the first hint file was cut short (writeHintFile): Open     *)
(* refuses it, but once it is removed nothing is lost.                     *)
(***************************************************************************)
ScanRecovers ==
  (/\ hint = "none" \/ (hint = "torn" /\ LiveEntries(hintIndex) = {})
   /\ faults \subseteq {"append"} /\ pc # "reset"
   /\ \A id \in DOMAIN disk : TRUE \in ScanVerdicts(disk[id])) =>
    \A k \in Key : Get(scanIndex(disk), DOMAIN disk, disk, k) \in acked[k]

\* No frame lies in, or after, the segment the hint file names that the hint
\* file does not name: nothing was written since the Merge that wrote it.
HintIsNews ==
  \A id \in DOMAIN disk : \A o \in DOMAIN disk[id].at :
    (\E k \in LiveEntries(hintIndex) : id >= hintIndex[k].file) =>
      \E k \in LiveEntries(hintIndex) : hintIndex[k].file = id /\ hintIndex[k].off = o

(***************************************************************************)
(* Until the first write after a Merge, Open through the hint file finds   *)
(* every acknowledged write: also when the process or the machine stops    *)
(* between writing the hint file and removing the last old segment.        *)
(***************************************************************************)
FreshHintRecovers ==
  (hint = "whole" /\ faults = {} /\ pc # "reset" /\ HintIsNews) =>
    \A k \in Key : Get(hintIndex, DOMAIN disk, disk, k) \in acked[k]

(***************************************************************************)
(* Open finds every acknowledged write, or one that was under way when the *)
(* process died: after any crash, when it scans the segments, and when the *)
(* hint file it loads is of a Merge that no write followed.  Left out are  *)
(* a Merge that gave up, a stop inside resetToEmpty's removals and a hint  *)
(* file that is out of date (OpenWithOptions, scanIndex, readHintFile).    *)
(***************************************************************************)
OpenFindsAcked ==
  [][(/\ ~up /\ up'
      /\ \/ hint = "none" /\ faults \subseteq {"append"}
         \/ hint = "whole" /\ faults = {} /\ HintIsNews) =>
       \A k \in Key : Contents'[k] \in acked[k]]_vars

(***************************************************************************)
(* Between calls the open segments are the files of the directory and the  *)
(* newest of them takes the writes: the order of file IDs that scanIndex   *)
(* relies on is the order of the writes (rotate, Merge, OpenWithOptions).  *)
(***************************************************************************)
ActiveIsNewest ==
  (Ready /\ faults \subseteq {"append"} /\ segments # {}) =>
    /\ DOMAIN disk = segments
    /\ \A id \in segments : id <= activeID

(***************************************************************************)
(* A Merge that returns nil leaves one segment file, the active one, and   *)
(* in it exactly the records the index names: every stale record and every *)
(* tombstone is gone (merge.go, Merge and resetToEmpty).                   *)
(***************************************************************************)
MergeCompacts ==
  [][(pc # "idle" /\ pc' = "idle" /\ up' /\ faults' = {} /\ ioErrors' = ioErrors) =>
       /\ segments' = {activeID'} /\ DOMAIN disk' = {activeID'}
       /\ \A o \in DOMAIN disk'[activeID'].at :
            \E k \in Key : index'[k] = [file |-> activeID', off |-> o, tomb |-> FALSE]]_vars

(***************************************************************************)
(* Without crashes and I/O errors a closed store can be opened again as    *)
(* long as the records in its files stay within the limits of Reader.Next  *)
(* and of LoadHint, which Put and Merge do not enforce: what Put, Delete,  *)
(* rotate and Merge leave on disk is then accepted by readHintFile and by  *)
(* scanIndex, at any point of the history, also after records beyond the   *)
(* limits have been merged away.                                           *)
(***************************************************************************)
KeysOnDisk == {k \in Key : \E id \in DOMAIN disk : \E o \in DOMAIN disk[id].at :
                                disk[id].at[o].key = k}

WithinLimits ==
  /\ \A id \in DOMAIN disk : \A o \in DOMAIN disk[id].at :
       payloadLen(disk[id].at[o]) <= MaxRecordPayload
  /\ \A k \in KeysOnDisk : KeyLen[k] <= MaxHintKeyLen
  /\ Cardinality(KeysOnDisk) <= MaxHintEntries

CleanOpenSucceeds ==
  (~up /\ crashes = 0 /\ ioErrors = 0 /\ WithinLimits) =>
    \/ HintLoads(hint, hintIndex)
    \/ hint = "none" /\ \A id \in DOMAIN disk : TRUE \in ScanVerdicts(disk[id])

(***************************************************************************)
(* To its client the open store is a map that only calls of Put and Delete *)
(* change, each at its key and to its value (KVMap, whose calls and acked  *)
(* are the history of those calls): the steps of Merge, its failures and   *)
(* rotation leave what Get returns alone.  A store whose files an I/O      *)
(* error has damaged counts as closed.                                     *)
(***************************************************************************)
Visible == up /\ ~Damaged

KV == INSTANCE KVMap WITH
        up <- Visible,
        map <- IF Visible THEN Contents ELSE [k \in Key |-> NoValue],
        acked <- IF Visible THEN acked ELSE [k \in Key |-> {}],
        calls <- IF Visible THEN writes ELSE 0

RefinesKVMap == KV!Spec

(***************************************************************************)
(* What the repository says and the code does not do.                      *)
(***************************************************************************)

\* A reload "reconstructs the exact current state" (index.go, WriteHint):
\* what Open finds is what was last acknowledged.  A write after a Merge is
\* not in the hint file, and Open loads nothing else.
ReloadIsExact ==
  [][(~up /\ up') => \A k \in Key : Contents'[k] \in acked[k]]_vars

\* A scan applies "the latest record per key" (store.go, Open), also after a
\* Merge that returned an error.
LatestRecordWins ==
  (~up /\ hint = "none" /\ faults \subseteq {"merge"}) =>
    \A k \in Key : Get(scanIndex(disk), DOMAIN disk, disk, k) \in acked[k]
=============================================================================
