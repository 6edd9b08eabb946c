------------------------------- MODULE KeyDir -------------------------------
(***************************************************************************)
(* internal/keydir: a key directory saved to a file and loaded again.      *)
(* SaveToFile truncates the file and writes header and records with one    *)
(* system call each; ReadFrom reads header and records with separate calls *)
(* too.  A save may fail, the process be killed and the machine lose power *)
(* at any point, and a load may run beside a save.  The file is the list   *)
(* of its blocks: the header, which holds the record count, and the        *)
(* records, all of one size; a block written in part reads as none.        *)
(***************************************************************************)
EXTENDS Naturals, Sequences

CONSTANTS
  DirKey,
  DirList,   \* the record lists that are saved, of [key, tomb] records
  NoList     \* no list: nothing was saved, loaded or begun

ASSUME KeyDirAssumption ==
  /\ \A l \in DirList : l \in Seq([key : DirKey, tomb : BOOLEAN])
  /\ NoList \notin DirList

VARIABLES
  dirFile,   \* the blocks of the file; NoList when there is none
  onDisk,    \* what of it a power loss leaves at least: the last synced file
  saving,    \* the list being saved, or NoList
  loading,   \* the count and the records a load has read, or NoList
  raced,     \* history: a save ran during the load
  stored,    \* history: the list of the last SaveToFile that returned nil
  tried      \* history: the lists SaveToFile was called with since

keyDirVars == <<dirFile, onDisk, saving, loading, raced, tried, stored>>

\* WriteTo
Blocks(list) == <<[count |-> Len(list)]>> \o list

SaveCreates(list) ==
  /\ saving = NoList
  /\ dirFile' = <<>> /\ saving' = list /\ tried' = tried \cup {list}
  /\ raced' = (loading # NoList)
  /\ UNCHANGED <<onDisk, loading, stored>>

SaveWrites ==
  /\ saving # NoList /\ Len(dirFile) < Len(Blocks(saving))
  /\ dirFile' = Append(dirFile, Blocks(saving)[Len(dirFile) + 1])
  /\ UNCHANGED <<onDisk, saving, loading, raced, tried, stored>>

\* Wrong: SaveToFile returns without Sync.
SaveReturnsUnsynced ==
  /\ saving # NoList /\ dirFile = Blocks(saving)
  /\ stored' = saving /\ tried' = {} /\ saving' = NoList
  /\ UNCHANGED <<dirFile, onDisk, loading, raced>>

\* f.Sync and f.Close
SaveReturns ==
  /\ saving # NoList /\ dirFile = Blocks(saving)
  /\ onDisk' = dirFile
  /\ stored' = saving /\ tried' = {} /\ saving' = NoList
  /\ UNCHANGED <<dirFile, loading, raced>>

\* A write or the Sync fails, or the process is killed: the file stays as it is.
SaveStops ==
  /\ saving # NoList /\ saving' = NoList
  /\ UNCHANGED <<dirFile, onDisk, loading, raced, tried, stored>>

LoadReadsHeader ==
  /\ loading = NoList /\ dirFile \notin {NoList, <<>>}
  /\ loading' = [count |-> dirFile[1].count, recs |-> <<>>]
  /\ raced' = (saving # NoList)
  /\ UNCHANGED <<dirFile, onDisk, saving, tried, stored>>

LoadReadsRecord ==
  /\ loading # NoList /\ Len(loading.recs) < loading.count
  /\ Len(dirFile) > Len(loading.recs) + 1
  /\ loading' = [loading EXCEPT !.recs = Append(@, dirFile[Len(@) + 2])]
  /\ UNCHANGED <<dirFile, onDisk, saving, raced, tried, stored>>

\* readRecord finds the end of the file: ErrFormat.  (Without a header, or
\* without a file, a load fails at once.)
LoadFails ==
  /\ loading # NoList /\ Len(loading.recs) < loading.count
  /\ Len(dirFile) <= Len(loading.recs) + 1
  /\ loading' = NoList /\ raced' = FALSE
  /\ UNCHANGED <<dirFile, onDisk, saving, tried, stored>>

\* LoadFromFile returns loading.recs.
LoadReturns ==
  /\ loading # NoList /\ Len(loading.recs) = loading.count
  /\ loading' = NoList /\ raced' = FALSE
  /\ UNCHANGED <<dirFile, onDisk, saving, tried, stored>>

\* The truncation and the later blocks reach the disk in part or not at all.
DirPowerLoss ==
  /\ dirFile # NoList
  /\ \/ dirFile' = onDisk
     \/ dirFile # onDisk /\ \E n \in 0 .. Len(dirFile) : dirFile' = SubSeq(dirFile, 1, n)
  /\ onDisk' = dirFile'
  /\ saving' = NoList /\ loading' = NoList /\ raced' = FALSE
  /\ UNCHANGED <<tried, stored>>

KeyDirInit ==
  /\ dirFile = NoList /\ onDisk = NoList /\ saving = NoList /\ loading = NoList
  /\ raced = FALSE /\ stored = NoList /\ tried = {}

KeyDirNext ==
  \/ \E l \in DirList : SaveCreates(l)
  \/ SaveWrites \/ SaveReturns \/ SaveStops
  \/ LoadReadsHeader \/ LoadReadsRecord \/ LoadFails \/ LoadReturns
  \/ DirPowerLoss

KeyDirSpec == KeyDirInit /\ [][KeyDirNext]_keyDirVars

(***************************************************************************)
(* NewSnapshot: the loop leaves in byKey the last index of each key (0 for *)
(* none); Get and LiveKeys look there.                                     *)
(***************************************************************************)
byKey(list) ==
  LET last[i \in 0 .. Len(list)] ==
        IF i = 0 THEN [k \in DirKey |-> 0] ELSE [last[i - 1] EXCEPT ![list[i].key] = i]
  IN last[Len(list)]

LiveKeys(list) == {k \in DirKey : byKey(list)[k] # 0 /\ ~list[byKey(list)[k]].tomb}

(***************************************************************************)
(* A load that no save overlapped returns an error or a directory that     *)
(* answers for every key as the one last saved, or one that a later save   *)
(* tried to put in its place: a key is live when the last record of it is  *)
(* not a tombstone, after failed saves, kills and power losses             *)
(* (SaveToFile, LoadFromFile, NewSnapshot).                                *)
(***************************************************************************)
LastIsLive(list) ==
  {k \in DirKey : \E i \in 1 .. Len(list) :
     /\ list[i].key = k /\ ~list[i].tomb
     /\ \A j \in i + 1 .. Len(list) : list[j].key # k}

LoadAnswersAsSaved ==
  (loading # NoList /\ Len(loading.recs) = loading.count /\ ~raced) =>
    \E l \in (tried \cup {stored}) \ {NoList} : LiveKeys(loading.recs) = LastIsLive(l)

(***************************************************************************)
(* Once SaveToFile has returned nil the saved list is what the file holds, *)
(* whatever loses power, until the next SaveToFile (Sync before Close),    *)
(* and loads answer as described above.                                    *)
(***************************************************************************)
SavedIsDurable == (tried = {} /\ stored # NoList) => dirFile = Blocks(stored)

DirectorySurvives == SavedIsDurable /\ LoadAnswersAsSaved
=============================================================================
