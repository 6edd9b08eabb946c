------------------------------ MODULE Archives ------------------------------
(***************************************************************************)
(* Store.Backup and Restore (backup.go), beside everything else the store  *)
(* does.  There is one archive, the last one written.  Restore runs on a   *)
(* directory no store has open: the store's own, which then goes on from   *)
(* what Restore left there, or an empty one that takes its place.          *)
(***************************************************************************)
EXTENDS StoreProps

VARIABLES
  archive,   \* its segment files, its hint file and whether it was finished
  saved,     \* history: acked, faults, mixed and whether the hint
             \* file was up to date when it was written
  mixed,     \* history: a Restore has left its files among others
  restored   \* history: what the last Restore did, until the next Open

archiveVars == <<archive, saved, mixed, restored>>

NoArchive == [segs |-> [id \in {} |-> EmptyFile], hint |-> "none",
              index |-> NewIndex, written |-> FALSE, finished |-> FALSE]

\* The files ids of d as an archive carries them: their bytes, and nothing
\* about what was synced.
Files(d, ids) == [id \in ids |-> Unsynced(d[id])]

(***************************************************************************)
(* Backup adds the open segments, then the hint file.  The archive is      *)
(* finished by deferred calls whose errors are dropped, so a Backup that   *)
(* returned nil may leave one that was cut short: after the segments ids,  *)
(* in one of them, or in the hint file that follows the last.  One that    *)
(* returned an error leaves no more.                                       *)
(***************************************************************************)
\* Wrong: the segment that takes the writes is left out.
ArchivedButActive == segments \ {activeID}

Archived == segments

BackedUp(segs, h, finished) ==
  /\ CanAppend
  /\ disk' = SyncedActive
  /\ archive' = [segs |-> segs, hint |-> h, index |-> hintIndex, written |-> TRUE,
                 finished |-> finished]
  /\ saved' = [acked |-> acked, faults |-> faults, mixed |-> mixed,
                news |-> hint = "whole" /\ HintIsNews]
  /\ UNCHANGED <<hint, hintIndex, up, memVars, mergeVars, acked, faults, writes, crashes,
                 mixed, restored>>

Backup ==
  /\ BackedUp(Files(SyncedActive, Archived), hint, TRUE)
  /\ UNCHANGED ioErrors

BackupCutShort(ids) ==
  /\ CountIOError
  /\ \/ BackedUp(Files(SyncedActive, ids), "none", FALSE)
     \/ \E id \in ids : \E n \in 0 .. disk[id].len - 1 :
          BackedUp([Files(SyncedActive, ids) EXCEPT ![id] = Unsynced(Survives(@, n))],
                   "none", FALSE)
     \/ /\ ids = Archived /\ hint # "none"
        /\ \E h \in {"torn", hint} : BackedUp(Files(SyncedActive, ids), h, FALSE)

(***************************************************************************)
(* Restore creates the archive's files one by one.  It is one step here,   *)
(* which may stop with an error after some of them: at the cut of an       *)
(* archive, or because a file cannot be written.  Nothing is synced, and   *)
(* files of other names stay.                                              *)
(***************************************************************************)
Extracted(old, ids) ==
  [id \in DOMAIN old \cup ids |-> IF id \in ids THEN archive.segs[id] ELSE old[id]]

RestoreFrom(old, oldHint, oldIndex) ==
  /\ disk' = Extracted(old, DOMAIN archive.segs)
  /\ hint' = IF archive.hint # "none" THEN archive.hint ELSE oldHint
  /\ hintIndex' = IF archive.hint # "none" THEN archive.index ELSE oldIndex

NewDirectory == [id \in {} |-> EmptyFile]

\* Wrong: the hint file is created and nothing is copied into it.
RestoreIntoEmptyHintless ==
  /\ ~up /\ archive.finished
  /\ disk' = Extracted(NewDirectory, DOMAIN archive.segs)
  /\ hint' = "torn" /\ hintIndex' = NewIndex
  /\ acked' = saved.acked /\ faults' = saved.faults /\ mixed' = saved.mixed
  /\ restored' = "into empty"
  /\ UNCHANGED <<up, memVars, mergeVars, bounds, archive, saved>>

\* The client goes on from the archive, and expects what it had then.
RestoreIntoEmpty ==
  /\ ~up /\ archive.finished
  /\ RestoreFrom(NewDirectory, "none", NewIndex)
  /\ acked' = saved.acked /\ faults' = saved.faults /\ mixed' = saved.mixed
  /\ restored' = "into empty"
  /\ UNCHANGED <<up, memVars, mergeVars, bounds, archive, saved>>

RestoreOverOld ==
  /\ ~up /\ archive.finished
  /\ RestoreFrom(disk, hint, hintIndex)
  /\ acked' = saved.acked /\ faults' = saved.faults /\ mixed' = TRUE
  /\ restored' = "over old"
  /\ UNCHANGED <<up, memVars, mergeVars, bounds, archive, saved>>

\* An I/O error: the files ids were begun; the last of them, or the hint file
\* after all of them, is cut short.
RestoreFails(ids) ==
  /\ ~up /\ archive.written /\ CountIOError
  /\ \/ disk' = Extracted(disk, ids) /\ UNCHANGED hint
     \/ \E id \in ids : \E n \in 0 .. archive.segs[id].len - 1 :
          /\ disk' = [Extracted(disk, ids) EXCEPT ![id] = Unsynced(Survives(@, n))]
          /\ UNCHANGED hint
     \/ /\ ids = DOMAIN archive.segs /\ archive.hint # "none"
        /\ disk' = Extracted(disk, ids) /\ hint' = "torn"
  /\ restored' = "partly" /\ mixed' = TRUE
  /\ UNCHANGED <<hintIndex, up, memVars, mergeVars, acked, faults, writes, crashes,
                 archive, saved>>

\* The archive was cut short: an error where it ends.
RestoreCutShort ==
  /\ ~up /\ archive.written /\ ~archive.finished
  /\ RestoreFrom(disk, hint, hintIndex)
  /\ restored' = "partly" /\ mixed' = TRUE
  /\ UNCHANGED <<up, memVars, mergeVars, acked, faults, bounds, archive, saved>>

StoreRuns ==
  /\ Next
  /\ restored' = IF up' THEN "no" ELSE restored
  /\ UNCHANGED <<archive, saved, mixed>>

ArchiveInit ==
  /\ Init
  /\ archive = NoArchive
  /\ saved = [acked |-> acked, faults |-> {}, mixed |-> FALSE, news |-> FALSE]
  /\ mixed = FALSE
  /\ restored = "no"

ArchiveNext ==
  \/ StoreRuns
  \/ Backup \/ \E ids \in SUBSET segments : BackupCutShort(ids)
  \/ RestoreIntoEmpty \/ RestoreOverOld \/ RestoreCutShort
  \/ \E ids \in SUBSET DOMAIN archive.segs : RestoreFails(ids)

ArchiveSpec == ArchiveInit /\ [][ArchiveNext]_<<vars, archiveVars>>

\* What an Open of the directory would find.
FoundBy(d, h, m) ==
  LET idx == IF h = "whole" THEN m ELSE scanIndex(d)
  IN [k \in Key |-> Get(idx, DOMAIN d, d, k)]

(***************************************************************************)
(* What an Open of a finished archive's files finds is every write that    *)
(* was acknowledged before the backup, whether it scans them or loads a    *)
(* hint file that no write had outdated, and whatever merges, rotations,   *)
(* restarts and restores came before (Backup, OpenWithOptions).  It is     *)
(* lost after a Merge that gave up, since rotate may have opened the       *)
(* segment that left behind, and after a crash that took restored bytes,   *)
(* which Restore does not sync.                                            *)
(***************************************************************************)
ArchiveRecovers ==
  (/\ archive.finished /\ ~saved.mixed /\ saved.faults = {} /\ crashes = 0
   /\ archive.hint = "none" \/ saved.news) =>
    \A k \in Key : FoundBy(archive.segs, archive.hint, archive.index)[k] \in saved.acked[k]

(***************************************************************************)
(* A store whose archive was restored into an empty directory finds every  *)
(* live record the archive's hint file names, so Get never fails on it:    *)
(* with any number of merges before the backup.                            *)
(***************************************************************************)
RestoredHintResolves ==
  (/\ restored = "into empty" /\ ~up /\ archive.hint = "whole"
   /\ ~saved.mixed /\ saved.faults = {} /\ crashes = 0) =>
    /\ hint = "whole"
    /\ \A k \in LiveEntries(hintIndex) : Resolves(disk, k, hintIndex[k])
=============================================================================
