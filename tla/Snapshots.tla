----------------------------- MODULE Snapshots -----------------------------
(***************************************************************************)
(* Store.Snapshot (snapshot.go), beside everything else the store does.    *)
(*                                                                         *)
(* A snapshot directory holds segment files and perhaps a hint file, each  *)
(* a hard link to the store's file or a copy of it.  A linked file is the  *)
(* store's file: it changes with it until the store unlinks its own name,  *)
(* and keeps its last content from then on.  Segments are only appended    *)
(* to, but writeHintFile rewrites hint.bin in place (os.Create).           *)
(***************************************************************************)
EXTENDS StoreProps

VARIABLES
  links,     \* IDs of the snapshot's segments that are the store's files
  copies,    \* the snapshot's other segment files, by ID
  hintLink,  \* the snapshot's hint file is the store's
  hintCopy,  \* otherwise its state ...
  hintCopyIndex, \* ... and the index it holds when it is whole
  taken,     \* history: no snapshot; one into an empty directory before any fault
             \* ("fresh", or "linked" when its hint file is a link); a fresh one
             \* of which a power loss took a part ("cut"); or any other
  since      \* history: the acknowledged maps since it was taken, if it is not another

snapVars == <<links, copies, hintLink, hintCopy, hintCopyIndex, taken, since>>

(***************************************************************************)
(* The snapshot as an Open of its directory would find it.                 *)
(***************************************************************************)
SnapDisk ==
  [id \in links \cup DOMAIN copies |-> IF id \in links THEN disk[id] ELSE copies[id]]
SnapHint == IF hintLink THEN hint ELSE hintCopy
SnapHintIndex == IF hintLink THEN hintIndex ELSE hintCopyIndex

\* Open takes it: its hint file loads, or it has none and the scan ends well.
SnapOpens ==
  \/ HintLoads(SnapHint, SnapHintIndex)
  \/ SnapHint = "none" /\ \A id \in DOMAIN SnapDisk : TRUE \in ScanVerdicts(SnapDisk[id])

SnapIndex == IF SnapHint = "none" THEN scanIndex(SnapDisk) ELSE SnapHintIndex
SnapContents == [k \in Key |-> Get(SnapIndex, DOMAIN SnapDisk, SnapDisk, k)]

(***************************************************************************)
(* Snapshot writes the files of from, linking those in linked and copying  *)
(* the others.  Where the directory already has a file of that name        *)
(* os.Link fails, and the copy overwrites it: when the two are one file,   *)
(* the store's own, truncated and written again.  fileCopy syncs nothing.  *)
(* What an earlier snapshot left there under other names stays.            *)
(***************************************************************************)
\* Wrong: only segments that no longer take writes are taken.
TakeSegmentsButActive(from, linked) ==
  LET copied == (DOMAIN from \ {activeID}) \ linked
  IN /\ links' = links \cup ((linked \cap DOMAIN from) \ {activeID})
     /\ copies' = [id \in DOMAIN copies \cup (copied \ links) |->
                     IF id \in copied THEN Unsynced(from[id]) ELSE copies[id]]
     /\ disk' = SyncedActive

TakeSegments(from, linked) ==
  LET copied == DOMAIN from \ linked
  IN /\ links' = links \cup (linked \cap DOMAIN from)
     /\ copies' = [id \in DOMAIN copies \cup (copied \ links) |->
                     IF id \in copied THEN Unsynced(from[id]) ELSE copies[id]]
     /\ disk' = [id \in DOMAIN disk |->
                   IF id \in copied \cap links THEN Unsynced(from[id]) ELSE SyncedActive[id]]

\* The hint file, when the store has one: linked if asked for and possible.
\* Copied onto itself it keeps its content.
TakeHint(link) ==
  IF hint = "none" \/ hintLink THEN UNCHANGED <<hintLink, hintCopy, hintCopyIndex>>
  ELSE IF link /\ hintCopy = "none"
    THEN hintLink' = TRUE /\ UNCHANGED <<hintCopy, hintCopyIndex>>
  ELSE hintCopy' = hint /\ hintCopyIndex' = hintIndex /\ UNCHANGED hintLink

\* The file system may refuse any of the links (another device).
Linkable == SUBSET (segments \ (links \cup DOMAIN copies))

\* Bound: one Snapshot, and one more or one that stops.
AtMostTwo == taken # "again"

Segments(ids) == [id \in ids |-> SyncedActive[id]]

Snapshot(linked, link) ==
  /\ CanAppend /\ AtMostTwo
  /\ TakeSegments(Segments(segments), linked)
  /\ TakeHint(link)
  /\ taken' = IF taken # "no" \/ faults # {} THEN "again"
              ELSE IF hintLink' THEN "linked" ELSE "fresh"
  /\ since' = IF taken' = "again" THEN {} ELSE {acked}
  /\ UNCHANGED <<hint, hintIndex, up, memVars, mergeVars, acked, faults, bounds>>

\* A Snapshot that stops: after some of the segments, in the copy of one of
\* them, or in that of the hint file.  Half a snapshot stays, and where the
\* file was copied onto itself, half of the store's file.
Partly(linked) ==
  /\ CanAppend /\ AtMostTwo
  /\ \/ \E done \in SUBSET segments :
          /\ \/ TakeSegments(Segments(done), linked)
             \/ \E id \in done \ linked : \E n \in 0 .. disk[id].len - 1 :
                  TakeSegments([Segments(done) EXCEPT ![id] = Survives(@, n)], linked)
          /\ UNCHANGED <<hint, hintCopy>>
     \/ /\ hint # "none" /\ TakeSegments(Segments(segments), linked)
        /\ IF hintLink THEN hint' = "torn" /\ UNCHANGED hintCopy
                       ELSE hintCopy' = "torn" /\ UNCHANGED hint
  /\ taken' = "again" /\ since' = {}
  /\ UNCHANGED <<hintIndex, acked, faults, writes, hintLink, hintCopyIndex>>

SnapshotFails(linked) ==
  /\ Partly(linked) /\ CountIOError
  /\ UNCHANGED <<up, memVars, mergeVars, crashes>>

KillInSnapshot(linked) ==
  /\ Partly(linked) /\ CountCrash /\ Down
  /\ UNCHANGED ioErrors

\* A step of the store, and what it does to the files behind the links.  A
\* power loss here is one that spares the copies.
Unlinked == links \ DOMAIN disk'

StoreStep ==
  /\ Next
  /\ links' = links \ Unlinked
  /\ copies' = [id \in DOMAIN copies \cup Unlinked |->
                  IF id \in Unlinked THEN disk[id] ELSE copies[id]]
  /\ IF hintLink /\ hint' = "none"
       THEN hintLink' = FALSE /\ hintCopy' = hint /\ hintCopyIndex' = hintIndex
       ELSE UNCHANGED <<hintLink, hintCopy, hintCopyIndex>>
  /\ since' = IF taken \in {"no", "again"} THEN since ELSE since \cup {acked'}
  /\ UNCHANGED taken

\* A power loss that takes bytes of the copies as well, which nothing synced.
\* A "linked" snapshot's hint file is one the store has written and synced.
CopiesLost ==
  /\ PowerLoss
  /\ copies' \in {c \in [DOMAIN copies -> UNION {AfterPowerLoss(copies[id]) : id \in DOMAIN copies}] :
                    \A id \in DOMAIN copies : c[id] \in AfterPowerLoss(copies[id])}
  /\ hintCopy' \in IF hintCopy = "whole" /\ taken # "linked" THEN {"whole", "torn"} ELSE {hintCopy}
  /\ <<copies', hintCopy'>> # <<copies, hintCopy>>
  /\ taken' = IF taken = "fresh" THEN "cut" ELSE "again"
  /\ since' = IF taken' = "again" THEN {} ELSE since \cup {acked'}
  /\ UNCHANGED <<links, hintLink, hintCopyIndex>>

SnapInit ==
  /\ Init
  /\ links = {} /\ copies = [id \in {} |-> EmptyFile]
  /\ hintLink = FALSE /\ hintCopy = "none" /\ hintCopyIndex = NewIndex
  /\ taken = "no" /\ since = {}

SnapNext ==
  \/ StoreStep \/ CopiesLost
  \/ \E linked \in Linkable :
       \/ \E link \in BOOLEAN : Snapshot(linked, link)
       \/ SnapshotFails(linked) \/ KillInSnapshot(linked)

SnapSpec == SnapInit /\ [][SnapNext]_<<vars, snapVars>>

(***************************************************************************)
(* A snapshot without a hint file that Open takes shows the store as it    *)
(* was at one moment, its own or a later one: writes that go on in a       *)
(* linked segment show in it, in their order and from the first one on,    *)
(* and rotation, Merge, crashes and the removal of the store's own files   *)
(* do not (Snapshot, linkOrCopy).  Left out are a snapshot whose copies a  *)
(* power loss cut, and one that Open refuses (SnapshotIsConsistent).       *)
(***************************************************************************)
ShowsAMoment == \E then \in since : \A k \in Key : SnapContents[k] \in then[k]

SnapshotIsAMoment ==
  (taken = "fresh" /\ SnapHint = "none" /\ SnapOpens /\ ~Damaged) => ShowsAMoment

(***************************************************************************)
(* A hint file that was copied into the snapshot, not linked, names only   *)
(* records the snapshot has, however often the store is merged later and   *)
(* whatever fails there, a power loss included that spares the copies: the *)
(* segments it names may be links, the hint file may not                   *)
(* (SnapshotIsConsistent; Snapshot, Merge, writeHintFile).                 *)
(***************************************************************************)
SnapshotHintResolves ==
  (taken = "fresh" /\ SnapHint = "whole") =>
    \A k \in LiveEntries(SnapHintIndex) : Resolves(SnapDisk, k, SnapHintIndex[k])

(***************************************************************************)
(* What the comment of Snapshot says, and the program does not keep: the   *)
(* snapshot is "a consistent read-only copy" and "crash-consistent", since *)
(* "any partial write at the tail of the active segment is benign on       *)
(* reload".  So Open takes it, with every record its index names, and      *)
(* without a hint file it shows one moment of the store.  A record cut     *)
(* short in a linked segment makes Open fail; a Merge rewrites the linked  *)
(* hint file in place; a power loss may take the bytes of copies, which    *)
(* fileCopy does not sync.                                                 *)
(***************************************************************************)
SnapshotIsConsistent ==
  (taken \in {"fresh", "linked", "cut"} /\ ~Damaged) =>
    /\ SnapOpens
    /\ \A k \in LiveEntries(SnapIndex) : Resolves(SnapDisk, k, SnapIndex[k])
    /\ SnapHint = "none" => ShowsAMoment
=============================================================================
