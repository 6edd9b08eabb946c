------------------------------ MODULE KeyIndex ------------------------------
(***************************************************************************)
(* internal/index: the in-memory map from a key to the location of its     *)
(* latest record.  A key the map does not track is given NoLocation, which *)
(* like a tombstone's location is never live; nothing in the store tells   *)
(* the two apart.  Location.Size is written and never read: left out.      *)
(***************************************************************************)
EXTENDS SegmentLog

CONSTANTS
  MaxHintKeyLen,  \* readHintEntry refuses longer keys: 1<<24
  MaxHintEntries  \* LoadHint refuses more entries: 1<<28

ASSUME HintAssumption ==
  /\ IsFiniteSet(Key)
  /\ MaxHintKeyLen \in Nat /\ MaxHintEntries \in Nat

Location == [file : Nat, off : Nat, tomb : BOOLEAN]

NoLocation == [file |-> 0, off |-> 0, tomb |-> TRUE]

IsIndex(m) == m \in [Key -> Location]

\* index.New
NewIndex == [k \in Key |-> NoLocation]

\* Index.Put
IndexPut(m, k, id, off, tomb) ==
  [m EXCEPT ![k] = [file |-> id, off |-> off, tomb |-> tomb]]

\* Index.LiveEntries, as the set of its keys
LiveEntries(m) == {k \in Key : ~m[k].tomb}

(***************************************************************************)
(* Index.LoadHint of a hint file in the state h that was written from the  *)
(* index m: one that ends early, in its count or in one of its entries, is *)
(* an error, and so is a whole one with more entries or a longer key than  *)
(* LoadHint allows, which Put, Merge and WriteHint do not ask about.       *)
(* Merge writes the hint file from an index of live keys only.             *)
(***************************************************************************)
HintLoads(h, m) ==
  /\ h = "whole"
  /\ Cardinality(LiveEntries(m)) <= MaxHintEntries
  /\ \A k \in LiveEntries(m) : KeyLen[k] <= MaxHintKeyLen

(***************************************************************************)
(* Store.scanIndex: every whole record of every file, in file order and    *)
(* then in offset order; the last one of a key is the one that stays.      *)
(***************************************************************************)
Records(disk, k) ==
  {p \in UNION {{id} \X DOMAIN disk[id].at : id \in DOMAIN disk} :
     /\ disk[p[1]].at[p[2]].key = k
     /\ ~disk[p[1]].at[p[2]].torn}

\* Wrong: the newest segment is read first.
NewestFirst(p, q) == p[1] < q[1] \/ (p[1] = q[1] /\ p[2] >= q[2])

LaterOrSame(p, q) == p[1] > q[1] \/ (p[1] = q[1] /\ p[2] >= q[2])

LastRecord(disk, k) ==
  CHOOSE p \in Records(disk, k) : \A q \in Records(disk, k) : LaterOrSame(p, q)

scanIndex(disk) ==
  [k \in Key |->
     IF Records(disk, k) = {} THEN NoLocation
     ELSE LET p == LastRecord(disk, k)
          IN [file |-> p[1], off |-> p[2], tomb |-> disk[p[1]].at[p[2]].tomb]]

\* The location of a live key resolves: a whole record with a value of that
\* key starts there.
Resolves(d, k, loc) ==
  /\ loc.file \in DOMAIN d
  /\ CanReadAt(d[loc.file], loc.off)
  /\ ReadAt(d[loc.file], loc.off).key = k
  /\ ~ReadAt(d[loc.file], loc.off).tomb

\* The same, and the whole record is on stable storage.
DurablyResolves(d, k, loc) ==
  /\ Resolves(d, k, loc)
  /\ loc.off + frameSize(ReadAt(d[loc.file], loc.off)) <= d[loc.file].synced
=============================================================================
