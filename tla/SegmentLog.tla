----------------------------- MODULE SegmentLog -----------------------------
(***************************************************************************)
(* internal/log: an append-only segment file and the readers over it.      *)
(*                                                                         *)
(* A file is its length in bytes, the length that is known to be on stable *)
(* storage, and the frames that tile it, by the offset of their first      *)
(* byte.  Bytes matter here only through offsets and sizes: a frame is     *)
(* either whole, and then every reader that starts at its first byte gets  *)
(* the record back (Encode and Decode are inverse, crc32 included), or it  *)
(* is torn, the proper prefix that a short write or a crash left behind,   *)
(* which no reader accepts.  crc32 is taken to detect every mismatch.      *)
(***************************************************************************)
EXTENDS Naturals, FiniteSets

CONSTANTS
  Key,               \* non-empty keys
  Value,             \* values a client stores
  NoValue,           \* "no such key"; also the nil value of a tombstone
  HeaderSize,        \* crc32 and fixed header: 4 + headerSize bytes
  KeyLen, ValueLen,  \* their bytes: below 2^32, as the frame's header has room for
  MaxRecordPayload   \* Reader.Next refuses records with more payload

ASSUME LogAssumption ==
  /\ NoValue \notin Value
  /\ HeaderSize \in Nat \ {0}
  /\ KeyLen \in [Key -> Nat \ {0}]
  /\ ValueLen \in [Value \cup {NoValue} -> Nat]
  /\ MaxRecordPayload \in Nat

(***************************************************************************)
(* A frame on disk: the record that was encoded, and whether only a proper *)
(* prefix of its bytes is there.                                           *)
(***************************************************************************)
Entry == [key : Key, val : Value \cup {NoValue}, tomb : BOOLEAN, torn : BOOLEAN]

PutEntry(k, v) == [key |-> k, val |-> v, tomb |-> FALSE, torn |-> FALSE]
DelEntry(k) == [key |-> k, val |-> NoValue, tomb |-> TRUE, torn |-> FALSE]

payloadLen(e) == KeyLen[e.key] + ValueLen[e.val]

frameSize(e) == HeaderSize + payloadLen(e)

IsFile(f) ==
  /\ f \in [len : Nat, synced : Nat, at : [DOMAIN f.at -> Entry]]
  /\ f.synced <= f.len
  /\ \A o \in DOMAIN f.at :
       /\ o \in Nat /\ o < f.len
       /\ ~f.at[o].torn => o + frameSize(f.at[o]) <= f.len

EmptyFile == [len |-> 0, synced |-> 0, at |-> [o \in {} |-> 0]]

(***************************************************************************)
(* Segment.Append.  The file is opened with O_APPEND, so the bytes go to   *)
(* its real end whatever offset the handle reports.  A write may stop      *)
(* after n of the frame's bytes.                                           *)
(***************************************************************************)
Place(at, off, e) == [o \in DOMAIN at \cup {off} |-> IF o = off THEN e ELSE at[o]]

\* Wrong: the end of the file is not moved.
AppendInPlace(f, e) == [f EXCEPT !.at = Place(@, f.len, e)]

Append(f, e) ==
  [len |-> f.len + frameSize(e), synced |-> f.synced, at |-> Place(f.at, f.len, e)]

TornEntry(e) == [key |-> e.key, val |-> e.val, tomb |-> e.tomb, torn |-> TRUE]

AppendPrefix(f, e, n) ==
  IF n = frameSize(e) THEN Append(f, e)
  ELSE [len |-> f.len + n, synced |-> f.synced, at |-> Place(f.at, f.len, TornEntry(e))]

\* Segment.Sync: everything written so far is on stable storage.
Sync(f) == [len |-> f.len, synced |-> f.len, at |-> f.at]

\* The same bytes written by code that does not sync them.
Unsynced(f) == [f EXCEPT !.synced = 0]

(***************************************************************************)
(* readRecordAt: what a read at an arbitrary offset finds.  An offset that *)
(* is not the start of a whole frame fails: past the end, in the middle of *)
(* a frame, or at a torn one, the header is short or the crc32 differs.    *)
(***************************************************************************)
CanReadAt(f, off) == off \in DOMAIN f.at /\ ~f.at[off].torn

ReadAt(f, off) == f.at[off]

(***************************************************************************)
(* Reader.Next, over a whole file: does the scan end with io.EOF (TRUE) or *)
(* with ErrCorrupt or ErrChecksum (FALSE)?  The first torn frame decides.  *)
(* With exactly a header left, the read of the payload finds no byte at    *)
(* all and returns io.EOF, the clean end of the log.  When that header is  *)
(* pieced together from several torn frames its lengths are arbitrary, and *)
(* either answer is possible.                                              *)
(***************************************************************************)
Torn(f) == {o \in DOMAIN f.at : f.at[o].torn}

FirstTorn(f) == CHOOSE o \in Torn(f) : \A p \in Torn(f) : o <= p

ScanVerdicts(f) ==
  IF \E o \in DOMAIN f.at : ~f.at[o].torn /\ payloadLen(f.at[o]) > MaxRecordPayload
    THEN {FALSE}
  ELSE IF Torn(f) = {} THEN {TRUE}
  ELSE IF f.len - FirstTorn(f) # HeaderSize THEN {FALSE}
  ELSE IF Cardinality(Torn(f)) = 1
    THEN {payloadLen(f.at[FirstTorn(f)]) <= MaxRecordPayload}
  ELSE BOOLEAN

(***************************************************************************)
(* The file system after a power loss: some prefix of the file survives,   *)
(* at least what was synced.  External to the repository.                  *)
(***************************************************************************)
Survives(f, n) ==
  [len |-> n, synced |-> n,
   at |-> [o \in {p \in DOMAIN f.at : p < n} |->
             IF o + frameSize(f.at[o]) <= n THEN f.at[o] ELSE TornEntry(f.at[o])]]

AfterPowerLoss(f) == {Survives(f, n) : n \in f.synced .. f.len}
=============================================================================
