----------------------------- MODULE Iterators -----------------------------
(***************************************************************************)
(* Iterators over a store (iter.go), beside everything else the store      *)
(* does.  An iterator takes the live keys of one moment and reads each     *)
(* value when it is asked for it, through Store.Get.  Keys are sequences   *)
(* of bytes here, compared as Go compares strings.                         *)
(***************************************************************************)
EXTENDS StoreProps

\* Store has an Append of its own, so sequences are used by name.
Q == INSTANCE SequencesExt

CONSTANT Bound  \* the byte strings Prefix, Range and Seek are called with

\* A key is a string whose length fits the record header: there are finitely many.
ASSUME BytesAssumption ==
  Key \subseteq Q!Seq(Nat) /\ IsFiniteSet(Key) /\ Bound \subseteq Q!Seq(Nat)

VARIABLES
  iter,  \* the iterator a client holds, or NoIter
  read   \* history: the result of the last step, when that was Value

iterVars == <<iter, read>>

NoIter == [kind |-> "none"]
NoRead == [val |-> NoValue]

(***************************************************************************)
(* s < t for Go strings: a proper prefix, or less at the first difference. *)
(***************************************************************************)
Less(s, t) ==
  \/ Q!IsStrictPrefix(s, t)
  \/ \E n \in 1 .. Q!Len(s) :
       /\ n <= Q!Len(t) /\ s[n] < t[n]
       /\ \A i \in 1 .. n - 1 : s[i] = t[i]

AtLeast(s, t) == ~Less(s, t)

\* keyHasPrefix: the bytes it compares are the last ones of the key.
keyHasPrefix(k, p) ==
  Q!Len(k) >= Q!Len(p) /\ Q!SubSeq(k, Q!Len(k) - Q!Len(p) + 1, Q!Len(k)) = p

\* Wrong: end counts.
InClosedRange(k, start, end) == AtLeast(k, start) /\ AtLeast(end, k)

InRange(k, start, end) == AtLeast(k, start) /\ Less(k, end)

\* The keys in ks in the order sort.Strings puts them: there is one such list.
Sorted(ks) ==
  {keys \in [1 .. Cardinality(ks) -> ks] :
     /\ ks = {keys[i] : i \in DOMAIN keys}
     /\ \A i, j \in DOMAIN keys : i < j => Less(keys[i], keys[j])}

\* Index.LiveEntries, in key order, of the keys in ks.
Captured(ks) ==
  {[i \in DOMAIN keys |-> [key |-> keys[i], loc |-> index[keys[i]]]] :
     keys \in Sorted(LiveEntries(index) \cap ks)}

Yields == {iter.entries[i].key : i \in DOMAIN iter.entries}

\* An iterator over ks, where the caller asked for the keys in asked.  The
\* constructors do not look at Store.closed: on a closed store they give an
\* iterator whose every Value is ErrClosed, which is left out.
NewIter(kind, ks, asked) ==
  /\ Ready
  /\ \E es \in Captured(ks) :
       iter' = [kind |-> kind, entries |-> es, pos |-> 0, err |-> FALSE, open |-> TRUE,
                live |-> {k \in asked : acked[k] \subseteq Value},
                gone |-> {k \in Key : acked[k] = {NoValue}} \cup (Key \ asked)]
  /\ read' = NoRead
  /\ UNCHANGED vars

Iter == NewIter("all", Key, Key)

Prefix(p) ==
  NewIter("prefix", {k \in Key : keyHasPrefix(k, p)}, {k \in Key : Q!IsPrefix(p, k)})

RangeIter(start, end) ==
  NewIter("range", {k \in Key : InRange(k, start, end)},
          {k \in Key : ~Less(k, start) /\ Less(k, end)})

Held == iter # NoIter
Valid == Held /\ iter.pos + 1 \in DOMAIN iter.entries /\ ~iter.err

\* Next past the end changes nothing that can be seen: bounded there.
Advance ==
  /\ Held /\ iter.pos < Q!Len(iter.entries)
  /\ iter' = [iter EXCEPT !.pos = @ + 1]
  /\ read' = NoRead
  /\ UNCHANGED vars

\* Wrong: the location taken with the key is read.
ReadCaptured(e) ==
  IF iter.open THEN Get([index EXCEPT ![e.key] = e.loc], segments, disk, e.key) ELSE ReadError

\* Store.Get, which on a closed store returns ErrClosed.
ReadCurrent(e) == IF iter.open THEN Get(index, segments, disk, e.key) ELSE ReadError

\* Value waits for Store.mu.  An error stays until Rewind or Seek.
ReadValue ==
  /\ Valid /\ pc = "idle"
  /\ LET e == iter.entries[iter.pos + 1]
         v == ReadCurrent(e)
     IN /\ iter' = [iter EXCEPT !.err = v = ReadError]
        /\ read' = [key |-> e.key, val |-> v]
  /\ UNCHANGED vars

Rewind ==
  /\ Held
  /\ iter' = [iter EXCEPT !.pos = 0, !.err = FALSE]
  /\ read' = NoRead
  /\ UNCHANGED vars

\* Wrong: the first key above the target.
ReachesLate(entries, i, t) == Less(t, entries[i + 1].key)

\* The predicate Seek hands to sort.Search.
Reaches(entries, i, t) == AtLeast(entries[i + 1].key, t)

\* sort.Search over the entries: the smallest i for which the predicate holds.
Search(entries, t) ==
  LET n == Q!Len(entries)
      search[r \in (0 .. n) \X (0 .. n)] ==
        LET i == r[1]
            j == r[2]
            h == (i + j) \div 2
        IN IF i >= j THEN i
           ELSE IF Reaches(entries, h, t) THEN search[<<i, h>>] ELSE search[<<h + 1, j>>]
  IN search[<<0, n>>]

Seek(t) ==
  /\ Held
  /\ iter' = [iter EXCEPT !.pos = Search(iter.entries, t), !.err = FALSE]
  /\ read' = NoRead
  /\ UNCHANGED vars

\* A step of the store.  Closing it leaves the iterator on a closed store,
\* also when the directory is opened again; a crash takes the iterator along.
StoreStep ==
  /\ Next
  /\ iter' = IF ~Held \/ up' THEN iter
             ELSE IF crashes' # crashes THEN NoIter
             ELSE [iter EXCEPT !.open = FALSE]
  /\ read' = NoRead

IterInit == Init /\ iter = NoIter /\ read = NoRead

IterNext ==
  \/ Iter
  \/ \E p \in Bound : Prefix(p)
  \/ \E start \in Bound, end \in Bound : RangeIter(start, end)
  \/ Advance \/ ReadValue \/ Rewind
  \/ \E t \in Bound : Seek(t)
  \/ StoreStep

IterSpec == IterInit /\ [][IterNext]_<<vars, iterVars>>

(***************************************************************************)
(* What Value returns is what was last acknowledged for the key, although  *)
(* the key was captured long before and its record has been overwritten,   *)
(* moved by Merge into another file, or deleted since (Iterator.Value).    *)
(***************************************************************************)
ValueIsCurrent ==
  (read # NoRead /\ iter.open /\ ~Damaged) => read.val \in acked[read.key]

(***************************************************************************)
(* Iter and Range yield exactly the acknowledged keys of the moment they   *)
(* were called in, within [start, end), in a store that no fault has       *)
(* damaged (Store.Iter, Store.Range).                                      *)
(***************************************************************************)
YieldsWhatWasAsked == iter.live \subseteq Yields /\ Yields \cap iter.gone = {}

RangeYieldsLive == (iter.kind \in {"all", "range"} /\ ~Damaged) => YieldsWhatWasAsked

(***************************************************************************)
(* The binary search of Seek finds the first key that is not less than the *)
(* target, for every target, which rests on the order of the captured keys *)
(* (Iterator.Seek, Index.Keys).                                            *)
(***************************************************************************)
SeekIsExact ==
  Held => \A t \in Bound :
    Search(iter.entries, t) = Cardinality({k \in Yields : Less(k, t)})

\* "Prefix returns an iterator that only yields keys with the given prefix"
\* (iter.go).
PrefixYieldsPrefix == iter.kind = "prefix" => YieldsWhatWasAsked
=============================================================================
