-------------------------------- MODULE KVMap --------------------------------
(***************************************************************************)
(* What the store promises its client while it is open: a map that calls   *)
(* of Put and Delete change, each at the one key it names and to the value *)
(* it names, and nothing else does.  A step is known by its label: calls   *)
(* counts the calls, acked holds by key what they promised.  A step that   *)
(* is not a call leaves calls alone, so it must leave the map alone.       *)
(*                                                                         *)
(* What Open finds is left free here; how it relates to the map before is  *)
(* stated by properties of its own.                                        *)
(***************************************************************************)
EXTENDS Naturals

CONSTANTS Key, Value, NoValue

VARIABLES
  up,     \* the store is open
  map,    \* what Get returns, by key
  acked,  \* the values a key may read as: the last one written, and those of
          \* calls since then that returned an error after the write
  calls   \* calls of Put and Delete so far

Maps == [Key -> Value \cup {NoValue}]

Nothing == /\ up = FALSE
           /\ map = [k \in Key |-> NoValue]
           /\ acked = [k \in Key |-> {}]
           /\ calls = 0

Init == Nothing

Open ==
  /\ ~up /\ up' = TRUE
  /\ map' \in Maps
  /\ \A k \in Key : map'[k] \in acked'[k]
  /\ calls' \in Nat

\* A call that writes v under k, or a tombstone when v is NoValue.
Call(k, v) ==
  /\ up /\ UNCHANGED up
  /\ calls' = calls + 1
  /\ map' = [map EXCEPT ![k] = v]

Put(k, v) == Call(k, v) /\ acked' = [acked EXCEPT ![k] = {v}]

Delete(k) == Call(k, NoValue) /\ acked' = [acked EXCEPT ![k] = {NoValue}]

\* The call writes and then returns an error.
Fails(k, v) == Call(k, v) /\ acked' = [acked EXCEPT ![k] = @ \cup {v}]

Close == up /\ Nothing'

Next ==
  \/ Open \/ Close
  \/ \E k \in Key : Delete(k) \/ \E v \in Value : Put(k, v)
  \/ \E k \in Key : \E v \in Value \cup {NoValue} : Fails(k, v)

Spec == Init /\ [][Next]_<<up, map, acked, calls>>
=============================================================================
