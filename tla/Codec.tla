-------------------------------- MODULE Codec --------------------------------
(***************************************************************************)
(* internal/codec: what is written with AppendVarint (of a ZigZagEncode)   *)
(* and WriteLengthPrefixed is read back, in order, with ReadVarint and     *)
(* ReadLengthPrefixed, from a stream that may be cut anywhere.             *)
(*                                                                         *)
(* A varint byte carries a digit to the base Group, which is 128, and the  *)
(* longest varint has MaxVarintLen bytes, which is 10.  64 = 9 * 7 + 1     *)
(* bits: the last of them may only be 0 or 1, whatever the base and the    *)
(* length are.  A length prefix is one digit to the base LenWord, 2^32.    *)
(***************************************************************************)
EXTENDS Integers, Sequences, SequencesExt

CONSTANTS
  Group, MaxVarintLen,
  Payload,    \* the byte strings that are sent with a length prefix
  LenWord,
  MaxLen, DefaultMaxLen,  \* the limit given to ReadLengthPrefixed, and 64 MB
  MaxSent     \* bound: items sent

ASSUME CodecAssumption ==
  /\ Group \in Nat /\ Group >= 2 /\ MaxVarintLen \in Nat \ {0}
  /\ \A p \in Payload : p \in Seq(Nat)
  /\ LenWord \in Nat \ {0}
  /\ MaxLen \in Int /\ DefaultMaxLen \in Nat /\ MaxSent \in Nat

VARIABLES
  stream,   \* the bytes that have not been read
  sent,     \* what was written
  got,      \* what was read
  cut,      \* the stream was cut: no more is written
  failed,   \* a read returned an error: no more is read
  foreign   \* the value ReadVarint found in bytes from elsewhere

codecVars == <<stream, sent, got, cut, failed, foreign>>

\* What the digit after n others stands for: 1 << s.
Weight[n \in 0 .. MaxVarintLen - 1] == IF n = 0 THEN 1 ELSE Weight[n - 1] * Group

Half == Weight[MaxVarintLen - 1]
Word == 2 * Half

SignedWord == -Half .. Half - 1

CodecItem == [kind : {"int"}, int : SignedWord] \cup [kind : {"bytes"}, bytes : Payload]

\* (v << 1) ^ (v >> 63) and (v >> 1) ^ -(v & 1), in a word that wraps.
ZigZagEncode(v) == IF v >= 0 THEN (2 * v) % Word ELSE (-2 * v - 1) % Word
ZigZagDecode(u) == IF u % 2 = 0 THEN u \div 2 ELSE -(u \div 2) - 1

\* binary.PutUvarint
EncodeVarint(v) ==
  LET encode[u \in 0 .. Word - 1] ==
        IF u < Group THEN <<u>> ELSE <<Group + (u % Group)>> \o encode[u \div Group]
  IN encode[v]

(***************************************************************************)
(* ReadVarint: the byte at n ends the varint.  A stream that ends before   *)
(* it is an error, and so is a last byte above 1 or no end at all.         *)
(***************************************************************************)
Ends(bytes) == {n \in 1 .. Len(bytes) : n <= MaxVarintLen /\ bytes[n] < Group}
VarintLen(bytes) == CHOOSE n \in Ends(bytes) : \A i \in Ends(bytes) : n <= i

\* Wrong: the last byte must be 0.
VarintFitsTight(bytes) ==
  /\ Ends(bytes) # {}
  /\ VarintLen(bytes) = MaxVarintLen => bytes[MaxVarintLen] < 1

VarintFits(bytes) ==
  /\ Ends(bytes) # {}
  /\ VarintLen(bytes) = MaxVarintLen => bytes[MaxVarintLen] <= 1

\* The bits of a whole varint, joined with | and <<, which wraps.
VarintValue(bytes) ==
  LET value[n \in 0 .. VarintLen(bytes)] ==
        IF n = 0 THEN 0 ELSE value[n - 1] + (bytes[n] % Group) * Weight[n - 1]
  IN value[VarintLen(bytes)]

\* LengthPrefixed, WriteLengthPrefixed: the length as a uint32, which wraps.
LengthPrefixed(bytes) == <<Len(bytes) % LenWord>> \o bytes

\* ReadLengthPrefixed finds a length within the limit and all of the payload.
Limit == IF MaxLen <= 0 THEN DefaultMaxLen ELSE MaxLen

ReadsPrefixed(bytes) ==
  bytes # <<>> /\ Head(bytes) <= Limit /\ Len(bytes) > Head(bytes)

Encoding(item) ==
  IF item.kind = "int" THEN EncodeVarint(ZigZagEncode(item.int)) ELSE LengthPrefixed(item.bytes)

Send(item) ==
  /\ ~cut /\ Len(sent) < MaxSent /\ foreign = 0
  /\ stream' = stream \o Encoding(item)
  /\ sent' = Append(sent, item)
  /\ UNCHANGED <<got, cut, failed, foreign>>

Cut(n) ==
  /\ ~cut /\ cut' = TRUE
  /\ stream' = SubSeq(stream, 1, n)
  /\ UNCHANGED <<sent, got, failed, foreign>>

\* The reader asks for the kind that was sent.
Expects(kind) == ~failed /\ Len(got) < Len(sent) /\ sent[Len(got) + 1].kind = kind

ReadInt ==
  /\ Expects("int")
  /\ IF VarintFits(stream)
       THEN /\ got' = Append(got, [kind |-> "int", int |-> ZigZagDecode(VarintValue(stream))])
            /\ stream' = SubSeq(stream, VarintLen(stream) + 1, Len(stream))
            /\ UNCHANGED failed
       ELSE failed' = TRUE /\ UNCHANGED <<got, stream>>
  /\ UNCHANGED <<sent, cut, foreign>>

ReadBytes ==
  /\ Expects("bytes")
  /\ IF ReadsPrefixed(stream)
       THEN /\ got' = Append(got, [kind |-> "bytes", bytes |-> SubSeq(stream, 2, Head(stream) + 1)])
            /\ stream' = SubSeq(stream, Head(stream) + 2, Len(stream))
            /\ UNCHANGED failed
       ELSE failed' = TRUE /\ UNCHANGED <<got, stream>>
  /\ UNCHANGED <<sent, cut, foreign>>

\* ReadVarint on other bytes than this writer's.
ReadForeign(bytes) ==
  /\ sent = <<>> /\ VarintFits(bytes)
  /\ foreign' = VarintValue(bytes)
  /\ UNCHANGED <<stream, sent, got, cut, failed>>

CodecInit ==
  stream = <<>> /\ sent = <<>> /\ got = <<>> /\ cut = FALSE /\ failed = FALSE /\ foreign = 0

CodecNext ==
  \/ \E item \in CodecItem : Send(item)
  \/ \E n \in 0 .. Len(stream) : Cut(n)
  \/ ReadInt \/ ReadBytes
  \/ \E bytes \in [1 .. MaxVarintLen -> 0 .. 2 * Group - 1] : ReadForeign(bytes)

CodecSpec == CodecInit /\ [][CodecNext]_codecVars

(***************************************************************************)
(* As long as no payload has 4 GiB, what is read is what was sent, item by *)
(* item, however the stream was cut: a cut is an error, never another      *)
(* value.  Only a cut or a payload above the limit makes a read fail, so   *)
(* every signed word survives the trip, the most negative one included.    *)
(* And of bytes from elsewhere no varint is accepted whose value does not  *)
(* fit the word (ReadVarint, ReadLengthPrefixed, ZigZagDecode).            *)
(***************************************************************************)
LengthsFit ==
  \A i \in 1 .. Len(sent) : sent[i].kind = "bytes" => Len(sent[i].bytes) < LenWord

ReadsAreExact == IsPrefix(got, sent)

ReadsFailForCause ==
  failed => cut \/ LET next == sent[Len(got) + 1]
                   IN next.kind = "bytes" /\ Len(next.bytes) > Limit

VarintFitsWord == foreign < Word

CodecRoundTrip == (LengthsFit => ReadsAreExact /\ ReadsFailForCause) /\ VarintFitsWord
=============================================================================
