----------------------------- MODULE BinStream ------------------------------
(***************************************************************************)
(* BinStream_T: numbers and strings packed behind one another in network   *)
(* order, in a buffer that grows, and read again by their types.           *)
(* As on a little-endian machine; on a big-endian one DECODE reads from    *)
(* the write position.                                                     *)
(***************************************************************************)
EXTENDS Naturals, SequencesExt

CONSTANTS
  StreamCapacity, \* CAPACITY
  ReduceAbove,    \* 4096
  Base,           \* 256
  LengthSize,     \* sizeof(uint32_t), of a string's length
  Numbers,        \* the numbers that are packed: [size, value]
  Strings,        \* the strings that are packed
  MaxItems        \* bound

ASSUME StreamGrows == StreamCapacity \in Nat \ {0} /\ Base \in Nat \ {0, 1} /\ LengthSize \in Nat \ {0}

\* What is left of a value after each of its bytes.
Left(value, size) ==
  LET rest[i \in 0 .. size] == IF i = 0 THEN value ELSE rest[i - 1] \div Base IN rest

Fits(value, size) == Left(value, size)[size] = 0

\* A string's length fits where it is packed, as it does below 4 GB.
ASSUME NumbersFit == \A n \in Numbers : n.size \in Nat \ {0} /\ n.value \in Nat /\ Fits(n.value, n.size)
ASSUME StringsFit == \A s \in Strings : s \in Seq(0 .. Base - 1) /\ Fits(Len(s), LengthSize)

VARIABLES
  buf,      \* data_: the bytes, used_ of them, and size_
  rsize,    \* rsize_
  packed,   \* history: what was packed since the stream was emptied
  unpacked  \* history: since it was rewound, what was read, and how much was packed then

streamVars == <<buf, rsize, packed, unpacked>>

FreshStream == [bytes |-> <<>>, size |-> StreamCapacity]

StreamInit == buf = FreshStream /\ rsize = 0 /\ packed = <<>> /\ unpacked = <<>>

\* A number as it lies in memory: the lowest byte first.
Memory(value, size) == [i \in 1 .. size |-> Left(value, size)[i - 1] % Base]
ValueOf(bytes) ==
  LET upper[i \in 0 .. Len(bytes)] ==
        IF i = 0 THEN 0 ELSE upper[i - 1] * Base + bytes[Len(bytes) - i + 1]
  IN  upper[Len(bytes)]

\* resize: doubled until it is larger than what is needed.
Resized(size, new) ==
  LET doubled[n \in 0 .. new] == IF n = 0 THEN size ELSE 2 * doubled[n - 1]
      times == CHOOSE n \in 1 .. new : doubled[n] > new /\ \A m \in 1 .. n - 1 : doubled[m] <= new
  IN  IF new <= size THEN size ELSE doubled[times]

\* ENCODE: from the last byte in memory to the first.
Encoded(value, size) == Reverse(Memory(value, size))

Written(b, bytes) ==
  [bytes |-> b.bytes \o bytes, size |-> Resized(b.size, Len(b.bytes) + Len(bytes))]

\* Mutant of Decoded: the bytes are taken as they come.
DecodedForward(bytes) == ValueOf(bytes)

\* DECODE
Decoded(bytes) == ValueOf(Reverse(bytes))

Has(size)   == Len(buf.bytes) >= rsize + size
Bytes(size) == SubSeq(buf.bytes, rsize + 1, rsize + size)

\* What is packed, and read: a number of so many bytes, or a string, whose size is 0 here.
Item(size, value, text) == [size |-> size, value |-> value, text |-> text]
ReadItem(item) == unpacked' = Append(unpacked, [item |-> item, of |-> Len(packed)])

-----------------------------------------------------------------------------
\* operator<< of a number
PackNumber(n) ==
  /\ Len(packed) < MaxItems
  /\ buf' = Written(buf, Encoded(n.value, n.size))
  /\ packed' = Append(packed, Item(n.size, n.value, <<>>))
  /\ UNCHANGED <<rsize, unpacked>>

\* operator<< of a string, push_data
PackString(s) ==
  /\ Len(packed) < MaxItems
  /\ buf' = Written(Written(buf, Encoded(Len(s), LengthSize)), s)
  /\ packed' = Append(packed, Item(0, 0, s))
  /\ UNCHANGED <<rsize, unpacked>>

\* operator>> of a number: 0, and no further, if there are not so many bytes.
UnpackNumber(size) ==
  /\ Len(unpacked) < MaxItems
  /\ ReadItem(Item(size, IF Has(size) THEN Decoded(Bytes(size)) ELSE 0, <<>>))
  /\ rsize' = IF Has(size) THEN rsize + size ELSE rsize
  /\ UNCHANGED <<buf, packed>>

\* operator>> of a string.  It throws if the length is more than is there, when the length
\* has been read already; the reader rewinds then, or gives the stream up.
UnpackString ==
  /\ Len(unpacked) < MaxItems
  /\ LET length == IF Has(LengthSize) THEN Decoded(Bytes(LengthSize)) ELSE 0
         from == IF Has(LengthSize) THEN rsize + LengthSize ELSE rsize
     IN  IF from + length > Len(buf.bytes)
         THEN rsize' = from /\ ReadItem(Item(0, 1, <<>>))
         ELSE rsize' = from + length /\ ReadItem(Item(0, 0, SubSeq(buf.bytes, from + 1, from + length)))
  /\ UNCHANGED <<buf, packed>>

\* rewind(true), and reduce when the stream has become large
EmptyStream ==
  /\ \/ buf' = [buf EXCEPT !.bytes = <<>>]
     \/ buf.size > ReduceAbove /\ buf' = FreshStream
  /\ rsize' = 0 /\ packed' = <<>> /\ unpacked' = <<>>

\* rewind(false)
Rewind == rsize' = 0 /\ unpacked' = <<>> /\ UNCHANGED <<buf, packed>>

\* operator=, to a fresh stream that is used from then on: the whole buffer is copied, and a
\* buffer that has grown is twice as large in the copy.  (Bound: ReduceAbove.)
CopyStream ==
  /\ buf.size <= ReduceAbove
  /\ buf' = [buf EXCEPT !.size = Resized(StreamCapacity, @)]
  /\ UNCHANGED <<rsize, packed, unpacked>>

StreamNext ==
  \/ \E n \in Numbers : PackNumber(n) \/ UnpackNumber(n.size)
  \/ \E s \in Strings : PackString(s)
  \/ UnpackString \/ EmptyStream \/ Rewind \/ CopyStream

StreamSpec == StreamInit /\ [][StreamNext]_streamVars

-----------------------------------------------------------------------------
StreamTypeOK ==
  /\ Len(buf.bytes) <= buf.size /\ rsize <= Len(buf.bytes)
  /\ \A i \in DOMAIN buf.bytes : buf.bytes[i] \in 0 .. Base - 1

\* As long as the reader asks for the types that were packed, in their order, and for no more
\* than was packed already, it gets what was packed: while more is packed behind, the buffer
\* is moved and copied, and when it begins again.  Behind the end it gets 0.
UnpacksWhatWasPacked ==
  \A i \in DOMAIN unpacked :
    (\A j \in 1 .. i - 1 : j <= unpacked[j].of /\ unpacked[j].item.size = packed[j].size) =>
      IF i > unpacked[i].of THEN unpacked[i].item.value = 0 /\ unpacked[i].item.text = <<>>
      ELSE unpacked[i].item.size = packed[i].size => unpacked[i].item = packed[i]
=============================================================================
