--------------------------- MODULE PacketBuffers ----------------------------
(***************************************************************************)
(* CSenderBuffer_T and CReciverBuffer_T at the two ends of a TCP socket:   *)
(* packets are put behind one another with a header that holds the size,   *)
(* the socket takes and gives any number of bytes at a time, and split     *)
(* cuts the packets out again.  Both are CBlockBuffer_T, which grows.      *)
(*                                                                         *)
(* Every operation ends with recycle, so the data always begin at the      *)
(* start of the buffer (read_pos_ is 0) and write_pos_ is their length.    *)
(***************************************************************************)
EXTENDS Naturals, SequencesExt

CONSTANTS
  HeaderSize,    \* sizeof(uint32_t)
  SendCapacity,  \* CAPACITY of the two ends
  RecvCapacity,
  MaxBuffer,     \* MAX_BUFFER_SIZE
  PacketSizes,   \* sizes of the packets that put is called with
  MaxPackets     \* bound

ASSUME BuffersGrow ==
  /\ HeaderSize \in Nat \ {0} /\ SendCapacity \in Nat \ {0} /\ RecvCapacity \in Nat \ {0}
  /\ MaxBuffer \in Nat /\ HeaderSize <= MaxBuffer \div 2 /\ PacketSizes \subseteq Nat

VARIABLES
  outbuf,  \* the sender: data and buffer_size_
  pipe,    \* bytes in the socket
  inbuf,   \* the receiver
  put,     \* history: the sizes of the packets that put accepted
  got      \* history: what split gave

bufferVars == <<outbuf, pipe, inbuf, put, got>>

FreshBuffer(capacity) == [data |-> <<>>, size |-> capacity]

BuffersInit ==
  /\ outbuf = FreshBuffer(SendCapacity) /\ pipe = <<>> /\ inbuf = FreshBuffer(RecvCapacity)
  /\ put = <<>> /\ got = <<>>

\* Mutant of Remaining: length, without what is written already.
LengthOf(b) == b.size

\* remaining_length
Remaining(b) == b.size - Len(b.data)

\* realloc_buffer: refused while more than this remains; else twice the size, or more, until
\* there is room for this many bytes.
MayGrow(b, size) == size >= Remaining(b) /\ b.size <= MaxBuffer

Grown(b, size) ==
  LET doubled[n \in 0 .. size] == IF n = 0 THEN b.size ELSE 2 * doubled[n - 1]
      Enough(n) == doubled[n] - Len(b.data) >= size
      times == CHOOSE n \in 1 .. size : Enough(n) /\ \A m \in 1 .. n - 1 : ~Enough(m)
  IN  [b EXCEPT !.size = IF size = 0 THEN 2 * @ ELSE doubled[times]]

\* What the n-th packet is on the socket: its header holds its size.
Header(size)    == [i \in 1 .. HeaderSize |-> [head |-> size, at |-> i]]
Body(n, size)   == [i \in 1 .. size |-> [packet |-> n, at |-> i]]
Framed(n, size) == Header(size) \o Body(n, size)

-----------------------------------------------------------------------------
\* put and split refuse what is larger.
FitsABuffer(size) == size <= MaxBuffer \div 2

\* put, of a packet and of a string.  What it asks realloc_buffer for is not the room for the
\* packet but what is missing of it now, and the loop there compares the whole new room with
\* that: the packet is written behind the data whether it fits or not.
PutPacket(size) ==
  LET need == size + HeaderSize
      short == need - Remaining(outbuf)
      room == IF need > Remaining(outbuf) THEN Grown(outbuf, short) ELSE outbuf
  IN  /\ Len(put) < MaxPackets /\ size > 0 /\ FitsABuffer(size)
      /\ need > Remaining(outbuf) => MayGrow(outbuf, short)
      /\ outbuf' = [room EXCEPT !.data = @ \o Framed(Len(put) + 1, size)]
      /\ put' = Append(put, size)
      /\ UNCHANGED <<pipe, inbuf, got>>

\* send, move_rptr, recycle: the socket takes some of it.
SendSome ==
  /\ \E n \in 1 .. Len(outbuf.data) :
       /\ pipe' = pipe \o SubSeq(outbuf.data, 1, n)
       /\ outbuf' = [outbuf EXCEPT !.data = SubSeq(@, n + 1, Len(@))]
  /\ UNCHANGED <<inbuf, put, got>>

\* recv: a full buffer grows first, unless it has reached its largest size.
RecvSome ==
  /\ pipe # <<>>
  /\ LET b == IF Remaining(inbuf) = 0 /\ MayGrow(inbuf, inbuf.size \div 8)
              THEN Grown(inbuf, inbuf.size \div 8) ELSE inbuf
     IN  \E n \in 1 .. Len(pipe) :
           /\ n <= Remaining(b)
           /\ inbuf' = [b EXCEPT !.data = @ \o SubSeq(pipe, 1, n)]
           /\ pipe' = SubSeq(pipe, n + 1, Len(pipe))
  /\ UNCHANGED <<outbuf, put, got>>

\* Mutant of Cut: the header stays.
CutBody(b, size) == [b EXCEPT !.data = SubSeq(@, size + 1, Len(@))]

\* move_rptr, recycle
Cut(b, size) == [b EXCEPT !.data = SubSeq(@, HeaderSize + size + 1, Len(@))]

\* split: the size is read from what lies at the front.
Split ==
  /\ Len(inbuf.data) >= HeaderSize
  /\ "head" \in DOMAIN Head(inbuf.data)
  /\ LET size == Head(inbuf.data).head
         missing == size + HeaderSize - Len(inbuf.data)
     IN  /\ FitsABuffer(size)
         /\ \/ /\ Len(inbuf.data) >= size + HeaderSize
               /\ got' = Append(got, SubSeq(inbuf.data, HeaderSize + 1, HeaderSize + size))
               /\ inbuf' = Cut(inbuf, size)
            \/ /\ Len(inbuf.data) < size + HeaderSize
               /\ Remaining(inbuf) = 0 /\ MayGrow(inbuf, missing)
               /\ inbuf' = Grown(inbuf, missing)
               /\ UNCHANGED got
  /\ UNCHANGED <<outbuf, pipe, put>>

\* The connection is given up and another one opened: reset, at both ends.
ResetBuffers ==
  /\ put # <<>>
  /\ outbuf' = FreshBuffer(SendCapacity) /\ inbuf' = FreshBuffer(RecvCapacity)
  /\ pipe' = <<>> /\ put' = <<>> /\ got' = <<>>

\* What comes after bytes were written past the end of a buffer is not followed.
BuffersNext ==
  /\ Len(outbuf.data) <= outbuf.size
  /\ \/ \E size \in PacketSizes : PutPacket(size)
     \/ SendSome \/ RecvSome \/ Split \/ ResetBuffers

BuffersSpec == BuffersInit /\ [][BuffersNext]_bufferVars

-----------------------------------------------------------------------------
BuffersTypeOK ==
  /\ outbuf.size >= SendCapacity /\ inbuf.size >= RecvCapacity
  /\ \A n \in DOMAIN put : put[n] \in PacketSizes

\* Nothing is written past the end of a receiver, however the socket cuts the stream; and of a
\* sender only by a packet that is larger, with its header, than a buffer is at first.
DataStayInside ==
  /\ Len(inbuf.data) <= inbuf.size
  /\ Len(outbuf.data) > outbuf.size => put # <<>> /\ Last(put) + HeaderSize > SendCapacity

\* base_block_buffer.h:51 says of the loop that it computes whether the new room is enough:
\* a packet that put accepts is then within the buffer.  The room is compared with what was
\* missing before, so it is not: a larger packet is written past the end of the block.  The
\* code does not keep this.
NewRoomIsEnough == Len(outbuf.data) <= outbuf.size

\* However the socket cuts the stream and whenever the buffers grow, packets come out whole
\* and in order: those that split gave, and the bytes of the receiver, of the socket and of
\* the sender behind them, are together the packets that were put.  And the receiver never
\* comes to a halt: what fills a buffer that may not grow any more is a whole packet.  Nor is
\* anything written past the end of a buffer but by the packets that DataStayInside names.
PacketsComeOutWhole ==
  /\ DataStayInside
  /\ FlattenSeq([n \in DOMAIN got |-> Header(Len(got[n])) \o got[n]])
       \o inbuf.data \o pipe \o outbuf.data
     = FlattenSeq([n \in DOMAIN put |-> Framed(n, put[n])])
  /\ Remaining(inbuf) = 0 =>
       \/ MayGrow(inbuf, 0)
       \/ /\ "head" \in DOMAIN Head(inbuf.data)
          /\ Len(inbuf.data) >= HeaderSize + Head(inbuf.data).head
=============================================================================
