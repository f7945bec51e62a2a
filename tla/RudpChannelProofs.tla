-------------------------- MODULE RudpChannelProofs --------------------------
(***************************************************************************)
(* Theorems about RudpChannel, for every window, limit, bound and network  *)
(* capacity.                                                               *)
(***************************************************************************)
EXTENDS RudpChannel, FiniteSetTheorems, TLAPS

-----------------------------------------------------------------------------
(* Facts about the operators the model is built from.                      *)

\* A nonempty set of naturals has a smallest element, which is its Min.
LEMMA MinOfNat ==
    ASSUME NEW S \in SUBSET Nat, S # {}
    PROVE  Min(S) \in S /\ \A x \in S : Min(S) <= x
<1> DEFINE T == {0 .. n : n \in S}
<1>1. T \subseteq FiniteSubsetsOf(Nat) /\ T # {}
  <2>1. ASSUME NEW n \in S
        PROVE  0 .. n \in FiniteSubsetsOf(Nat)
    <3>1. IsFiniteSet(0 .. n)
      BY FS_Interval
    <3>2. 0 .. n \in SUBSET Nat
      OBVIOUS
    <3>. QED
      BY <3>1, <3>2 DEF FiniteSubsetsOf
  <2>2. T # {}
    OBVIOUS
  <2>. QED
    BY <2>1, <2>2
<1>2. \E t \in T : \A u \in T : ~ (<<u, t>> \in StrictSubsetOrdering(Nat))
  <2> HIDE DEF T
  <2>. QED
    BY <1>1, FS_StrictSubsetOrderingWellFounded, WFMin
<1>3. PICK n \in S : \A x \in S : ~ (<<0 .. x, 0 .. n>> \in StrictSubsetOrdering(Nat))
  BY <1>2
<1>4. ASSUME NEW x \in S, ~ (n <= x)
      PROVE  FALSE
  <2>1. 0 .. x \subseteq 0 .. n /\ 0 .. x # 0 .. n
    BY <1>4
  <2>2. 0 .. x \in SUBSET Nat /\ 0 .. n \in SUBSET Nat
    OBVIOUS
  <2>. QED
    BY <1>3, <2>1, <2>2 DEF StrictSubsetOrdering
<1>. QED
  BY <1>4 DEF Min

\* A nonempty set of naturals with an upper bound has a largest element.
LEMMA MaxOfNat ==
    ASSUME NEW S \in SUBSET Nat, S # {}, NEW b \in Nat, \A x \in S : x <= b
    PROVE  Max(S) \in S /\ \A x \in S : x <= Max(S)
<1> DEFINE T == {b - x : x \in S}
<1>1. T \in SUBSET Nat /\ T # {}
  <2>1. \A x \in S : b - x \in Nat
    OBVIOUS
  <2>2. PICK e \in S : TRUE
    OBVIOUS
  <2>3. b - e \in T
    OBVIOUS
  <2>. QED
    BY <2>1, <2>3
<1>2. PICK t \in T : \A y \in T : t <= y
  BY <1>1, MinOfNat
<1>3. PICK n \in S : t = b - n
  BY <1>2
<1>4. \A x \in S : n >= x
  BY <1>2, <1>3
<1>. QED
  BY <1>4 DEF Max


-----------------------------------------------------------------------------
(* The receive buffer.                                                     *)

AheadOK(r) == \A q \in AheadSeqs(r) : q > r.first + 1 /\ q <= r.first + ReorderLimit

RecvOK(r) == r \in RecvBuf /\ AheadOK(r)

\* The run that fragment q = first + 1 completes: it starts at q, has no gap
\* and ends before one.
LEMMA EndOfRunFacts ==
    ASSUME NEW r, RecvOK(r), NEW q, q = r.first + 1
    PROVE  /\ EndOfRun(r, q) \in Nat
           /\ q <= EndOfRun(r, q)
           /\ \A i \in Nat : q < i /\ i <= EndOfRun(r, q) => i \in AheadSeqs(r)
           /\ EndOfRun(r, q) + 1 \notin AheadSeqs(r)
<1> DEFINE Pred == {i - 1 : i \in AheadSeqs(r)}
           S    == (q .. q + ReorderLimit) \ Pred
<1>1. r.first \in Nat /\ ReorderLimit \in Nat /\ AheadSeqs(r) \subseteq Nat
  BY LimitsAreNat DEF RecvOK, RecvBuf, AheadSeqs
<1>2. S \in SUBSET Nat
  BY <1>1
<1>3. q + ReorderLimit \in S
  BY <1>1 DEF RecvOK, AheadOK
<1>4. EndOfRun(r, q) = Min(S)
  BY DEF EndOfRun
<1>5. EndOfRun(r, q) \in S /\ \A i \in S : EndOfRun(r, q) <= i
  <2> HIDE DEF S
  <2>. QED
    BY <1>2, <1>3, <1>4, MinOfNat
<1>6. ASSUME NEW i \in Nat, q < i, i <= EndOfRun(r, q)
      PROVE  i \in AheadSeqs(r)
  <2>1. i - 1 \in q .. q + ReorderLimit /\ i - 1 \notin S
    BY <1>1, <1>5, <1>6
  <2>2. PICK j \in AheadSeqs(r) : i - 1 = j - 1
    BY <2>1
  <2>. QED
    BY <2>2, <1>1
<1>7. EndOfRun(r, q) + 1 \notin AheadSeqs(r)
  <2>1. SUFFICES ASSUME EndOfRun(r, q) + 1 \in AheadSeqs(r)
                 PROVE  FALSE
    OBVIOUS
  <2>2. (EndOfRun(r, q) + 1) - 1 \in Pred
    BY <2>1
  <2>. QED
    BY <2>2, <1>1, <1>5
<1>. QED
  BY <1>1, <1>5, <1>6, <1>7

\* Taking fragment first + 1 adds it, and only it, to what was received.
LEMMA InOrderFacts ==
    ASSUME NEW r, RecvOK(r), NEW x \in [seq : Nat, pkt : BOOLEAN], x.seq = r.first + 1
    PROVE  /\ RecvOK(InOrder(r, x))
           /\ Got(InOrder(r, x)) = Got(r) \cup {x.seq}
           /\ r.first <= InOrder(r, x).first
<1> DEFINE e == EndOfRun(r, x.seq)
<1>1. /\ e \in Nat /\ x.seq <= e /\ e + 1 \notin AheadSeqs(r)
      /\ \A i \in Nat : x.seq < i /\ i <= e => i \in AheadSeqs(r)
  BY EndOfRunFacts
<1>2. r \in RecvBuf /\ r.first \in Nat /\ AheadSeqs(r) \subseteq Nat /\ ReorderLimit \in Nat
  BY LimitsAreNat DEF RecvOK, RecvBuf, AheadSeqs
<1>3. /\ InOrder(r, x).first = e
      /\ InOrder(r, x).ahead = {y \in r.ahead : y.seq > e}
  BY <1>2 DEF InOrder, RecvBuf
<1> HIDE DEF e
<1>4. AheadSeqs(InOrder(r, x)) = {i \in AheadSeqs(r) : i > e}
  BY <1>3 DEF AheadSeqs
<1>5. InOrder(r, x) \in RecvBuf
  BY <1>1, <1>2 DEF InOrder, RecvBuf, e
<1>6. AheadOK(InOrder(r, x))
  BY <1>1, <1>2, <1>3, <1>4 DEF AheadOK, RecvOK
<1>7. Got(InOrder(r, x)) = Got(r) \cup {x.seq}
  <2>1. \A i \in AheadSeqs(r) : i > x.seq
    BY <1>2 DEF RecvOK, AheadOK
  <2>2. \A i \in Nat : i \in 1 .. e => i \in 1 .. r.first \/ i \in AheadSeqs(r) \/ i = x.seq
    BY <1>1, <1>2
  <2>3. \A i \in AheadSeqs(r) : i \in 1 .. e \/ i > e
    BY <1>1, <1>2, <2>1
  <2>4. 1 .. r.first \subseteq 1 .. e /\ x.seq \in 1 .. e
    BY <1>1, <1>2
  <2>. QED
    BY <1>2, <1>3, <1>4, <2>2, <2>3, <2>4 DEF Got
<1>. QED
  BY <1>1, <1>2, <1>3, <1>5, <1>6, <1>7 DEF RecvOK


\* Putting a fragment on the list adds it, and only it, to what was received.
LEMMA AheadFacts ==
    ASSUME NEW r, RecvOK(r), NEW x \in [seq : Nat, pkt : BOOLEAN], IsAhead(r, x.seq)
    PROVE  /\ RecvOK(Put(r, x))
           /\ Got(Put(r, x)) = Got(r) \cup {x.seq}
           /\ Put(r, x).first = r.first
<1> DEFINE t == Put(r, x)
<1>1. t \in RecvBuf /\ t.first = r.first /\ t.ahead = r.ahead \cup {x}
  BY DEF RecvOK, RecvBuf, Put
<1> HIDE DEF t
<1>2. AheadSeqs(t) = AheadSeqs(r) \cup {x.seq}
  BY <1>1 DEF AheadSeqs
<1>3. RecvOK(t)
  BY <1>1, <1>2 DEF RecvOK, AheadOK, IsAhead
<1>4. Got(t) = Got(r) \cup {x.seq}
  BY <1>1, <1>2 DEF Got
<1>. QED
  BY <1>1, <1>3, <1>4 DEF t

\* Everything else a handler does to a receive buffer leaves the fragments alone.
Unmoved(r, t) == RecvOK(t) /\ t.first = r.first /\ t.ahead = r.ahead

\* What acknowledging, asking for repairs and reading a SYN write to a receive
\* buffer leaves the received fragments alone.
LEMMA UnmovedFacts ==
    ASSUME NEW r, RecvOK(r)
    PROVE  /\ \A F : Unmoved(r, GetAckId(r, F))
           /\ \A cap : Unmoved(r, AfterRepairs(r, cap))
           /\ Unmoved(r, AfterAck(r))
           /\ \A n \in Nat : Unmoved(r, [r EXCEPT !.destMax = n])
           /\ Unmoved(r, [r EXCEPT !.lastAck = r.first])
           /\ \A b \in BOOLEAN : Unmoved(r, [r EXCEPT !.ready = b])
<1>1. ASSUME NEW n \in Nat, NEW b \in BOOLEAN
      PROVE  /\ Unmoved(r, r)
             /\ Unmoved(r, [r EXCEPT !.destMax = n])
             /\ Unmoved(r, [r EXCEPT !.lastAck = r.first])
             /\ Unmoved(r, [r EXCEPT !.ready = b])
  BY DEF Unmoved, RecvOK, AheadOK, AheadSeqs, RecvBuf
<1>2. \A cap : (r.ready /\ Repairs(r, cap) = {}) \in BOOLEAN
  BY DEF RecvOK, RecvBuf
<1>3. \A cap : AfterRepairs(r, cap) = [r EXCEPT !.ready = (r.ready /\ Repairs(r, cap) = {})]
  BY DEF AfterRepairs
<1>4. \A cap : Unmoved(r, AfterRepairs(r, cap))
  BY <1>1, <1>2, <1>3
<1>5. Unmoved(r, AfterAck(r)) /\ \A F : Unmoved(r, GetAckId(r, F))
  BY <1>1 DEF AfterAck, GetAckId
<1>. QED
  BY <1>1, <1>4, <1>5

\* A receive buffer that has not moved has received the same fragments.
LEMMA UnmovedGot ==
    ASSUME NEW r, NEW t, Unmoved(r, t)
    PROVE  RecvOK(t) /\ Got(t) = Got(r) /\ t.first = r.first
BY DEF Unmoved, Got, AheadSeqs

-----------------------------------------------------------------------------
(* The send buffer.                                                        *)

SendOK(s) ==
    /\ s \in SendBuf
    /\ s.head <= s.bufSeq
    /\ s.maxSend < s.bufSeq
    /\ s.held \subseteq Queue(s)
    /\ s.sent \subseteq Queue(s)

\* A fragment is received or queued and counted as outstanding.
Covered(s, got) ==
    \A q \in 1 .. (s.bufSeq - 1) : q \in got \/ (q \in Queue(s) /\ q \notin s.held)

\* Sending queued fragments keeps the queue.
LEMMA SendNodeFacts ==
    ASSUME NEW s, SendOK(s), NEW N \in SUBSET Queue(s), NEW G \in SUBSET Queue(s)
    PROVE  /\ SendOK(SendNode(s, N, G))
           /\ Queue(SendNode(s, N, G)) = Queue(s)
           /\ SendNode(s, N, G).bufSeq = s.bufSeq
           /\ SendNode(s, N, G).held = s.held
           /\ SendNode(s, N, G).flagged = s.flagged
           /\ SendNode(s, N, G).timer = s.timer
           /\ \A got : Covered(s, got) => Covered(SendNode(s, N, G), got)
<1> DEFINE t == SendNode(s, N, G)
           M == N \cup {s.maxSend}
           c == Cardinality(N \ s.sent)
<1>1. /\ s \in SendBuf /\ s.bufSeq \in Nat \ {0} /\ s.head \in Nat \ {0}
      /\ s.maxSend \in Nat /\ s.maxSend < s.bufSeq
      /\ s.wait \in Int /\ s.sending \in Int /\ s.sent \subseteq Nat
      /\ \A q \in Queue(s) : q \in Nat /\ q < s.bufSeq
  BY DEF SendOK, SendBuf, Queue
<1>2. Max(M) \in M /\ \A x \in M : x <= Max(M)
  <2>1. M \in SUBSET Nat /\ M # {} /\ \A x \in M : x <= s.bufSeq
    BY <1>1
  <2> HIDE DEF M
  <2>. QED
    BY <1>1, <2>1, MaxOfNat
<1>3. Max(M) \in Nat /\ Max(M) < s.bufSeq
  BY <1>1, <1>2
<1>4. c \in Nat
  <2>1. s.head \in Int /\ s.bufSeq - 1 \in Int
    BY <1>1
  <2>2. IsFiniteSet(s.head .. (s.bufSeq - 1))
    BY <2>1, FS_Interval
  <2>3. N \ s.sent \subseteq s.head .. (s.bufSeq - 1)
    BY DEF Queue
  <2>4. IsFiniteSet(N \ s.sent)
    BY <2>2, <2>3, FS_Subset
  <2>. QED
    BY <2>4, FS_CardinalityType
<1>5. (s.quiet /\ N \subseteq s.sent) \in BOOLEAN
  BY DEF SendOK, SendBuf
<1>6. t = [s EXCEPT !.sent = s.sent \cup N \cup G, !.wait = s.wait - c,
                    !.sending = s.sending + c, !.maxSend = Max(M),
                    !.quiet = (s.quiet /\ N \subseteq s.sent)]
  BY DEF SendNode
<1> HIDE DEF t, M, c
<1>7. /\ t \in SendBuf
      /\ t.bufSeq = s.bufSeq /\ t.head = s.head /\ t.held = s.held
      /\ t.flagged = s.flagged /\ t.timer = s.timer
      /\ t.maxSend = Max(M) /\ t.sent = s.sent \cup N \cup G
  <2>1. N \subseteq Nat /\ G \subseteq Nat
    BY <1>1
  <2>2. /\ t.bufSeq = s.bufSeq /\ t.head = s.head /\ t.held = s.held
        /\ t.flagged = s.flagged /\ t.timer = s.timer
        /\ t.maxSend = Max(M) /\ t.sent = s.sent \cup N \cup G
    BY <1>1, <1>6 DEF SendBuf
  <2>3. s.sent \cup N \cup G \in SUBSET Nat
    BY <1>1, <2>1
  <2>4. s.wait - c \in Int /\ s.sending + c \in Int
    BY <1>1, <1>4
  <2>5. t \in SendBuf
    BY <1>1, <1>3, <1>5, <1>6, <2>3, <2>4 DEF SendBuf
  <2>. QED
    BY <2>2, <2>5
<1>8. Queue(t) = Queue(s)
  BY <1>7 DEF Queue
<1>9. SendOK(t)
  BY <1>3, <1>7, <1>8 DEF SendOK
<1>10. \A got : Covered(s, got) => Covered(t, got)
  BY <1>7, <1>8 DEF Covered
<1>. QED
  BY <1>7, <1>8, <1>9, <1>10 DEF t


\* An acknowledgement drops a prefix of the queue, which the receiver has when
\* the acknowledgement is true.
LEMMA OnDataAckFacts ==
    ASSUME NEW s, SendOK(s), NEW a \in Nat, NEW r, RecvOK(r), a <= r.first, Covered(s, Got(r))
    PROVE  /\ SendOK(OnDataAck(s, a))
           /\ Covered(OnDataAck(s, a), Got(r))
           /\ OnDataAck(s, a).bufSeq = s.bufSeq
           /\ OnDataAck(s, a).timer = s.timer
           /\ Queue(OnDataAck(s, a)) \subseteq Queue(s)
<1> DEFINE t == OnDataAck(s, a)
           D == Acked(s, a)
           h == IF D = {} THEN s.head ELSE a + 1
           c == Cardinality(D \ s.held)
<1>1. /\ s \in SendBuf /\ s.bufSeq \in Nat \ {0} /\ s.head \in Nat \ {0}
      /\ s.maxSend \in Nat /\ s.maxSend < s.bufSeq /\ s.head <= s.bufSeq
      /\ s.sending \in Int /\ s.sent \subseteq Queue(s) /\ s.held \subseteq Queue(s)
      /\ s.notified \subseteq Nat /\ r.first \in Nat
  BY DEF SendOK, SendBuf, RecvOK, RecvBuf
<1>2. Queue(s) = s.head .. (s.bufSeq - 1) /\ Queue(s) \in SUBSET Nat
  BY <1>1 DEF Queue
<1>3. D \subseteq Queue(s) /\ \A q \in D : q <= a
  BY DEF Acked
<1>4. c \in Nat
  <2>1. IsFiniteSet(Queue(s))
    <3>1. s.head \in Int /\ s.bufSeq - 1 \in Int
      BY <1>1
    <3>. QED
      BY <1>2, <3>1, FS_Interval
  <2>2. IsFiniteSet(D \ s.held)
    BY <1>3, <2>1, FS_Subset
  <2>. QED
    BY <2>2, FS_CardinalityType
<1>5. h \in Nat \ {0} /\ h <= s.bufSeq
  BY <1>1 DEF Acked
<1>6. h .. (s.bufSeq - 1) = Queue(s) \ D
  BY <1>1, <1>2 DEF Acked
<1>7. /\ t.head = h /\ t.bufSeq = s.bufSeq /\ t.maxSend = s.maxSend /\ t.timer = s.timer
      /\ t.sent = s.sent \ D /\ t.held = s.held \ D
  BY <1>1 DEF OnDataAck, SendBuf
<1>8. t \in SendBuf
  <2>1. s.sending - c \in Int
    BY <1>1, <1>4
  <2>2. s.notified \cup (D \cap s.flagged) \in SUBSET Nat
    BY <1>1, <1>2, <1>3
  <2>3. s.sent \ D \in SUBSET Nat /\ s.held \ D \in SUBSET Nat
    BY <1>1, <1>2
  <2>4. t = [s EXCEPT !.head = h, !.sent = s.sent \ D, !.held = s.held \ D,
                      !.sending = s.sending - c,
                      !.notified = s.notified \cup (D \cap s.flagged)]
    BY DEF OnDataAck
  <2> HIDE DEF t, D, h, c
  <2>. QED
    BY <1>1, <1>5, <2>1, <2>2, <2>3, <2>4 DEF SendBuf
<1> HIDE DEF t, D, h, c
<1>9. Queue(t) = Queue(s) \ D
  BY <1>6, <1>7 DEF Queue
<1>10. SendOK(t)
  BY <1>1, <1>5, <1>7, <1>8, <1>9 DEF SendOK
<1>11. Covered(t, Got(r))
  <2>1. SUFFICES ASSUME NEW q \in 1 .. (s.bufSeq - 1)
                 PROVE  q \in Got(r) \/ (q \in Queue(t) /\ q \notin t.held)
    BY <1>7 DEF Covered
  <2>2. q \in Got(r) \/ (q \in Queue(s) /\ q \notin s.held)
    BY DEF Covered
  <2>3. CASE q \in D
    <3>1. q \in 1 .. r.first
      BY <1>1, <1>3, <2>3
    <3>. QED
      BY <3>1 DEF Got
  <2>4. CASE q \notin D
    BY <1>7, <1>9, <2>2, <2>4
  <2>. QED
    BY <2>3, <2>4
<1>. QED
  BY <1>7, <1>9, <1>10, <1>11 DEF t

\* A selective acknowledgement marks a fragment the receiver has.
LEMMA OnDataAck2Facts ==
    ASSUME NEW s, SendOK(s), NEW a \in Nat, NEW got, a \in got, Covered(s, got)
    PROVE  /\ SendOK(OnDataAck2(s, a))
           /\ Covered(OnDataAck2(s, a), got)
           /\ OnDataAck2(s, a).bufSeq = s.bufSeq
           /\ OnDataAck2(s, a).timer = s.timer
           /\ Queue(OnDataAck2(s, a)) = Queue(s)
<1>1. CASE a > s.maxSend \/ a \notin Queue(s) \/ a \in s.held
  BY <1>1 DEF OnDataAck2
<1>2. CASE ~ (a > s.maxSend \/ a \notin Queue(s) \/ a \in s.held)
  <2> DEFINE t == [s EXCEPT !.held = @ \cup {a}, !.sending = @ - 1]
  <2>1. OnDataAck2(s, a) = t
    BY <1>2 DEF OnDataAck2
  <2>2. /\ t.head = s.head /\ t.bufSeq = s.bufSeq /\ t.maxSend = s.maxSend
        /\ t.timer = s.timer /\ t.sent = s.sent /\ t.held = s.held \cup {a}
    BY DEF SendOK, SendBuf
  <2>3. t \in SendBuf
    <3>1. s.held \cup {a} \in SUBSET Nat /\ s.sending - 1 \in Int
      BY DEF SendOK, SendBuf
    <3>2. t = [s EXCEPT !.held = s.held \cup {a}, !.sending = s.sending - 1]
      OBVIOUS
    <3> HIDE DEF t
    <3>. QED
      BY <3>1, <3>2 DEF SendOK, SendBuf
  <2> HIDE DEF t
  <2>4. Queue(t) = Queue(s)
    BY <2>2 DEF Queue
  <2>5. SendOK(t)
    BY <1>2, <2>2, <2>3, <2>4 DEF SendOK
  <2>6. Covered(t, got)
    BY <2>2, <2>4 DEF Covered
  <2>. QED
    BY <2>1, <2>2, <2>4, <2>5, <2>6
<1>. QED
  BY <1>1, <1>2


\* addSendNode appends fragments that are queued and outstanding.
LEMMA AppendFacts ==
    ASSUME NEW s, SendOK(s), NEW k \in Nat, NEW got, Covered(s, got),
           NEW t, t = [s EXCEPT !.bufSeq  = s.bufSeq + k,
                                !.wait    = @ + k,
                                !.flagged = @ \cup {s.bufSeq + k - 1}]
    PROVE  /\ SendOK(t)
           /\ Covered(t, got)
           /\ Queue(t) = Queue(s) \cup (s.bufSeq .. (s.bufSeq + k - 1))
<1>1. /\ s \in SendBuf /\ s.bufSeq \in Nat \ {0} /\ s.head \in Nat \ {0}
      /\ s.head <= s.bufSeq /\ s.maxSend \in Nat /\ s.maxSend < s.bufSeq
      /\ s.held \subseteq Queue(s) /\ s.sent \subseteq Queue(s)
      /\ s.wait \in Int /\ s.flagged \subseteq Nat
  BY DEF SendOK, SendBuf
<1>2. /\ t.head = s.head /\ t.bufSeq = s.bufSeq + k /\ t.maxSend = s.maxSend
      /\ t.sent = s.sent /\ t.held = s.held
  BY <1>1 DEF SendBuf
<1>3. t \in SendBuf
  <2>1. s.bufSeq + k \in Nat \ {0} /\ s.bufSeq + k - 1 \in Nat /\ s.wait + k \in Int
    BY <1>1
  <2>2. s.flagged \cup {s.bufSeq + k - 1} \in SUBSET Nat
    BY <1>1, <2>1
  <2>. QED
    BY <1>1, <2>1, <2>2 DEF SendBuf
<1>4. Queue(t) = Queue(s) \cup (s.bufSeq .. (s.bufSeq + k - 1))
  BY <1>1, <1>2 DEF Queue
<1>5. SendOK(t)
  BY <1>1, <1>2, <1>3, <1>4 DEF SendOK
<1>6. Covered(t, got)
  <2>1. SUFFICES ASSUME NEW q \in 1 .. (s.bufSeq + k - 1)
                 PROVE  q \in got \/ (q \in Queue(t) /\ q \notin t.held)
    BY <1>1, <1>2 DEF Covered
  <2>2. CASE q < s.bufSeq
    BY <1>1, <1>2, <1>4, <2>2 DEF Covered
  <2>3. CASE ~ (q < s.bufSeq)
    <3>1. q \in s.bufSeq .. (s.bufSeq + k - 1) /\ q \notin Queue(s)
      BY <1>1, <2>3 DEF Queue
    <3>. QED
      BY <1>1, <1>2, <1>4, <3>1
  <2>. QED
    BY <2>2, <2>3
<1>. QED
  BY <1>4, <1>5, <1>6

-----------------------------------------------------------------------------
(* The inductive invariant.  NothingLost is not inductive by itself: a      *)
(* sender drops what an acknowledgement names, so acknowledgements on their *)
(* way must be true, whenever they arrive; they stay true because the       *)
(* receiver never forgets a fragment, and that rests on the shape of its    *)
(* list.                                                                    *)

BuffersOK == \A p \in Peers : SendOK(snd[p]) /\ RecvOK(rcv[p])

IInv == TypeOK /\ BuffersOK /\ AcksTrue /\ NothingLost

\* The two ends are each other's other end.
LEMMA OtherFacts ==
    \A p \in Peers : Other(p) \in Peers /\ Other(p) # p /\ Other(Other(p)) = p
BY PeersDiffer DEF Peers, Other

\* Every step changes the buffers of one end only.  It keeps the invariant
\* when the end forgets no fragment, drops none the other end lacks, and
\* what it puts on the network is true.
LEMMA EndStep ==
    ASSUME IInv, NEW p \in Peers,
           NEW s, snd' = [snd EXCEPT ![p] = s], SendOK(s),
           Covered(s, Got(rcv[Other(p)])),
           NEW r, rcv' = [rcv EXCEPT ![p] = r], RecvOK(r),
           Got(rcv[p]) \subseteq Got(r), rcv[p].first <= r.first,
           window' = window,
           \A m \in net' \ net : m \in DatagramWith(Nat) /\ m.src = p /\ Reports(m, r)
    PROVE  IInv'
<1>1. /\ snd' \in [Peers -> SendBuf] /\ rcv' \in [Peers -> RecvBuf]
      /\ snd'[p] = s /\ snd'[Other(p)] = snd[Other(p)]
      /\ rcv'[p] = r /\ rcv'[Other(p)] = rcv[Other(p)]
  BY OtherFacts DEF IInv, TypeOK, SendOK, RecvOK
<1>2. \A o \in Peers : o = p \/ o = Other(p)
  BY DEF Peers, Other
<1>3. TypeOK'
  BY <1>1 DEF IInv, TypeOK
<1>4. BuffersOK'
  <2>1. SendOK(snd[Other(p)]) /\ RecvOK(rcv[Other(p)])
    BY OtherFacts DEF IInv, BuffersOK
  <2>2. \A o \in Peers : SendOK(snd'[o]) /\ RecvOK(rcv'[o])
    BY <1>1, <1>2, <2>1
  <2>. QED
    BY <2>2 DEF BuffersOK, SendOK, RecvOK, AheadOK, AheadSeqs, Queue
<1>5. AcksTrue'
  <2>1. SUFFICES ASSUME NEW m \in net' PROVE Reports(m, rcv'[m.src])
    BY DEF AcksTrue, Reports, Got, AheadSeqs
  <2>2. CASE m \in net
    <3>1. m.src \in Peers /\ Reports(m, rcv[m.src]) /\ m \in DatagramWith(Nat)
      BY <2>2 DEF IInv, TypeOK, AcksTrue, DatagramWith
    <3>2. CASE m.src = p
      <4>1. rcv[p].first \in Nat /\ r.first \in Nat
        BY DEF IInv, TypeOK, RecvBuf, RecvOK
      <4>2. m.type = "data" => m.ack \in Nat
        BY <3>1 DEF DatagramWith
      <4>3. m.type = "ack" => m.seq \in Nat
        BY <3>1 DEF DatagramWith
      <4>. QED
        BY <1>1, <3>1, <3>2, <4>1, <4>2, <4>3 DEF Reports
    <3>3. CASE m.src = Other(p)
      BY <1>1, <3>1, <3>3
    <3>. QED
      BY <1>2, <3>1, <3>2, <3>3
  <2>3. CASE m \notin net
    BY <1>1, <2>3
  <2>. QED
    BY <2>2, <2>3
<1>6. NothingLost'
  <2>1. \A o \in Peers : Covered(snd[o], Got(rcv[Other(o)]))
    BY DEF IInv, NothingLost, Covered, Received
  <2>2. Covered(snd'[p], Got(rcv'[Other(p)]))
    BY <1>1
  <2>3. Covered(snd'[Other(p)], Got(rcv'[Other(Other(p))]))
    BY <1>1, <2>1, OtherFacts DEF Covered
  <2>4. \A o \in Peers : Covered(snd'[o], Got(rcv'[Other(o)]))
    BY <1>2, <2>2, <2>3
  <2>. QED
    BY <2>4 DEF NothingLost, Covered, Received, Got, AheadSeqs, Queue, Other
<1>. QED
  BY <1>3, <1>4, <1>5, <1>6 DEF IInv


-----------------------------------------------------------------------------
(* The datagrams a handler emits.                                          *)

LEMMA TransmitFacts ==
    ASSUME NEW left, NEW msgs, Transmit(left, msgs)
    PROVE  net' \subseteq left \cup msgs
BY DEF Transmit

\* What DataOf builds are data datagrams of its end that acknowledge the
\* in-order prefix.
LEMMA DataOfFacts ==
    ASSUME NEW p \in Peers, NEW s, NEW F \in SUBSET Nat, rcv[p].first \in Nat
    PROVE  \A m \in DataOf(p, s, F) :
               m \in DatagramWith(Nat) /\ m.src = p /\ m.type = "data" /\ m.ack = rcv[p].first
<1>1. SUFFICES ASSUME NEW q \in F
               PROVE  LET m == DataMsg(p, q, q \in s.flagged, rcv[p].first)
                      IN  m \in DatagramWith(Nat) /\ m.src = p /\ m.type = "data"
                          /\ m.ack = rcv[p].first
  BY DEF DataOf
<1>2. \A b \in BOOLEAN : LET m == DataMsg(p, q, b, rcv[p].first)
                         IN  m \in DatagramWith(Nat) /\ m.src = p /\ m.type = "data"
                             /\ m.ack = rcv[p].first
  BY DEF DataMsg, DatagramWith
<1>3. (q \in s.flagged) \in BOOLEAN
  OBVIOUS
<1>. QED
  BY <1>2, <1>3

\* What CtlMsg builds are control datagrams of the given end and number.
LEMMA CtlMsgFacts ==
    ASSUME NEW t \in {"ack", "ack2", "repair", "syn"}, NEW p \in Peers, NEW q \in Nat
    PROVE  LET m == CtlMsg(t, p, q)
           IN  m \in DatagramWith(Nat) /\ m.src = p /\ m.type = t /\ m.seq = q
BY DEF CtlMsg, DatagramWith

\* Data carries the receive buffer's position, which only grows.
LEMMA DataIsTrue ==
    ASSUME NEW p \in Peers, NEW s, SendOK(s), NEW F \in SUBSET Queue(s), RecvOK(rcv[p]),
           NEW r, RecvOK(r), rcv[p].first <= r.first
    PROVE  \A m \in DataOf(p, s, F) :
               m \in DatagramWith(Nat) /\ m.src = p /\ Reports(m, r)
<1>1. F \in SUBSET Nat
  BY DEF SendOK, SendBuf, Queue
<1>2. rcv[p].first \in Nat
  BY DEF RecvOK, RecvBuf
<1>. QED
  BY <1>1, <1>2, DataOfFacts DEF Reports

\* Repair requests are for fragment numbers, and claim nothing.
LEMMA RepairFacts ==
    ASSUME NEW p \in Peers, NEW r, RecvOK(r), NEW cap, NEW t
    PROVE  \A m \in {CtlMsg("repair", p, q) : q \in Repairs(r, cap)} :
               m \in DatagramWith(Nat) /\ m.src = p /\ Reports(m, t)
<1>1. r.first \in Nat /\ r.destMax \in Nat /\ AheadSeqs(r) \subseteq Nat
  BY DEF RecvOK, RecvBuf, AheadSeqs
<1>2. \A i : i \in Missing(r) => i \in Nat
  <2>1. \A i, j : i \in (r.first + 1) .. j => i \in Nat
    BY <1>1
  <2>. QED
    BY <2>1 DEF Missing
<1>3. Repairs(r, cap) \subseteq Nat
  BY <1>2 DEF Repairs
<1>4. \A q \in Nat : /\ CtlMsg("repair", p, q) \in DatagramWith(Nat)
                     /\ CtlMsg("repair", p, q).src = p
                     /\ CtlMsg("repair", p, q).type = "repair"
  BY CtlMsgFacts
<1>5. \A q \in Nat : Reports(CtlMsg("repair", p, q), t)
  BY <1>4 DEF Reports
<1>. QED
  BY <1>3, <1>4, <1>5

\* A received datagram is true of its sender, the other end.
LEMMA ArrivalFacts ==
    ASSUME IInv, NEW m \in net, NEW p, p = Other(m.src), NEW dup \in BOOLEAN
    PROVE  /\ p \in Peers /\ m.src = Other(p) /\ Left(m, dup) \subseteq net
           /\ m \in DatagramWith(Nat) /\ Reports(m, rcv[Other(p)])
           /\ SendOK(snd[p]) /\ RecvOK(rcv[p]) /\ RecvOK(rcv[Other(p)])
           /\ Covered(snd[p], Got(rcv[Other(p)]))
<1>1. m \in DatagramWith(Nat) /\ m.src \in Peers /\ Reports(m, rcv[m.src])
  BY DEF IInv, TypeOK, AcksTrue, DatagramWith
<1>2. p \in Peers /\ m.src = Other(p) /\ Other(p) \in Peers
  BY <1>1, OtherFacts
<1>3. Left(m, dup) \subseteq net
  BY DEF Left
<1>. QED
  BY <1>1, <1>2, <1>3 DEF IInv, BuffersOK, NothingLost, Covered, Received

-----------------------------------------------------------------------------
(* Every step keeps the invariant.                                         *)

LEMMA InitInv == Init => IInv
<1> SUFFICES ASSUME Init PROVE IInv
  OBVIOUS
<1>1. /\ \A p \in Peers : snd[p] = NewSendBuf /\ rcv[p] = NewRecvBuf
      /\ net = {}
  BY DEF Init
<1>2. NewSendBuf \in SendBuf /\ Queue(NewSendBuf) = {}
  BY DEF NewSendBuf, SendBuf, Queue
<1>3. NewRecvBuf \in RecvBuf /\ AheadSeqs(NewRecvBuf) = {}
  BY DEF NewRecvBuf, RecvBuf, AheadSeqs
<1>4. TypeOK
  <2>1. window \in [Peers -> Nat] /\ \A p \in Peers : window[p] \in Windows[p]
    BY LimitsAreNat DEF Init
  <2>. QED
    BY <1>1, <1>2, <1>3, <2>1 DEF TypeOK, Init
<1>5. BuffersOK
  BY <1>1, <1>2, <1>3 DEF BuffersOK, SendOK, RecvOK, AheadOK, NewSendBuf
<1>6. AcksTrue /\ NothingLost
  BY <1>1 DEF AcksTrue, NothingLost, NewSendBuf
<1>. QED
  BY <1>4, <1>5, <1>6 DEF IInv


\* sendDataDirect keeps the invariant: it only adds queued fragments.
LEMMA SendDataStep ==
    ASSUME IInv, NEW p \in Peers, NEW k \in 1 .. MaxFragments, SendData(p, k)
    PROVE  IInv'
<1> DEFINE s  == snd[p]
           b  == s.bufSeq
           s1 == [s EXCEPT !.bufSeq  = b + k,
                           !.wait    = @ + k,
                           !.flagged = @ \cup {b + k - 1}]
           N  == {q \in b .. (b + k - 1) : q < b + Room(s, window[p])}
           Syn == CtlMsg("syn", p, IF N = {} THEN s.maxSend ELSE b)
<1>1. PICK G \in SUBSET Queue(s), late \in BOOLEAN :
         /\ snd' = [snd EXCEPT ![p] = [SendNode(s1, N, G) EXCEPT !.timer = TRUE]]
         /\ Transmit(net, DataOf(p, s1, N \cup G) \cup IF late THEN {Syn} ELSE {})
         /\ rcv' = [rcv EXCEPT ![p] = GetAckId(@, N)]
         /\ window' = window
  BY DEF SendData
<1> DEFINE t == SendNode(s1, N, G)
           r == GetAckId(rcv[p], N)
<1>2. /\ SendOK(s) /\ RecvOK(rcv[p]) /\ Covered(s, Got(rcv[Other(p)]))
      /\ k \in Nat /\ b \in Nat /\ s.maxSend \in Nat
  BY BoundsAreNat DEF IInv, BuffersOK, NothingLost, Covered, Received, SendOK, SendBuf
<1>3. /\ SendOK(s1) /\ Covered(s1, Got(rcv[Other(p)]))
      /\ Queue(s1) = Queue(s) \cup (b .. (b + k - 1))
  <2> HIDE DEF s
  <2>. QED
    BY <1>2, AppendFacts
<1>4. N \in SUBSET Queue(s1) /\ G \in SUBSET Queue(s1)
  BY <1>3
<1> HIDE DEF s1, N
<1>5. SendOK(t) /\ Covered(t, Got(rcv[Other(p)]))
  BY <1>3, <1>4, SendNodeFacts
<1> HIDE DEF t
<1> DEFINE u == [t EXCEPT !.timer = TRUE]
<1>6. SendOK(u) /\ Covered(u, Got(rcv[Other(p)]))
  <2>1. /\ u \in SendBuf /\ u.bufSeq = t.bufSeq /\ u.head = t.head /\ u.maxSend = t.maxSend
        /\ u.sent = t.sent /\ u.held = t.held
    BY <1>5 DEF SendOK, SendBuf
  <2>. QED
    BY <1>5, <2>1 DEF SendOK, Covered, Queue
<1>7. RecvOK(r) /\ Got(r) = Got(rcv[p]) /\ r.first = rcv[p].first
  BY <1>2, UnmovedFacts, UnmovedGot
<1>8. rcv[p].first \in Nat
  BY <1>2 DEF RecvOK, RecvBuf
<1>9. \A m \in net' \ net : m \in DatagramWith(Nat) /\ m.src = p /\ Reports(m, r)
  <2>1. net' \subseteq net \cup DataOf(p, s1, N \cup G) \cup {Syn}
    BY <1>1, TransmitFacts, ZenonT(30) DEF t
  <2>2. \A m \in DataOf(p, s1, N \cup G) :
           m \in DatagramWith(Nat) /\ m.src = p /\ Reports(m, r)
    <3>1. N \cup G \in SUBSET Queue(s1)
      BY <1>4
    <3> HIDE DEF r
    <3>. QED
      BY <1>2, <1>3, <1>7, <1>8, <3>1, DataIsTrue
  <2>3. Syn \in DatagramWith(Nat) /\ Syn.src = p /\ Syn.type = "syn"
    <3>1. (IF N = {} THEN s.maxSend ELSE b) \in Nat
      BY <1>2
    <3>. QED
      BY <3>1, CtlMsgFacts
  <2>4. Reports(Syn, r)
    BY <2>3 DEF Reports
  <2>. QED
    BY <2>1, <2>2, <2>3, <2>4
<1>10. snd' = [snd EXCEPT ![p] = u] /\ rcv' = [rcv EXCEPT ![p] = r] /\ window' = window
  BY <1>1 DEF t
<1> HIDE DEF u, r
<1>11. Got(rcv[p]) \subseteq Got(r) /\ rcv[p].first <= r.first
  BY <1>7, <1>8
<1>. QED
  BY <1>6, <1>7, <1>9, <1>10, <1>11, EndStep

\* The part that acknowledgements and repair requests share: what is left of
\* the send buffer is partly sent.
LEMMA ResendStep ==
    ASSUME IInv, NEW m \in net, NEW dup \in BOOLEAN, NEW p, p = Other(m.src),
           NEW s, SendOK(s), Covered(s, Got(rcv[Other(p)])),
           NEW N \in SUBSET Queue(s), NEW G \in SUBSET Queue(s),
           NEW msgs, \A d \in msgs : d \in DatagramWith(Nat) /\ d.src = p /\ d.type = "syn",
           snd' = [snd EXCEPT ![p] = SendNode(s, N, G)],
           rcv' = [rcv EXCEPT ![p] = GetAckId(@, N)],
           Transmit(Left(m, dup), DataOf(p, s, N \cup G) \cup msgs),
           window' = window
    PROVE  IInv'
<1> DEFINE t == SendNode(s, N, G)
           r == GetAckId(rcv[p], N)
<1>1. /\ p \in Peers /\ Left(m, dup) \subseteq net /\ RecvOK(rcv[p])
  BY ArrivalFacts
<1>2. SendOK(t) /\ Covered(t, Got(rcv[Other(p)]))
  BY SendNodeFacts
<1>3. RecvOK(r) /\ Got(r) = Got(rcv[p]) /\ r.first = rcv[p].first /\ rcv[p].first \in Nat
  BY <1>1, UnmovedFacts, UnmovedGot DEF RecvOK, RecvBuf
<1>4. snd' = [snd EXCEPT ![p] = t] /\ rcv' = [rcv EXCEPT ![p] = r]
  OBVIOUS
<1>5. net' \subseteq net \cup DataOf(p, s, N \cup G) \cup msgs
  BY <1>1, TransmitFacts, ZenonT(30)
<1> HIDE DEF t, r
<1>6. \A d \in DataOf(p, s, N \cup G) : d \in DatagramWith(Nat) /\ d.src = p /\ Reports(d, r)
  <2>1. N \cup G \in SUBSET Queue(s) /\ rcv[p].first <= r.first
    BY <1>3
  <2>. QED
    BY <1>1, <1>3, <2>1, DataIsTrue
<1>7. \A d \in msgs : Reports(d, r)
  BY DEF Reports
<1>8. \A d \in net' \ net : d \in DatagramWith(Nat) /\ d.src = p /\ Reports(d, r)
  BY <1>5, <1>6, <1>7
<1>9. Got(rcv[p]) \subseteq Got(r) /\ rcv[p].first <= r.first
  BY <1>3
<1>. QED
  BY <1>1, <1>2, <1>3, <1>4, <1>8, <1>9, EndStep


\* procRudpAckMsg keeps the invariant: a true acknowledgement releases only
\* fragments the other end has.
LEMMA RecvAckStep ==
    ASSUME IInv, NEW m \in net, NEW dup \in BOOLEAN, NEW p, p = Other(m.src), RecvAck(p, m, dup)
    PROVE  IInv'
<1> DEFINE s == OnDataAck(snd[p], m.seq)
<1>1. PICK N \in SUBSET Queue(s), G \in SUBSET Queue(s) :
         /\ snd' = [snd EXCEPT ![p] = SendNode(s, N, G)]
         /\ rcv' = [rcv EXCEPT ![p] = GetAckId(@, N)]
         /\ Transmit(Left(m, dup), DataOf(p, s, N \cup G))
         /\ window' = window
  BY DEF RecvAck
<1>2. m.type = "ack"
  BY DEF RecvAck
<1>3. m.seq \in Nat /\ m.seq <= rcv[Other(p)].first
  BY <1>2, ArrivalFacts DEF DatagramWith, Reports
<1>4. SendOK(s) /\ Covered(s, Got(rcv[Other(p)]))
  BY <1>3, ArrivalFacts, OnDataAckFacts
<1> HIDE DEF s
<1> DEFINE none == {}
<1>5. Transmit(Left(m, dup), DataOf(p, s, N \cup G) \cup none)
  <2>1. DataOf(p, s, N \cup G) \cup none = DataOf(p, s, N \cup G)
    OBVIOUS
  <2>. QED
    BY <1>1, <2>1
<1>6. \A d \in none : d \in DatagramWith(Nat) /\ d.src = p /\ d.type = "syn"
  OBVIOUS
<1> HIDE DEF none
<1>. QED
  BY <1>1, <1>4, <1>5, <1>6, ResendStep

\* procRudpAck2Msg keeps the invariant: it holds a fragment the other end has.
LEMMA RecvAck2Step ==
    ASSUME IInv, NEW m \in net, NEW dup \in BOOLEAN, NEW p, p = Other(m.src), RecvAck2(p, m, dup)
    PROVE  IInv'
<1> DEFINE s == OnDataAck2(snd[p], m.seq)
<1>1. PICK N \in SUBSET Queue(s), G \in SUBSET Queue(s) :
         /\ snd' = [snd EXCEPT ![p] = SendNode(s, N, G)]
         /\ rcv' = [rcv EXCEPT ![p] = GetAckId(@, N)]
         /\ Transmit(Left(m, dup), DataOf(p, s, N \cup G))
         /\ window' = window
  BY DEF RecvAck2
<1>2. m.type = "ack2"
  BY DEF RecvAck2
<1>3. m.seq \in Nat /\ m.seq \in Got(rcv[Other(p)])
  BY <1>2, ArrivalFacts DEF DatagramWith, Reports
<1>4. SendOK(s) /\ Covered(s, Got(rcv[Other(p)]))
  BY <1>3, ArrivalFacts, OnDataAck2Facts
<1> HIDE DEF s
<1> DEFINE none == {}
<1>5. Transmit(Left(m, dup), DataOf(p, s, N \cup G) \cup none)
  <2>1. DataOf(p, s, N \cup G) \cup none = DataOf(p, s, N \cup G)
    OBVIOUS
  <2>. QED
    BY <1>1, <2>1
<1>6. \A d \in none : d \in DatagramWith(Nat) /\ d.src = p /\ d.type = "syn"
  OBVIOUS
<1> HIDE DEF none
<1>. QED
  BY <1>1, <1>4, <1>5, <1>6, ResendStep

\* procRudpRepairMsg keeps the invariant: it resends, and releases nothing.
LEMMA RecvRepairStep ==
    ASSUME IInv, NEW m \in net, NEW dup \in BOOLEAN, NEW p, p = Other(m.src), RecvRepair(p, m, dup)
    PROVE  IInv'
<1> DEFINE s == snd[p]
           N == {m.seq} \cap Queue(s)
           msgs == IF m.seq >= s.bufSeq THEN {CtlMsg("syn", p, s.bufSeq - 1)} ELSE {}
<1>1. PICK G \in SUBSET Queue(s) :
         /\ snd' = [snd EXCEPT ![p] = SendNode(s, N, G)]
         /\ rcv' = [rcv EXCEPT ![p] = GetAckId(@, N)]
         /\ Transmit(Left(m, dup), DataOf(p, s, N \cup G) \cup msgs)
         /\ window' = window
  BY DEF RecvRepair
<1>2. SendOK(s) /\ Covered(s, Got(rcv[Other(p)])) /\ p \in Peers
  BY ArrivalFacts
<1>3. s.bufSeq - 1 \in Nat
  BY <1>2 DEF SendOK, SendBuf
<1>4. \A d \in msgs : d \in DatagramWith(Nat) /\ d.src = p /\ d.type = "syn"
  BY <1>2, <1>3, CtlMsgFacts
<1>5. N \in SUBSET Queue(s)
  OBVIOUS
<1> HIDE DEF s, N, msgs
<1>. QED
  BY <1>1, <1>2, <1>4, <1>5, ResendStep

\* procRudpSynMsg keeps the invariant: it acknowledges the in-order prefix.
LEMMA RecvSynStep ==
    ASSUME IInv, NEW m \in net, NEW dup \in BOOLEAN, NEW p, p = Other(m.src), RecvSyn(p, m, dup)
    PROVE  IInv'
<1> DEFINE r == [rcv[p] EXCEPT !.destMax = m.seq]
<1>1. /\ p \in Peers /\ Left(m, dup) \subseteq net /\ m.seq \in Nat
      /\ SendOK(snd[p]) /\ RecvOK(rcv[p]) /\ Covered(snd[p], Got(rcv[Other(p)]))
  BY ArrivalFacts DEF DatagramWith
<1>2. RecvOK(r) /\ Got(r) = Got(rcv[p]) /\ r.first = rcv[p].first /\ r.first \in Nat
  <2>1. RecvOK(r) /\ Got(r) = Got(rcv[p]) /\ r.first = rcv[p].first
    <3>1. Unmoved(rcv[p], r)
      BY <1>1, UnmovedFacts
    <3> HIDE DEF r
    <3>. QED
      BY <3>1, UnmovedGot
  <2>2. r.first \in Nat
    BY <2>1 DEF RecvOK, RecvBuf
  <2>. QED
    BY <2>1, <2>2
<1>3. snd' = [snd EXCEPT ![p] = snd[p]] /\ window' = window
  BY <1>1 DEF RecvSyn, IInv, TypeOK
<1>4. PICK cap \in RepairCaps :
         IF m.seq = r.first
         THEN /\ rcv' = [rcv EXCEPT ![p] = [r EXCEPT !.lastAck = r.first]]
              /\ Transmit(Left(m, dup), {CtlMsg("ack", p, r.first)})
         ELSE /\ rcv' = [rcv EXCEPT ![p] = AfterRepairs(r, cap)]
              /\ Transmit(Left(m, dup), {CtlMsg("repair", p, q) : q \in Repairs(r, cap)})
  BY DEF RecvSyn
<1> HIDE DEF r
<1>5. CASE m.seq = r.first
  <2> DEFINE t == [r EXCEPT !.lastAck = r.first]
             d == CtlMsg("ack", p, r.first)
  <2>1. RecvOK(t) /\ Got(t) = Got(r) /\ t.first = r.first
    BY <1>2, UnmovedFacts, UnmovedGot
  <2>2. rcv' = [rcv EXCEPT ![p] = t] /\ net' \subseteq net \cup {d}
    BY <1>1, <1>4, <1>5, TransmitFacts
  <2>3. d \in DatagramWith(Nat) /\ d.src = p /\ d.type = "ack" /\ d.seq = r.first
    BY <1>1, <1>2, CtlMsgFacts
  <2> HIDE DEF t, d
  <2>4. Reports(d, t)
    BY <1>2, <2>1, <2>3 DEF Reports
  <2>5. Got(rcv[p]) \subseteq Got(t) /\ rcv[p].first <= t.first
    BY <1>2, <2>1
  <2>6. \A e \in net' \ net : e \in DatagramWith(Nat) /\ e.src = p /\ Reports(e, t)
    BY <2>2, <2>3, <2>4
  <2>. QED
    BY <1>1, <1>3, <2>1, <2>2, <2>5, <2>6, EndStep
<1>6. CASE m.seq # r.first
  <2> DEFINE t    == AfterRepairs(r, cap)
             msgs == {CtlMsg("repair", p, q) : q \in Repairs(r, cap)}
  <2>1. RecvOK(t) /\ Got(t) = Got(r) /\ t.first = r.first
    BY <1>2, UnmovedFacts, UnmovedGot
  <2>2. rcv' = [rcv EXCEPT ![p] = t] /\ net' \subseteq net \cup msgs
    BY <1>1, <1>4, <1>6, TransmitFacts
  <2>3. \A d \in msgs : d \in DatagramWith(Nat) /\ d.src = p /\ Reports(d, t)
    BY <1>1, <1>2, RepairFacts
  <2> HIDE DEF t, msgs
  <2>5. Got(rcv[p]) \subseteq Got(t) /\ rcv[p].first <= t.first
    BY <1>2, <2>1
  <2>6. \A e \in net' \ net : e \in DatagramWith(Nat) /\ e.src = p /\ Reports(e, t)
    BY <2>2, <2>3
  <2>. QED
    BY <1>1, <1>3, <2>1, <2>2, <2>5, <2>6, EndStep
<1>. QED
  BY <1>5, <1>6


\* addRecvData forgets nothing, and acknowledges at once a fragment it puts on
\* the list.
LEMMA AddRecvDataFacts ==
    ASSUME NEW r, RecvOK(r), NEW x \in [seq : Nat, pkt : BOOLEAN], NEW cap
    PROVE  LET u == AddRecvData(r, x, cap)
           IN  /\ RecvOK(u)
               /\ Got(u) = Got(r) \/ Got(u) = Got(r) \cup {x.seq}
               /\ r.first <= u.first
               /\ IsAhead(r, x.seq) => x.seq \in Got(u)
               /\ Taken(r, x, cap).first = u.first
<1> DEFINE t == Taken(r, x, cap)
           u == AddRecvData(r, x, cap)
<1>1. r.first \in Nat
  BY DEF RecvOK, RecvBuf
<1>2. /\ RecvOK(t) /\ (Got(t) = Got(r) \/ Got(t) = Got(r) \cup {x.seq})
      /\ r.first <= t.first /\ (IsAhead(r, x.seq) => x.seq \in Got(t))
  <2>1. CASE IsNext(r, x.seq)
    <3>1. x.seq = r.first + 1 /\ ~IsAhead(r, x.seq)
      BY <1>1, <2>1 DEF IsNext, IsAhead
    <3>2. t = InOrder(r, x)
      BY <2>1, <3>1 DEF Taken
    <3> HIDE DEF t
    <3>. QED
      BY <3>1, <3>2, InOrderFacts
  <2>2. CASE ~IsNext(r, x.seq) /\ IsAhead(r, x.seq)
    <3>1. t = AfterRepairs(Put(r, x), cap)
      BY <2>2 DEF Taken
    <3> HIDE DEF t
    <3>2. /\ RecvOK(Put(r, x)) /\ Got(Put(r, x)) = Got(r) \cup {x.seq}
          /\ Put(r, x).first = r.first
      BY <2>2, AheadFacts
    <3>3. RecvOK(t) /\ Got(t) = Got(Put(r, x)) /\ t.first = Put(r, x).first
      BY <3>1, <3>2, UnmovedFacts, UnmovedGot
    <3>. QED
      BY <1>1, <3>2, <3>3
  <2>3. CASE ~IsNext(r, x.seq) /\ ~IsAhead(r, x.seq)
    <3>1. t = r
      BY <2>3 DEF Taken
    <3>. QED
      BY <1>1, <2>3, <3>1
  <2>. QED
    BY <2>1, <2>2, <2>3
<1>3. u = AfterAck(t) \/ (u = r /\ t = r)
  BY DEF AddRecvData, Taken, Known
<1> HIDE DEF t, u
<1>4. RecvOK(AfterAck(t)) /\ Got(AfterAck(t)) = Got(t) /\ AfterAck(t).first = t.first
  BY <1>2, UnmovedFacts, UnmovedGot
<1>5. RecvOK(u) /\ Got(u) = Got(t) /\ u.first = t.first
  BY <1>2, <1>3, <1>4
<1>. QED
  BY <1>2, <1>5 DEF t, u

\* What addRecvData sends is true of the buffer it leaves.
LEMMA RepliesFacts ==
    ASSUME NEW p \in Peers, NEW r, RecvOK(r), NEW x \in [seq : Nat, pkt : BOOLEAN], NEW cap
    PROVE  \A d \in Replies(p, r, x, cap) :
               d \in DatagramWith(Nat) /\ d.src = p /\ Reports(d, AddRecvData(r, x, cap))
<1> DEFINE u  == AddRecvData(r, x, cap)
           a  == CtlMsg("ack", p, Taken(r, x, cap).first)
           a2 == CtlMsg("ack2", p, x.seq)
           repairs == {CtlMsg("repair", p, q) : q \in Repairs(Put(r, x), cap)}
<1>1. /\ RecvOK(u) /\ Taken(r, x, cap).first = u.first
      /\ IsAhead(r, x.seq) => x.seq \in Got(u)
  BY AddRecvDataFacts
<1>2. \A d \in Replies(p, r, x, cap) : d = a \/ (IsAhead(r, x.seq) /\ d \in repairs \cup {a2})
  BY DEF Replies, AckIfDue
<1>3. u.first \in Nat /\ x.seq \in Nat
  BY <1>1 DEF RecvOK, RecvBuf
<1>4. a \in DatagramWith(Nat) /\ a.src = p /\ a.type = "ack" /\ a.seq = u.first
  BY <1>1, <1>3, CtlMsgFacts
<1>5. a2 \in DatagramWith(Nat) /\ a2.src = p /\ a2.type = "ack2" /\ a2.seq = x.seq
  BY <1>3, CtlMsgFacts
<1> HIDE DEF u, a, a2
<1>6. IsAhead(r, x.seq) => \A d \in repairs : d \in DatagramWith(Nat) /\ d.src = p /\ Reports(d, u)
  BY AheadFacts, RepairFacts
<1>7. Reports(a, u)
  BY <1>3, <1>4 DEF Reports
<1>8. IsAhead(r, x.seq) => Reports(a2, u)
  BY <1>1, <1>5 DEF Reports
<1> HIDE DEF repairs
<1>. QED
  BY <1>2, <1>4, <1>5, <1>6, <1>7, <1>8 DEF u

\* procRudpDataMsg keeps the invariant: the acknowledgement it carries is true,
\* and the fragment is taken in order, put on the list or ignored.
LEMMA RecvDataStep ==
    ASSUME IInv, NEW m \in net, NEW dup \in BOOLEAN, NEW p, p = Other(m.src), RecvData(p, m, dup)
    PROVE  IInv'
<1> DEFINE s == OnDataAck(snd[p], m.ack)
           x == [seq |-> m.seq, pkt |-> m.pkt]
<1>1. PICK N \in SUBSET Queue(s), G \in SUBSET Queue(s), cap \in RepairCaps :
         LET r == GetAckId(rcv[p], N)
         IN  /\ IF m.ack <= s.maxSend THEN SendNodeAll(s, window[p], N, G)
                                      ELSE N = {} /\ G = {}
             /\ snd' = [snd EXCEPT ![p] = SendNode(s, N, G)]
             /\ rcv' = [rcv EXCEPT ![p] = AddRecvData(r, x, cap)]
             /\ app' = IF IsNext(r, m.seq)
                       THEN [app EXCEPT ![p] = Assemble(r, @, x)] ELSE app
             /\ Transmit(Left(m, dup), DataOf(p, s, N \cup G) \cup Replies(p, r, x, cap))
  BY DEF RecvData
<1> DEFINE r == GetAckId(rcv[p], N)
           u == AddRecvData(r, x, cap)
           t == SendNode(s, N, G)
           replies == Replies(p, r, x, cap)
<1>2. /\ p \in Peers /\ Left(m, dup) \subseteq net
      /\ m.ack \in Nat /\ m.ack <= rcv[Other(p)].first /\ x \in [seq : Nat, pkt : BOOLEAN]
      /\ RecvOK(rcv[p]) /\ RecvOK(rcv[Other(p)])
      /\ SendOK(snd[p]) /\ Covered(snd[p], Got(rcv[Other(p)]))
  <2>1. m.type = "data"
    BY DEF RecvData
  <2>2. m \in [type : {"data"}, src : Peers, seq : Nat, pkt : BOOLEAN, ack : Nat]
    BY <2>1, ArrivalFacts DEF DatagramWith
  <2>3. m.ack <= rcv[Other(p)].first
    BY <2>1, ArrivalFacts DEF Reports
  <2>. QED
    BY <2>2, <2>3, ArrivalFacts
<1>3. SendOK(s) /\ Covered(s, Got(rcv[Other(p)]))
  BY <1>2, OnDataAckFacts
<1> HIDE DEF s, x
<1>4. SendOK(t) /\ Covered(t, Got(rcv[Other(p)]))
  BY <1>3, SendNodeFacts
<1>5. RecvOK(r) /\ Got(r) = Got(rcv[p]) /\ r.first = rcv[p].first
  <2>1. Unmoved(rcv[p], r)
    BY <1>2, UnmovedFacts
  <2> HIDE DEF r
  <2>. QED
    BY <2>1, UnmovedGot
<1> HIDE DEF r
<1>6. RecvOK(u) /\ Got(rcv[p]) \subseteq Got(u) /\ rcv[p].first <= u.first
  BY <1>2, <1>5, AddRecvDataFacts
<1>7. \A d \in replies : d \in DatagramWith(Nat) /\ d.src = p /\ Reports(d, u)
  BY <1>2, <1>5, RepliesFacts
<1> HIDE DEF u, t, replies
<1>8. \A d \in DataOf(p, s, N \cup G) : d \in DatagramWith(Nat) /\ d.src = p /\ Reports(d, u)
  <2>1. N \cup G \in SUBSET Queue(s)
    OBVIOUS
  <2>. QED
    BY <1>2, <1>3, <1>6, <2>1, DataIsTrue
<1>9. net' \subseteq net \cup DataOf(p, s, N \cup G) \cup replies
  <2> DEFINE msgs == DataOf(p, s, N \cup G) \cup replies
  <2>1. Transmit(Left(m, dup), msgs)
    BY <1>1 DEF r, replies
  <2> HIDE DEF msgs
  <2>2. net' \subseteq Left(m, dup) \cup msgs
    BY <2>1, TransmitFacts
  <2>. QED
    BY <1>2, <2>2 DEF msgs
<1>10. snd' = [snd EXCEPT ![p] = t] /\ rcv' = [rcv EXCEPT ![p] = u] /\ window' = window
  BY <1>1 DEF r, u, t, RecvData
<1>11. \A d \in net' \ net : d \in DatagramWith(Nat) /\ d.src = p /\ Reports(d, u)
  BY <1>7, <1>8, <1>9
<1>. QED
  BY <1>2, <1>4, <1>6, <1>10, <1>11, EndStep


\* procTimerEvent keeps the invariant: it sends a SYN, or stops the timer.
LEMMA ProcTimerEventStep ==
    ASSUME IInv, NEW p \in Peers, ProcTimerEvent(p)
    PROVE  IInv'
<1> DEFINE s == snd[p]
           b == (Queue(s) # {})
           t == [s EXCEPT !.timer = b]
           d == CtlMsg("syn", p, s.maxSend)
<1>1. /\ SendOK(s) /\ RecvOK(rcv[p]) /\ Covered(s, Got(rcv[Other(p)]))
      /\ s.maxSend \in Nat /\ rcv[p].first \in Nat /\ rcv \in [Peers -> RecvBuf]
  BY DEF IInv, TypeOK, BuffersOK, NothingLost, Covered, Received, SendOK, SendBuf, RecvBuf
<1>2. SendOK(t) /\ Covered(t, Got(rcv[Other(p)]))
  <2>1. b \in BOOLEAN
    OBVIOUS
  <2> HIDE DEF b
  <2>2. /\ t \in SendBuf /\ t.bufSeq = s.bufSeq /\ t.head = s.head
        /\ t.maxSend = s.maxSend /\ t.sent = s.sent /\ t.held = s.held
    BY <1>1, <2>1 DEF SendOK, SendBuf
  <2>. QED
    BY <1>1, <2>2 DEF SendOK, Covered, Queue
<1>3. d \in DatagramWith(Nat) /\ d.src = p /\ d.type = "syn"
  BY <1>1, CtlMsgFacts
<1>4. Reports(d, rcv[p])
  BY <1>3 DEF Reports
<1>5. net' \subseteq net \cup {d}
  <2> DEFINE msgs == IF Queue(s) # {} /\ s.quiet THEN {d} ELSE {}
  <2>1. Transmit(net, msgs)
    BY DEF ProcTimerEvent
  <2> HIDE DEF msgs
  <2>2. net' \subseteq net \cup msgs
    BY <2>1, TransmitFacts
  <2>. QED
    BY <2>2 DEF msgs
<1>6. /\ snd' = [snd EXCEPT ![p] = t] /\ rcv' = [rcv EXCEPT ![p] = rcv[p]]
      /\ window' = window
  BY <1>1 DEF ProcTimerEvent
<1>7. Got(rcv[p]) \subseteq Got(rcv[p]) /\ rcv[p].first <= rcv[p].first
  BY <1>1
<1>8. \A e \in net' \ net : e \in DatagramWith(Nat) /\ e.src = p /\ Reports(e, rcv[p])
  BY <1>3, <1>4, <1>5
<1> HIDE DEF t, d
<1>. QED
  BY <1>1, <1>2, <1>6, <1>7, <1>8, EndStep

\* The steps that only set a flag of an end or lose a datagram.
LEMMA QuietStep ==
    ASSUME IInv, NEW p \in Peers,
           SynTimeElapses(p) \/ RttElapses(p) \/ SetUrgent(p) \/ (\E m \in net : Lose(m))
    PROVE  IInv'
<1> DEFINE s == snd[p]
<1>1. /\ SendOK(s) /\ RecvOK(rcv[p]) /\ Covered(s, Got(rcv[Other(p)]))
      /\ rcv[p].first \in Nat /\ snd \in [Peers -> SendBuf] /\ rcv \in [Peers -> RecvBuf]
  BY DEF IInv, TypeOK, BuffersOK, NothingLost, Covered, Received, RecvBuf
<1>2. net' \subseteq net /\ window' = window
  BY DEF SynTimeElapses, RttElapses, SetUrgent, Lose
<1>3. PICK t \in SendBuf : /\ snd' = [snd EXCEPT ![p] = t]
                           /\ t.bufSeq = s.bufSeq /\ t.head = s.head /\ t.maxSend = s.maxSend
                           /\ t.sent = s.sent /\ t.held = s.held
  <2>1. CASE SynTimeElapses(p)
    <3> DEFINE t == [s EXCEPT !.quiet = TRUE]
    <3>1. /\ t \in SendBuf /\ snd' = [snd EXCEPT ![p] = t]
          /\ t.bufSeq = s.bufSeq /\ t.head = s.head /\ t.maxSend = s.maxSend
          /\ t.sent = s.sent /\ t.held = s.held
      BY <1>1, <2>1 DEF SynTimeElapses, SendOK, SendBuf
    <3>. QED
      BY <3>1
  <2>2. CASE SetUrgent(p)
    <3> DEFINE t == [s EXCEPT !.urgent = ~s.urgent]
    <3>1. (~s.urgent) \in BOOLEAN
      OBVIOUS
    <3>2. /\ t \in SendBuf /\ t.bufSeq = s.bufSeq /\ t.head = s.head
          /\ t.maxSend = s.maxSend /\ t.sent = s.sent /\ t.held = s.held
      BY <1>1, <3>1 DEF SendOK, SendBuf
    <3>3. snd' = [snd EXCEPT ![p] = t]
      BY <1>1, <2>2 DEF SetUrgent
    <3>. QED
      BY <3>2, <3>3
  <2>3. CASE RttElapses(p) \/ \E m \in net : Lose(m)
    <3>1. s \in SendBuf /\ snd' = [snd EXCEPT ![p] = s]
      BY <1>1, <2>3 DEF RttElapses, Lose
    <3>. QED
      BY <3>1
  <2>. QED
    BY <2>1, <2>2, <2>3
<1>4. SendOK(t) /\ Covered(t, Got(rcv[Other(p)]))
  BY <1>1, <1>3 DEF SendOK, Covered, Queue
<1>5. PICK r : /\ rcv' = [rcv EXCEPT ![p] = r]
               /\ RecvOK(r) /\ Got(r) = Got(rcv[p]) /\ r.first = rcv[p].first
  <2>1. CASE RttElapses(p)
    <3> DEFINE r == [rcv[p] EXCEPT !.ready = TRUE]
    <3>1. Unmoved(rcv[p], r)
      BY <1>1, UnmovedFacts
    <3>2. rcv' = [rcv EXCEPT ![p] = r]
      BY <1>1, <2>1 DEF RttElapses
    <3> HIDE DEF r
    <3>. QED
      BY <3>1, <3>2, UnmovedGot
  <2>2. CASE SynTimeElapses(p) \/ SetUrgent(p) \/ \E m \in net : Lose(m)
    <3>1. rcv' = [rcv EXCEPT ![p] = rcv[p]]
      BY <1>1, <2>2 DEF SynTimeElapses, SetUrgent, Lose
    <3>. QED
      BY <1>1, <3>1
  <2>. QED
    BY <2>1, <2>2
<1>6. Got(rcv[p]) \subseteq Got(r) /\ rcv[p].first <= r.first
  BY <1>1, <1>5
<1>7. \A e \in net' \ net : e \in DatagramWith(Nat) /\ e.src = p /\ Reports(e, r)
  BY <1>2
<1>. QED
  BY <1>2, <1>3, <1>4, <1>5, <1>6, <1>7, EndStep

\* A new window size keeps the invariant.
LEMMA SetWindowStep ==
    ASSUME IInv, NEW p \in Peers, SetWindow(p)
    PROVE  IInv'
<1>1. snd' = snd /\ rcv' = rcv /\ net' = net
  BY DEF SetWindow
<1>2. window' \in [Peers -> Nat] /\ \A o \in Peers : window'[o] \in Windows[o]
  BY LimitsAreNat DEF SetWindow, IInv, TypeOK
<1>3. TypeOK'
  BY <1>1, <1>2 DEF IInv, TypeOK
<1>. QED
  BY <1>1, <1>3 DEF IInv, BuffersOK, AcksTrue, NothingLost, SendOK, RecvOK, AheadOK, AheadSeqs,
                    Queue, Reports, Got, Received

\* A step that changes nothing keeps the invariant.
LEMMA StutterStep ==
    ASSUME IInv, UNCHANGED vars
    PROVE  IInv'
BY DEF IInv, TypeOK, BuffersOK, AcksTrue, NothingLost, SendOK, RecvOK, AheadOK, AheadSeqs,
       Queue, Reports, Got, Received, vars

\* Every step of the channel keeps the invariant.
LEMMA NextInv ==
    ASSUME IInv, [Next]_vars
    PROVE  IInv'
<1>1. ASSUME NEW p \in Peers, NEW k \in 1 .. MaxFragments, SendData(p, k)
      PROVE  IInv'
  BY <1>1, SendDataStep
<1>2. ASSUME NEW p \in Peers, ProcTimerEvent(p)
      PROVE  IInv'
  BY <1>2, ProcTimerEventStep
<1>3. ASSUME NEW p \in Peers, SynTimeElapses(p) \/ RttElapses(p) \/ SetUrgent(p)
      PROVE  IInv'
  BY <1>3, QuietStep
<1>4. ASSUME NEW p \in Peers, SetWindow(p)
      PROVE  IInv'
  BY <1>4, SetWindowStep
<1>5. ASSUME NEW m \in net, NEW dup \in BOOLEAN, Receive(m, dup)
      PROVE  IInv'
  <2> DEFINE p == Other(m.src)
  <2>1. RecvData(p, m, dup) \/ RecvAck(p, m, dup) \/ RecvAck2(p, m, dup)
        \/ RecvRepair(p, m, dup) \/ RecvSyn(p, m, dup)
    BY <1>5 DEF Receive
  <2>. QED
    BY <2>1, RecvDataStep, RecvAckStep, RecvAck2Step, RecvRepairStep, RecvSynStep
<1>6. ASSUME NEW m \in net, Lose(m)
      PROVE  IInv'
  <2>1. A \in Peers
    BY DEF Peers
  <2>. QED
    BY <1>6, <2>1, QuietStep
<1>7. CASE UNCHANGED vars
  BY <1>7, StutterStep
<1>8. CASE Next
  BY <1>1, <1>2, <1>3, <1>4, <1>5, <1>6, <1>8 DEF Next
<1>. QED
  BY <1>7, <1>8

-----------------------------------------------------------------------------
(* The theorems.                                                           *)

\* The invariant holds in every reachable state.
THEOREM Invariance == Spec => []IInv
<1>1. Init => IInv
  BY InitInv
<1>2. IInv /\ [Next]_vars => IInv'
  BY NextInv
<1>. QED
  BY <1>1, <1>2, PTL DEF Spec

\* The buffers, windows and datagrams keep the shape the C++ members give them.
THEOREM TypeCorrect == Spec => []TypeOK
<1>1. IInv => TypeOK
  BY DEF IInv
<1>. QED
  BY <1>1, Invariance, PTL

\* An acknowledgement never claims more than its sender has received.
THEOREM AcknowledgementsAreTrue == Spec => []AcksTrue
<1>1. IInv => AcksTrue
  BY DEF IInv
<1>. QED
  BY <1>1, Invariance, PTL

\* onDataAck and onDataAck2 never give up a fragment the other end lacks.
THEOREM NoFragmentLost == Spec => []NothingLost
<1>1. IInv => NothingLost
  BY DEF IInv
<1>. QED
  BY <1>1, Invariance, PTL

\* What addRecvData holds back is behind a real gap and within its limit.
THEOREM ReorderBufferBounded == Spec => []ReorderBuffer
<1>1. IInv => ReorderBuffer
  BY DEF IInv, BuffersOK, RecvOK, AheadOK, ReorderBuffer
<1>. QED
  BY <1>1, Invariance, PTL

-----------------------------------------------------------------------------
(* The receiver counts what arrived, and nothing else.                     *)

LEMMA SameReceived ==
    ASSUME IInv, NEW o \in Peers, NEW t, Got(t) = Got(rcv[o]), rcv' = [rcv EXCEPT ![o] = t],
           NEW p \in Peers
    PROVE  Got(rcv'[p]) = Got(rcv[p])
<1>1. rcv \in [Peers -> RecvBuf]
  BY DEF IInv, TypeOK
<1>2. rcv'[p] = IF p = o THEN t ELSE rcv[p]
  BY <1>1
<1>. QED
  BY <1>2

\* A step in which no data arrives at an end changes nothing it has received.
LEMMA OnlyDataIsReceived ==
    ASSUME IInv, Next, NEW p \in Peers,
           ~ \E m \in net, dup \in BOOLEAN : p = Other(m.src) /\ RecvData(p, m, dup)
    PROVE  Got(rcv'[p]) = Got(rcv[p])
<1>1. \A o \in Peers : RecvOK(rcv[o])
  BY DEF IInv, BuffersOK
<1>2. \A o \in Peers : \A F : Got(GetAckId(rcv[o], F)) = Got(rcv[o])
  BY <1>1, UnmovedFacts, UnmovedGot
<1>3. ASSUME NEW o \in Peers, NEW k \in 1 .. MaxFragments, SendData(o, k)
      PROVE  Got(rcv'[p]) = Got(rcv[p])
  <2>1. PICK N : rcv' = [rcv EXCEPT ![o] = GetAckId(rcv[o], N)]
    BY <1>3 DEF SendData
  <2>. QED
    BY <1>2, <2>1, SameReceived
<1>4. ASSUME NEW o \in Peers,
             ProcTimerEvent(o) \/ SynTimeElapses(o) \/ SetWindow(o) \/ SetUrgent(o)
      PROVE  Got(rcv'[p]) = Got(rcv[p])
  BY <1>4 DEF ProcTimerEvent, SynTimeElapses, SetWindow, SetUrgent
<1>5. ASSUME NEW o \in Peers, RttElapses(o)
      PROVE  Got(rcv'[p]) = Got(rcv[p])
  <2> DEFINE t == [rcv[o] EXCEPT !.ready = TRUE]
  <2>1. Unmoved(rcv[o], t)
    BY <1>1, UnmovedFacts
  <2>2. rcv' = [rcv EXCEPT ![o] = t]
    BY <1>5 DEF RttElapses, IInv, TypeOK
  <2> HIDE DEF t
  <2>. QED
    BY <2>1, <2>2, UnmovedGot, SameReceived
<1>6. ASSUME NEW m \in net, Lose(m)
      PROVE  Got(rcv'[p]) = Got(rcv[p])
  BY <1>6 DEF Lose
<1>7. ASSUME NEW m \in net, NEW dup \in BOOLEAN, Receive(m, dup)
      PROVE  Got(rcv'[p]) = Got(rcv[p])
  <2> DEFINE o == Other(m.src)
  <2>1. o \in Peers /\ RecvOK(rcv[o]) /\ m \in DatagramWith(Nat)
    BY ArrivalFacts
  <2>2. CASE RecvData(o, m, dup)
    <3>1. p # o
      BY <2>2
    <3>2. PICK u : rcv' = [rcv EXCEPT ![o] = u]
      BY <2>2 DEF RecvData
    <3>. QED
      BY <3>1, <3>2 DEF IInv, TypeOK
  <2>3. CASE RecvAck(o, m, dup) \/ RecvAck2(o, m, dup) \/ RecvRepair(o, m, dup)
    <3>1. PICK N : rcv' = [rcv EXCEPT ![o] = GetAckId(rcv[o], N)]
      BY <2>3 DEF RecvAck, RecvAck2, RecvRepair
    <3>. QED
      BY <1>2, <2>1, <3>1, SameReceived
  <2>4. CASE RecvSyn(o, m, dup)
    <3> DEFINE r == [rcv[o] EXCEPT !.destMax = m.seq]
    <3>1. RecvOK(r) /\ Got(r) = Got(rcv[o])
      <4>1. m.seq \in Nat
        BY <2>1 DEF DatagramWith
      <4>2. Unmoved(rcv[o], r)
        BY <2>1, <4>1, UnmovedFacts
      <4> HIDE DEF r
      <4>. QED
        BY <4>2, UnmovedGot
    <3>2. \E cap : \/ rcv' = [rcv EXCEPT ![o] = [r EXCEPT !.lastAck = r.first]]
                   \/ rcv' = [rcv EXCEPT ![o] = AfterRepairs(r, cap)]
      BY <2>4 DEF RecvSyn
    <3> HIDE DEF r
    <3>3. PICK t : rcv' = [rcv EXCEPT ![o] = t] /\ Unmoved(r, t)
      BY <3>1, <3>2, UnmovedFacts
    <3>4. Got(t) = Got(rcv[o])
      BY <3>1, <3>3, UnmovedGot
    <3>. QED
      BY <2>1, <3>3, <3>4, SameReceived
  <2>. QED
    BY <1>7, <2>2, <2>3, <2>4 DEF Receive
<1>. QED
  BY <1>3, <1>4, <1>5, <1>6, <1>7 DEF Next

\* An end that takes a data datagram has received that fragment more, or
\* nothing more.
LEMMA DataReceivedIsThatData ==
    ASSUME IInv, NEW m \in net, NEW dup \in BOOLEAN, NEW p, p = Other(m.src), RecvData(p, m, dup)
    PROVE  /\ m.type = "data" /\ m.src = Other(p)
           /\ Got(rcv'[p]) = Got(rcv[p]) \/ Got(rcv'[p]) = Got(rcv[p]) \cup {m.seq}
<1> DEFINE x == [seq |-> m.seq, pkt |-> m.pkt]
<1>1. m.type = "data" /\ m.src = Other(p) /\ p \in Peers /\ RecvOK(rcv[p])
  BY ArrivalFacts DEF RecvData
<1>2. x \in [seq : Nat, pkt : BOOLEAN] /\ x.seq = m.seq
  BY <1>1, ArrivalFacts DEF DatagramWith
<1>3. \E N, cap : rcv' = [rcv EXCEPT ![p] = AddRecvData(GetAckId(rcv[p], N), x, cap)]
  <2> DEFINE s == OnDataAck(snd[p], m.ack)
  <2>1. PICK N \in SUBSET Queue(s), G \in SUBSET Queue(s), cap \in RepairCaps :
           LET r == GetAckId(rcv[p], N)
           IN  /\ IF m.ack <= s.maxSend THEN SendNodeAll(s, window[p], N, G)
                                        ELSE N = {} /\ G = {}
               /\ snd' = [snd EXCEPT ![p] = SendNode(s, N, G)]
               /\ rcv' = [rcv EXCEPT ![p] = AddRecvData(r, x, cap)]
               /\ app' = IF IsNext(r, m.seq)
                         THEN [app EXCEPT ![p] = Assemble(r, @, x)] ELSE app
               /\ Transmit(Left(m, dup), DataOf(p, s, N \cup G) \cup Replies(p, r, x, cap))
    BY DEF RecvData
  <2>. QED
    BY <2>1
<1> HIDE DEF x
<1>4. PICK N, cap : rcv'[p] = AddRecvData(GetAckId(rcv[p], N), x, cap)
  BY <1>1, <1>3 DEF IInv, TypeOK
<1> DEFINE r == GetAckId(rcv[p], N)
<1>5. RecvOK(r) /\ Got(r) = Got(rcv[p])
  <2>1. Unmoved(rcv[p], r)
    BY <1>1, UnmovedFacts
  <2> HIDE DEF r
  <2>. QED
    BY <2>1, UnmovedGot
<1> HIDE DEF r
<1>6. Got(AddRecvData(r, x, cap)) = Got(r) \/ Got(AddRecvData(r, x, cap)) = Got(r) \cup {x.seq}
  BY <1>2, <1>5, AddRecvDataFacts
<1>. QED
  BY <1>1, <1>2, <1>4, <1>5, <1>6 DEF r

\* Every fragment a receiver counts as received, in order or on its list, came
\* to it in a datagram, and is counted for good.
THEOREM ReceivedIsWhatArrived == Spec => OnlyArrivalsCount
<1> DEFINE Step == \A p \in Peers :
                     /\ Received(p) \subseteq Received(p)'
                     /\ \A q \in Received(p)' \ Received(p) :
                          \E m \in net : m.type = "data" /\ m.src = Other(p) /\ m.seq = q
<1>1. IInv /\ [Next]_vars => [Step]_vars
  <2>1. SUFFICES ASSUME IInv, Next, NEW p \in Peers
                 PROVE  /\ Got(rcv[p]) \subseteq Got(rcv'[p])
                        /\ \A q \in Got(rcv'[p]) \ Got(rcv[p]) :
                             \E m \in net : m.type = "data" /\ m.src = Other(p) /\ m.seq = q
    BY DEF Received, Got, AheadSeqs
  <2>2. CASE \E m \in net, dup \in BOOLEAN : p = Other(m.src) /\ RecvData(p, m, dup)
    <3>1. PICK m \in net, dup \in BOOLEAN : p = Other(m.src) /\ RecvData(p, m, dup)
      BY <2>2
    <3>2. /\ m.type = "data" /\ m.src = Other(p)
          /\ Got(rcv'[p]) = Got(rcv[p]) \/ Got(rcv'[p]) = Got(rcv[p]) \cup {m.seq}
      BY <2>1, <3>1, DataReceivedIsThatData
    <3>. QED
      BY <3>2
  <2>3. CASE ~ \E m \in net, dup \in BOOLEAN : p = Other(m.src) /\ RecvData(p, m, dup)
    BY <2>1, <2>3, OnlyDataIsReceived
  <2>. QED
    BY <2>2, <2>3
<1>. QED
  BY <1>1, Invariance, PTL DEF Spec, OnlyArrivalsCount


-----------------------------------------------------------------------------
(* The SYN timer.                                                          *)

ArmedBuf(s) == Queue(s) # {} => s.timer

\* TimerArmed survives a step that writes one send buffer and leaves it armed.
LEMMA ArmedStep ==
    ASSUME IInv, TimerArmed, NEW o \in Peers, NEW t, ArmedBuf(t), snd' = [snd EXCEPT ![o] = t]
    PROVE  TimerArmed'
<1>1. \A p \in Peers : snd'[p] = IF p = o THEN t ELSE snd[p]
  BY DEF IInv, TypeOK
<1>2. \A p \in Peers : ArmedBuf(snd'[p])
  BY <1>1 DEF TimerArmed, ArmedBuf
<1>. QED
  BY <1>2 DEF TimerArmed, ArmedBuf, Queue

\* Every step keeps the SYN timer registered while anything is queued.
LEMMA NextArmed ==
    ASSUME IInv, TimerArmed, [Next]_vars
    PROVE  TimerArmed'
<1>1. \A o \in Peers : SendOK(snd[o]) /\ ArmedBuf(snd[o]) /\ snd[o] \in SendBuf
  BY DEF IInv, BuffersOK, TimerArmed, ArmedBuf, SendOK
<1>2. ASSUME NEW s, SendOK(s), ArmedBuf(s), NEW N \in SUBSET Queue(s), NEW G \in SUBSET Queue(s)
      PROVE  ArmedBuf(SendNode(s, N, G))
  BY <1>2, SendNodeFacts DEF ArmedBuf
<1>3. ASSUME NEW o \in Peers, NEW k \in 1 .. MaxFragments, SendData(o, k)
      PROVE  TimerArmed'
  <2> DEFINE s == snd[o]
             b == s.bufSeq
             s1 == [s EXCEPT !.bufSeq  = b + k,
                             !.wait    = @ + k,
                             !.flagged = @ \cup {b + k - 1}]
             N == {q \in b .. (b + k - 1) : q < b + Room(s, window[o])}
  <2>1. PICK G \in SUBSET Queue(s) :
           snd' = [snd EXCEPT ![o] = [SendNode(s1, N, G) EXCEPT !.timer = TRUE]]
    BY <1>3 DEF SendData
  <2> DEFINE t == [SendNode(s1, N, G) EXCEPT !.timer = TRUE]
  <2>2. t.timer
    <3>1. SendNode(s1, N, G) \in SendBuf
      <4>1. SendOK(s1) /\ Queue(s1) = Queue(s) \cup (b .. (b + k - 1))
        <5>1. SendOK(s) /\ k \in Nat /\ Covered(s, Got(rcv[Other(o)]))
          BY <1>1, BoundsAreNat DEF IInv, NothingLost, Covered, Received
        <5> HIDE DEF s
        <5>. QED
          BY <5>1, AppendFacts
      <4>2. N \in SUBSET Queue(s1) /\ G \in SUBSET Queue(s1)
        BY <4>1
      <4> HIDE DEF s1, N
      <4>. QED
        BY <4>1, <4>2, SendNodeFacts DEF SendOK
    <3> HIDE DEF s1, N
    <3>. QED
      BY <3>1 DEF SendBuf
  <2>3. ArmedBuf(t) /\ snd' = [snd EXCEPT ![o] = t]
    BY <2>1, <2>2 DEF ArmedBuf
  <2> HIDE DEF t
  <2>. QED
    BY <2>3, ArmedStep
<1>4. ASSUME NEW o \in Peers, ProcTimerEvent(o)
      PROVE  TimerArmed'
  <2> DEFINE b == (Queue(snd[o]) # {})
             t == [snd[o] EXCEPT !.timer = b]
  <2>1. b \in BOOLEAN
    OBVIOUS
  <2>2. snd' = [snd EXCEPT ![o] = t]
    BY <1>4, <1>1 DEF ProcTimerEvent, IInv, TypeOK
  <2>3. t.timer = b /\ Queue(t) = Queue(snd[o])
    <3> HIDE DEF b
    <3>. QED
      BY <1>1, <2>1 DEF Queue, SendBuf
  <2>4. ArmedBuf(t)
    BY <2>3 DEF ArmedBuf
  <2> HIDE DEF t
  <2>. QED
    BY <2>2, <2>4, ArmedStep
<1>5. ASSUME NEW o \in Peers, SynTimeElapses(o)
      PROVE  TimerArmed'
  <2> DEFINE t == [snd[o] EXCEPT !.quiet = TRUE]
  <2>1. snd' = [snd EXCEPT ![o] = t] /\ ArmedBuf(t)
    BY <1>1, <1>5 DEF SynTimeElapses, ArmedBuf, Queue, SendBuf
  <2> HIDE DEF t
  <2>. QED
    BY <2>1, ArmedStep
<1>6. ASSUME NEW o \in Peers, SetUrgent(o)
      PROVE  TimerArmed'
  <2> DEFINE b == ~ snd[o].urgent
             t == [snd[o] EXCEPT !.urgent = b]
  <2>1. b \in BOOLEAN
    OBVIOUS
  <2>2. snd' = [snd EXCEPT ![o] = t]
    BY <1>1, <1>6 DEF SetUrgent, IInv, TypeOK
  <2>3. ArmedBuf(t)
    <3> HIDE DEF b
    <3>. QED
      BY <1>1, <2>1 DEF ArmedBuf, Queue, SendBuf
  <2> HIDE DEF t
  <2>. QED
    BY <2>2, <2>3, ArmedStep
<1>7. ASSUME NEW m \in net, NEW dup \in BOOLEAN, Receive(m, dup)
      PROVE  TimerArmed'
  <2> DEFINE o == Other(m.src)
  <2>1. /\ o \in Peers /\ m \in DatagramWith(Nat) /\ Reports(m, rcv[Other(o)])
        /\ RecvOK(rcv[Other(o)]) /\ Covered(snd[o], Got(rcv[Other(o)]))
    BY ArrivalFacts
  <2>2. ASSUME NEW s, SendOK(s), ArmedBuf(s), NEW N \in SUBSET Queue(s), NEW G \in SUBSET Queue(s),
               snd' = [snd EXCEPT ![o] = SendNode(s, N, G)]
        PROVE  TimerArmed'
    <3>1. ArmedBuf(SendNode(s, N, G))
      BY <1>2, <2>2
    <3>. QED
      BY <2>1, <2>2, <3>1, ArmedStep
  <2>3. ASSUME NEW a \in Nat, a <= rcv[Other(o)].first
        PROVE  SendOK(OnDataAck(snd[o], a)) /\ ArmedBuf(OnDataAck(snd[o], a))
    <3>1. LET s == OnDataAck(snd[o], a)
          IN  SendOK(s) /\ s.timer = snd[o].timer /\ Queue(s) \subseteq Queue(snd[o])
      BY <1>1, <2>1, <2>3, OnDataAckFacts
    <3>. QED
      BY <1>1, <2>1, <3>1 DEF ArmedBuf
  <2>4. CASE RecvData(o, m, dup)
    <3> DEFINE s == OnDataAck(snd[o], m.ack)
    <3>1. m.ack \in Nat /\ m.ack <= rcv[Other(o)].first
      BY <2>1, <2>4 DEF RecvData, DatagramWith, Reports
    <3>2. SendOK(s) /\ ArmedBuf(s)
      BY <2>3, <3>1
    <3>3. PICK N \in SUBSET Queue(s), G \in SUBSET Queue(s) :
             snd' = [snd EXCEPT ![o] = SendNode(s, N, G)]
      BY <2>4 DEF RecvData
    <3> HIDE DEF s
    <3>. QED
      BY <2>2, <3>2, <3>3
  <2>5. CASE RecvAck(o, m, dup)
    <3> DEFINE s == OnDataAck(snd[o], m.seq)
    <3>1. m.seq \in Nat /\ m.seq <= rcv[Other(o)].first
      BY <2>1, <2>5 DEF RecvAck, DatagramWith, Reports
    <3>2. SendOK(s) /\ ArmedBuf(s)
      BY <2>3, <3>1
    <3>3. PICK N \in SUBSET Queue(s), G \in SUBSET Queue(s) :
             snd' = [snd EXCEPT ![o] = SendNode(s, N, G)]
      BY <2>5 DEF RecvAck
    <3> HIDE DEF s
    <3>. QED
      BY <2>2, <3>2, <3>3
  <2>6. CASE RecvAck2(o, m, dup)
    <3> DEFINE s == OnDataAck2(snd[o], m.seq)
    <3>1. m.seq \in Nat /\ m.seq \in Got(rcv[Other(o)])
      BY <2>1, <2>6 DEF RecvAck2, DatagramWith, Reports
    <3>2. SendOK(s) /\ ArmedBuf(s)
      <4>1. SendOK(s) /\ s.timer = snd[o].timer /\ Queue(s) = Queue(snd[o])
        BY <1>1, <2>1, <3>1, OnDataAck2Facts
      <4>. QED
        BY <1>1, <2>1, <4>1 DEF ArmedBuf
    <3>3. PICK N \in SUBSET Queue(s), G \in SUBSET Queue(s) :
             snd' = [snd EXCEPT ![o] = SendNode(s, N, G)]
      BY <2>6 DEF RecvAck2
    <3> HIDE DEF s
    <3>. QED
      BY <2>2, <3>2, <3>3
  <2>7. CASE RecvRepair(o, m, dup)
    <3> DEFINE s == snd[o]
               N == {m.seq} \cap Queue(s)
    <3>1. PICK G \in SUBSET Queue(s) : snd' = [snd EXCEPT ![o] = SendNode(s, N, G)]
      BY <2>7 DEF RecvRepair
    <3>2. SendOK(s) /\ ArmedBuf(s) /\ N \in SUBSET Queue(s)
      BY <1>1, <2>1
    <3> HIDE DEF s, N
    <3>. QED
      BY <2>2, <3>1, <3>2
  <2>8. CASE RecvSyn(o, m, dup)
    BY <2>8 DEF RecvSyn, TimerArmed, Queue
  <2>. QED
    BY <1>7, <2>4, <2>5, <2>6, <2>7, <2>8 DEF Receive
<1>8. ASSUME snd' = snd
      PROVE  TimerArmed'
  BY <1>8 DEF TimerArmed, Queue
<1>9. ASSUME (\E o \in Peers : RttElapses(o) \/ SetWindow(o)) \/ (\E m \in net : Lose(m))
             \/ UNCHANGED vars
      PROVE  TimerArmed'
  BY <1>8, <1>9 DEF RttElapses, SetWindow, Lose, vars
<1>. QED
  BY <1>3, <1>4, <1>5, <1>6, <1>7, <1>9 DEF Next

\* While fragments are queued the SYN timer is registered.
THEOREM TimerIsArmed == Spec => []TimerArmed
<1>1. Init => TimerArmed
  BY DEF Init, TimerArmed, NewSendBuf, Queue
<1>2. IInv /\ TimerArmed /\ [Next]_vars => TimerArmed'
  BY NextArmed
<1>. QED
  BY <1>1, <1>2, Invariance, PTL DEF Spec

=============================================================================
