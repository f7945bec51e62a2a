--------------------------- MODULE RudpWindowProofs ---------------------------
(***************************************************************************)
(* Theorems about RudpChannel: the counters of the send window, what they  *)
(* let out, and what a receiver asks for again.                            *)
(***************************************************************************)
EXTENDS RudpChannelProofs

-----------------------------------------------------------------------------
(* Hypotheses.                                                             *)

\* No application switches the urgent mode on, in which fragments leave
\* uncounted.
NoUrgentMode == UrgentPeers = {}

\* The window is never 0: CRateCtrl keeps it above its lower limit.
OpenWindows == \A p \in Peers : 0 \notin Windows[p]

-----------------------------------------------------------------------------
(* The counters of a send buffer.                                          *)

Outstanding(s) == s.sent \ s.held

\* The counters agree with the queue, and what is held was sent.
Counted(s) ==
    /\ s.wait = Cardinality(Waiting(s))
    /\ s.sending = Cardinality(Outstanding(s))
    /\ \A q \in s.sent : q <= s.maxSend
    /\ s.held \subseteq s.sent

\* Buffer t is buffer s as far as the queue and the window go.
SameQueue(s, t) ==
    /\ t.bufSeq = s.bufSeq /\ t.head = s.head /\ t.sent = s.sent /\ t.held = s.held
    /\ t.maxSend = s.maxSend /\ t.wait = s.wait /\ t.sending = s.sending

LEMMA QueueFinite ==
    ASSUME NEW s, SendOK(s), NEW F, F \subseteq Queue(s)
    PROVE  /\ IsFiniteSet(F) /\ Cardinality(F) \in Nat
           /\ Cardinality(F) = 0 <=> F = {}
<1>1. s.head \in Int /\ s.bufSeq - 1 \in Int
  BY DEF SendOK, SendBuf
<1>2. IsFiniteSet(Queue(s))
  BY <1>1, FS_Interval DEF Queue
<1>3. IsFiniteSet(F)
  BY <1>2, FS_Subset
<1> QED
  BY <1>3, FS_CardinalityType, FS_EmptySet

LEMMA SameQueueCounted ==
    ASSUME NEW s, NEW t, SameQueue(s, t), Counted(s)
    PROVE  Counted(t) /\ Waiting(t) = Waiting(s) /\ Queue(t) = Queue(s)
  BY DEF SameQueue, Counted, Waiting, Queue, Outstanding

\* What sendNode leaves in the counters when it carries no more fragments.
LEMMA SendNodeCounters ==
    ASSUME NEW s, SendOK(s), NEW N \in SUBSET Queue(s), NEW G \in SUBSET Queue(s)
    PROVE  LET t == SendNode(s, N, G)
           IN  /\ t.head = s.head /\ t.held = s.held /\ t.bufSeq = s.bufSeq
               /\ t.sent = s.sent \cup N \cup G
               /\ t.wait = s.wait - Cardinality(N \ s.sent)
               /\ t.sending = s.sending + Cardinality(N \ s.sent)
               /\ t.maxSend = Max(N \cup {s.maxSend})
               /\ t.urgent = s.urgent
  BY DEF SendOK, SendBuf, SendNode

LEMMA MaxSendFacts ==
    ASSUME NEW s, SendOK(s), NEW N \in SUBSET Queue(s)
    PROVE  \A q \in N \cup {s.maxSend} : q <= Max(N \cup {s.maxSend})
<1> DEFINE M == N \cup {s.maxSend}
<1>2. s.bufSeq \in Nat /\ s.head \in Nat /\ s.maxSend \in Nat /\ s.maxSend < s.bufSeq
  BY DEF SendOK, SendBuf
<1>3. \A q \in N : q \in Nat /\ q <= s.bufSeq
  BY <1>2 DEF Queue
<1>1. M \in SUBSET Nat /\ M # {} /\ \A x \in M : x <= s.bufSeq
  BY <1>2, <1>3
<1> HIDE DEF M
<1> QED
  BY <1>1, <1>2, MaxOfNat DEF M

LEMMA SendNodeCounted ==
    ASSUME NEW s, SendOK(s), Counted(s), NEW N \in SUBSET Queue(s)
    PROVE  LET t == SendNode(s, N, {})
           IN  /\ Counted(t)
               /\ Waiting(t) = Waiting(s) \ N
               /\ t.sending = s.sending + Cardinality(N \ s.sent)
               /\ t.head = s.head /\ t.sent = s.sent \cup N
<1> DEFINE t == SendNode(s, N, {})
           K == N \ s.sent
<1>1. /\ t.head = s.head /\ t.held = s.held /\ t.bufSeq = s.bufSeq
      /\ t.sent = s.sent \cup N
      /\ t.wait = s.wait - Cardinality(K)
      /\ t.sending = s.sending + Cardinality(K)
      /\ t.maxSend = Max(N \cup {s.maxSend})
  <2>1. PICK G \in SUBSET Queue(s) : G = {}
    OBVIOUS
  <2> QED
    BY <2>1, SendNodeCounters, SMTT(30)
<1>2. /\ s.sent \subseteq Queue(s) /\ s.held \subseteq Queue(s) /\ s.maxSend \in Nat
      /\ \A q \in Queue(s) : q \in Nat
  BY DEF SendOK, SendBuf, Queue
<1>3. \A q \in N \cup {s.maxSend} : q <= t.maxSend
  BY <1>1, MaxSendFacts
<1>4. t.maxSend \in Nat
  <2>1. SendOK(t)
    BY SendNodeFacts
  <2> QED
    BY <2>1 DEF SendOK, SendBuf
<1> HIDE DEF t
<1>5. Waiting(t) = Waiting(s) \ K /\ Waiting(t) = Waiting(s) \ N /\ Waiting(s) \cap K = K
  BY <1>1 DEF Waiting, Queue
<1>6. Outstanding(t) = Outstanding(s) \cup K /\ Outstanding(s) \cap K = {}
  BY <1>1 DEF Outstanding, Counted
<1>7. t.wait = Cardinality(Waiting(t))
  <2>1. IsFiniteSet(Waiting(s)) /\ Cardinality(Waiting(s)) \in Nat
    BY QueueFinite DEF Waiting
  <2>2. Cardinality(Waiting(t)) = Cardinality(Waiting(s)) - Cardinality(K)
    <3> HIDE DEF K
    <3> QED
      BY <1>5, <2>1, FS_Difference
  <2> QED
    BY <1>1, <2>2 DEF Counted
<1>8. t.sending = Cardinality(Outstanding(t))
  <2>1. IsFiniteSet(Outstanding(s)) /\ Cardinality(Outstanding(s)) \in Nat
    BY <1>2, QueueFinite DEF Outstanding
  <2>2. IsFiniteSet(K) /\ Cardinality(K) \in Nat
    BY QueueFinite
  <2>3. Cardinality(Outstanding(t)) = Cardinality(Outstanding(s)) + Cardinality(K) - Cardinality({})
    <3> HIDE DEF K
    <3> QED
      BY <1>6, <2>1, <2>2, FS_Union
  <2> QED
    BY <1>1, <2>1, <2>2, <2>3, FS_EmptySet DEF Counted
<1>9. \A q \in t.sent : q <= t.maxSend
  <2>1. \A q \in s.sent : q \in Nat /\ q <= s.maxSend
    BY <1>2 DEF Counted
  <2>2. s.maxSend <= t.maxSend
    BY <1>3
  <2> QED
    <3>1. ASSUME NEW q \in s.sent PROVE q <= t.maxSend
      BY <1>2, <1>4, <2>1, <2>2
    <3>2. \A q \in N : q <= t.maxSend
      BY <1>3
    <3> QED
      BY <1>1, <3>1, <3>2
<1> QED
  BY <1>1, <1>5, <1>7, <1>8, <1>9 DEF Counted, t

\* An acknowledgement of sent fragments takes each off m_nSendingCount once.
LEMMA OnDataAckCounted ==
    ASSUME NEW s, SendOK(s), Counted(s), NEW a \in Nat,
           \A q \in 1 .. a : q < s.head \/ q \in s.sent
    PROVE  LET t == OnDataAck(s, a)
           IN  /\ Counted(t)
               /\ Waiting(t) = Waiting(s)
               /\ s.head <= t.head /\ t.bufSeq = s.bufSeq
               /\ \A q \in s.sent : q < t.head \/ q \in t.sent
<1> DEFINE t == OnDataAck(s, a)
           D == Acked(s, a)
<1>1. /\ s.head \in Nat \ {0} /\ s.bufSeq \in Nat /\ s.maxSend \in Nat /\ s.maxSend < s.bufSeq
      /\ s.sent \subseteq Queue(s) /\ s.held \subseteq Queue(s)
  BY DEF SendOK, SendBuf
<1>2. /\ t.head = IF D = {} THEN s.head ELSE a + 1
      /\ t.sent = s.sent \ D /\ t.held = s.held \ D
      /\ t.sending = s.sending - Cardinality(D \ s.held)
      /\ t.wait = s.wait /\ t.maxSend = s.maxSend /\ t.bufSeq = s.bufSeq
  BY DEF SendOK, SendBuf, OnDataAck
<1>3. D \subseteq s.sent
  BY <1>1 DEF Acked, Queue
<1>4. Queue(t) = Queue(s) \ D
  BY <1>1, <1>2 DEF Acked, Queue
<1>5. s.head <= t.head /\ \A q \in s.sent : q < t.head \/ q \in t.sent
  BY <1>1, <1>2, <1>3 DEF Acked, Queue
<1> HIDE DEF t, D
<1>6. Waiting(t) = Waiting(s)
  BY <1>2, <1>3, <1>4 DEF Waiting
<1>7. /\ Outstanding(t) = Outstanding(s) \ (D \ s.held)
      /\ Outstanding(s) \cap (D \ s.held) = D \ s.held
  BY <1>2, <1>3 DEF Outstanding
<1>8. t.sending = Cardinality(Outstanding(t))
  <2>1. IsFiniteSet(Outstanding(s))
    BY <1>1, QueueFinite DEF Outstanding
  <2>2. Cardinality(Outstanding(t)) = Cardinality(Outstanding(s)) - Cardinality(D \ s.held)
    BY <1>7, <2>1, FS_Difference
  <2> QED
    BY <1>2, <2>2 DEF Counted
<1> QED
  BY <1>2, <1>5, <1>6, <1>8 DEF Counted, t

LEMMA OnDataAck2Counted ==
    ASSUME NEW s, SendOK(s), Counted(s), NEW a, a < s.head \/ a \in s.sent
    PROVE  LET t == OnDataAck2(s, a)
           IN  /\ Counted(t)
               /\ Waiting(t) = Waiting(s)
               /\ t.head = s.head /\ t.sent = s.sent /\ t.bufSeq = s.bufSeq
<1>1. CASE a > s.maxSend \/ a \notin Queue(s) \/ a \in s.held
  BY <1>1 DEF OnDataAck2
<1>2. CASE ~ (a > s.maxSend \/ a \notin Queue(s) \/ a \in s.held)
  <2> DEFINE t == OnDataAck2(s, a)
  <2>1. /\ t.head = s.head /\ t.bufSeq = s.bufSeq /\ t.sent = s.sent /\ t.maxSend = s.maxSend
        /\ t.wait = s.wait /\ t.held = s.held \cup {a} /\ t.sending = s.sending - 1
    BY <1>2 DEF OnDataAck2, SendOK, SendBuf
  <2>2. a \in s.sent /\ a \notin s.held /\ s.sent \subseteq Queue(s)
    BY <1>2 DEF Queue, SendOK, SendBuf
  <2> HIDE DEF t
  <2>3. Waiting(t) = Waiting(s)
    BY <2>1 DEF Waiting, Queue
  <2>4. Outstanding(t) = Outstanding(s) \ {a} /\ a \in Outstanding(s)
    BY <2>1, <2>2 DEF Outstanding
  <2>5. t.sending = Cardinality(Outstanding(t))
    <3>1. IsFiniteSet(Outstanding(s))
      BY <2>2, QueueFinite DEF Outstanding
    <3> QED
      BY <2>1, <2>4, <3>1, FS_RemoveElement DEF Counted
  <2> QED
    BY <2>1, <2>2, <2>3, <2>5 DEF Counted, t
<1> QED
  BY <1>1, <1>2

\* addSendNode, k times, before anything is sent.
Queued(s, k) ==
    [s EXCEPT !.bufSeq  = s.bufSeq + k,
              !.wait    = @ + k,
              !.flagged = @ \cup {s.bufSeq + k - 1}]

LEMMA QueuedCounted ==
    ASSUME NEW s, SendOK(s), Counted(s), NEW k \in Nat
    PROVE  LET t == Queued(s, k)
           IN  /\ Counted(t)
               /\ Waiting(t) = Waiting(s) \cup (s.bufSeq .. (s.bufSeq + k - 1))
               /\ t.head = s.head /\ t.sent = s.sent /\ t.sending = s.sending
<1> DEFINE t == Queued(s, k)
           K == s.bufSeq .. (s.bufSeq + k - 1)
<1>1. /\ s.head \in Nat \ {0} /\ s.bufSeq \in Nat /\ s.head <= s.bufSeq /\ s.wait \in Int
      /\ s.sent \subseteq Queue(s)
  BY DEF SendOK, SendBuf
<1>2. /\ t.head = s.head /\ t.sent = s.sent /\ t.held = s.held /\ t.maxSend = s.maxSend
      /\ t.sending = s.sending /\ t.wait = s.wait + k /\ t.bufSeq = s.bufSeq + k
  BY DEF Queued, SendOK, SendBuf
<1> HIDE DEF t
<1>3. Waiting(t) = Waiting(s) \cup K /\ Waiting(s) \cap K = {}
  BY <1>1, <1>2 DEF Waiting, Queue
<1>4. IsFiniteSet(K) /\ Cardinality(K) = k
  <2>1. PICK b \in Int : b = s.bufSeq + k - 1
    BY <1>1
  <2>2. s.bufSeq \in Int /\ IF s.bufSeq > b THEN k = 0 ELSE k = b - s.bufSeq + 1
    BY <1>1, <2>1
  <2> QED
    BY <2>1, <2>2, FS_Interval
<1>5. IsFiniteSet(Waiting(s)) /\ Cardinality(Waiting(s)) \in Nat
  BY QueueFinite DEF Waiting
<1> HIDE DEF K
<1>6. Cardinality(Waiting(t)) = Cardinality(Waiting(s)) + k
  BY <1>3, <1>4, <1>5, FS_Union, FS_EmptySet
<1> QED
  BY <1>2, <1>3, <1>6 DEF Counted, Outstanding, t, K

-----------------------------------------------------------------------------
(* What a step does to the send buffers and the fragments under way.       *)

InTransit(p) == {m.seq : m \in {d \in net : d.type = "data" /\ d.src = p}}

\* End p sends the fragments N, and G with them, from buffer s.
Sends(p, s, N, G) ==
    /\ N \in SUBSET Queue(s) /\ G \in SUBSET Queue(s) /\ Piggyback(s, N, G)
    /\ SameQueue(SendNode(s, N, G), snd'[p])
    /\ InTransit(p)' \subseteq InTransit(p) \cup N \cup G

FirstOf(s, k, w) == {q \in s.bufSeq .. (s.bufSeq + k - 1) : q < s.bufSeq + Room(s, w)}

Rests(p) == SameQueue(snd[p], snd'[p]) /\ InTransit(p)' \subseteq InTransit(p)

Writes(p) ==
    \E k \in Nat : \E G : Sends(p, Queued(snd[p], k), FirstOf(snd[p], k, window[p]), G)

\* After an acknowledgement, which left buffer s.
GoesOn(p, s, heard) ==
    \E N, G : /\ Sends(p, s, N, G)
              /\ IF heard THEN SendNodeAll(s, window[p], N, G) ELSE N = {} /\ G = {}

HearsAck(p) ==
    \E a \in Nat :
        /\ a <= rcv[Other(p)].first
        /\ GoesOn(p, OnDataAck(snd[p], a), a <= snd[p].maxSend)

HearsAck2(p) ==
    \E a \in Got(rcv[Other(p)]) :
        GoesOn(p, OnDataAck2(snd[p], a), a <= snd[p].maxSend /\ a \in Queue(snd[p]))

HearsRepair(p) ==
    \E m \in net : /\ m.type = "repair" /\ m.src = Other(p)
                   /\ \E G : Sends(p, snd[p], {m.seq} \cap Queue(snd[p]), G)

SenderStep(p) == Rests(p) \/ Writes(p) \/ HearsAck(p) \/ HearsAck2(p) \/ HearsRepair(p)

LEMMA SameQueueItself ==
    ASSUME NEW s PROVE SameQueue(s, s)
  BY DEF SameQueue

LEMMA NewTransit ==
    ASSUME NEW left \in SUBSET net, NEW msgs, Transmit(left, msgs), NEW p, NEW F,
           \A m \in msgs : m.type = "data" /\ m.src = p => m.seq \in F
    PROVE  InTransit(p)' \subseteq InTransit(p) \cup F
<1>1. net' \subseteq net \cup msgs
  BY TransmitFacts
<1> QED
  BY <1>1 DEF InTransit

LEMMA NoTransit ==
    ASSUME NEW left \in SUBSET net, NEW msgs, Transmit(left, msgs), NEW p,
           \A m \in msgs : m.type # "data" \/ m.src # p
    PROVE  InTransit(p)' \subseteq InTransit(p)
<1>1. net' \subseteq net \cup msgs
  BY TransmitFacts
<1> QED
  BY <1>1 DEF InTransit

\* A handler of end o that sends from buffer s, and leaves t.
LEMMA EndSends ==
    ASSUME IInv, NEW o \in Peers, NEW s, NEW N \in SUBSET Queue(s), NEW G \in SUBSET Queue(s),
           Piggyback(s, N, G),
           NEW t, snd' = [snd EXCEPT ![o] = t], SameQueue(SendNode(s, N, G), t),
           NEW left \in SUBSET net, NEW u, NEW msgs, \A m \in msgs : m.type # "data",
           Transmit(left, DataOf(o, u, N \cup G) \cup msgs)
    PROVE  Sends(o, s, N, G) /\ \A p \in Peers : p # o => Rests(p)
<1>1. \A m \in DataOf(o, u, N \cup G) : m.src = o /\ m.seq \in N \cup G
  BY DEF DataOf, DataMsg
<1>2. snd'[o] = t /\ \A p \in Peers : p # o => snd'[p] = snd[p]
  BY DEF IInv, TypeOK
<1> DEFINE all == DataOf(o, u, N \cup G) \cup msgs
<1>3. \A m \in all : m.type = "data" => m.src = o /\ m.seq \in N \cup G
  BY <1>1
<1>4. Transmit(left, all)
  OBVIOUS
<1> HIDE DEF all
<1>5. InTransit(o)' \subseteq InTransit(o) \cup (N \cup G)
  BY <1>3, <1>4, NewTransit
<1>6. ASSUME NEW p \in Peers, p # o PROVE InTransit(p)' \subseteq InTransit(p)
  <2>1. \A m \in all : m.type # "data" \/ m.src # p
    BY <1>3, <1>6
  <2> QED
    BY <1>4, <2>1, NoTransit
<1>7. Sends(o, s, N, G)
  BY <1>2, <1>5 DEF Sends
<1>8. ASSUME NEW p \in Peers, p # o PROVE Rests(p)
  BY <1>2, <1>6, <1>8, SameQueueItself DEF Rests
<1> QED
  BY <1>7, <1>8

\* A step that sends no fragments and leaves the queues alone.
LEMMA EndsRest ==
    ASSUME IInv, NEW o \in Peers, NEW t, SameQueue(snd[o], t), snd' = [snd EXCEPT ![o] = t],
           NEW left \in SUBSET net, NEW msgs, \A m \in msgs : m.type # "data", Transmit(left, msgs)
    PROVE  \A p \in Peers : Rests(p)
<1>1. snd'[o] = t /\ \A p \in Peers : p # o => snd'[p] = snd[p]
  BY DEF IInv, TypeOK
<1>2. ASSUME NEW p \in Peers PROVE Rests(p)
  <2>1. InTransit(p)' \subseteq InTransit(p)
    BY NoTransit
  <2>2. SameQueue(snd[p], snd'[p])
    BY <1>1, SameQueueItself
  <2> QED
    BY <2>1, <2>2 DEF Rests
<1> QED
  BY <1>2

LEMMA SendDataSends ==
    ASSUME IInv, NEW o \in Peers, NEW k \in 1 .. MaxFragments, SendData(o, k)
    PROVE  \A p \in Peers : SenderStep(p)
<1> DEFINE s == snd[o]
           s1 == Queued(s, k)
           N == FirstOf(s, k, window[o])
<1>1. k \in Nat /\ SendOK(s)
  BY BoundsAreNat DEF IInv, BuffersOK
<1>2. PICK G \in SUBSET Queue(s), late \in BOOLEAN :
        /\ Piggyback(s, N, G)
        /\ snd' = [snd EXCEPT ![o] = [SendNode(s1, N, G) EXCEPT !.timer = TRUE]]
        /\ Transmit(net, DataOf(o, s1, N \cup G) \cup
              IF late THEN {CtlMsg("syn", o, IF N = {} THEN s.maxSend ELSE s.bufSeq)} ELSE {})
  BY DEF SendData, Queued, FirstOf
<1>3. SendOK(s1) /\ Queue(s1) = Queue(s) \cup (s.bufSeq .. (s.bufSeq + k - 1)) /\ s1.urgent = s.urgent
  <2>1. Covered(s, Got(rcv[Other(o)]))
    BY DEF IInv, NothingLost, Covered, Received
  <2>2. s1.urgent = s.urgent
    BY <1>1 DEF Queued, SendOK, SendBuf
  <2> HIDE DEF s
  <2> QED
    BY <1>1, <2>1, <2>2, AppendFacts DEF Queued
<1>4. N \in SUBSET Queue(s1) /\ G \in SUBSET Queue(s1) /\ Piggyback(s1, N, G)
  BY <1>2, <1>3 DEF FirstOf, Piggyback
<1> DEFINE u == SendNode(s1, N, G)
           t == [u EXCEPT !.timer = TRUE]
           msgs == IF late THEN {CtlMsg("syn", o, IF N = {} THEN s.maxSend ELSE s.bufSeq)} ELSE {}
<1>5. \A m \in msgs : m.type # "data"
  BY DEF CtlMsg
<1>6. SameQueue(u, t)
  <2>1. SendOK(u)
    <3> HIDE DEF s1, N
    <3> QED
      BY <1>3, <1>4, SendNodeFacts
  <2> HIDE DEF u
  <2> QED
    BY <2>1 DEF SameQueue, SendOK, SendBuf
<1>7. snd' = [snd EXCEPT ![o] = t] /\ Transmit(net, DataOf(o, s1, N \cup G) \cup msgs)
  BY <1>2
<1> HIDE DEF s1, N, t, msgs
<1>8. Sends(o, s1, N, G) /\ \A p \in Peers : p # o => Rests(p)
  BY <1>4, <1>5, <1>6, <1>7, EndSends
<1>9. Writes(o)
  BY <1>1, <1>8 DEF Writes, s1, N
<1> QED
  BY <1>8, <1>9 DEF SenderStep

\* A handler that leaves what sendNode leaves.
LEMMA PlainSends ==
    ASSUME IInv, NEW o \in Peers, NEW s, NEW N \in SUBSET Queue(s), NEW G \in SUBSET Queue(s),
           Piggyback(s, N, G), snd' = [snd EXCEPT ![o] = SendNode(s, N, G)],
           NEW left \in SUBSET net, NEW msgs, \A d \in msgs : d.type # "data",
           Transmit(left, DataOf(o, s, N \cup G) \cup msgs)
    PROVE  Sends(o, s, N, G) /\ \A p \in Peers : p # o => Rests(p)
<1>1. SameQueue(SendNode(s, N, G), SendNode(s, N, G))
  BY SameQueueItself
<1> QED
  BY <1>1, EndSends

\* What the handlers of acknowledgements have in common.
LEMMA AckSends ==
    ASSUME IInv, NEW m \in net, NEW dup \in BOOLEAN, NEW o, o = Other(m.src), NEW s, NEW heard,
           NEW msgs, \A d \in msgs : d.type # "data",
           NEW N \in SUBSET Queue(s), NEW G \in SUBSET Queue(s),
           IF heard THEN SendNodeAll(s, window[o], N, G) ELSE N = {} /\ G = {},
           snd' = [snd EXCEPT ![o] = SendNode(s, N, G)],
           Transmit(Left(m, dup), DataOf(o, s, N \cup G) \cup msgs)
    PROVE  GoesOn(o, s, heard) /\ \A p \in Peers : p # o => Rests(p)
<1>1. o \in Peers /\ Left(m, dup) \in SUBSET net
  BY ArrivalFacts
<1>2. Piggyback(s, N, G)
  BY DEF SendNodeAll, Piggyback
<1>4. Sends(o, s, N, G) /\ \A p \in Peers : p # o => Rests(p)
  BY <1>1, <1>2, PlainSends
<1> QED
  BY <1>4 DEF GoesOn

LEMMA RecvAckSends ==
    ASSUME IInv, NEW m \in net, NEW dup \in BOOLEAN, NEW o, o = Other(m.src), RecvAck(o, m, dup)
    PROVE  \A p \in Peers : SenderStep(p)
<1> DEFINE s == OnDataAck(snd[o], m.seq)
<1>1. /\ o \in Peers /\ SendOK(snd[o]) /\ m.seq \in Nat /\ m.seq <= rcv[Other(o)].first
  BY ArrivalFacts DEF RecvAck, DatagramWith, Reports
<1>2. s.maxSend = snd[o].maxSend
  BY <1>1 DEF OnDataAck, SendOK, SendBuf
<1>3. PICK N \in SUBSET Queue(s), G \in SUBSET Queue(s) :
        /\ IF m.seq <= s.maxSend THEN SendNodeAll(s, window[o], N, G) ELSE N = {} /\ G = {}
        /\ snd' = [snd EXCEPT ![o] = SendNode(s, N, G)]
        /\ Transmit(Left(m, dup), DataOf(o, s, N \cup G))
  BY DEF RecvAck
<1>4. Transmit(Left(m, dup), DataOf(o, s, N \cup G) \cup {})
  BY <1>3
<1>5. PICK heard : heard = (m.seq <= snd[o].maxSend)
  OBVIOUS
<1>6. IF heard THEN SendNodeAll(s, window[o], N, G) ELSE N = {} /\ G = {}
  BY <1>2, <1>3, <1>5
<1> HIDE DEF s
<1>7. GoesOn(o, s, heard) /\ \A p \in Peers : p # o => Rests(p)
  BY <1>3, <1>4, <1>6, AckSends
<1>8. HearsAck(o)
  BY <1>1, <1>5, <1>7 DEF HearsAck, s
<1> QED
  BY <1>7, <1>8 DEF SenderStep

LEMMA RecvDataSends ==
    ASSUME IInv, NEW m \in net, NEW dup \in BOOLEAN, NEW o, o = Other(m.src), RecvData(o, m, dup)
    PROVE  \A p \in Peers : SenderStep(p)
<1> DEFINE s == OnDataAck(snd[o], m.ack)
           x == [seq |-> m.seq, pkt |-> m.pkt]
<1>1. /\ o \in Peers /\ SendOK(snd[o]) /\ m.ack \in Nat /\ m.ack <= rcv[Other(o)].first
  BY ArrivalFacts DEF RecvData, DatagramWith, Reports
<1>2. s.maxSend = snd[o].maxSend
  BY <1>1 DEF OnDataAck, SendOK, SendBuf
<1>3. PICK N \in SUBSET Queue(s), G \in SUBSET Queue(s), cap \in RepairCaps :
        LET r == GetAckId(rcv[o], N)
        IN  /\ IF m.ack <= s.maxSend THEN SendNodeAll(s, window[o], N, G) ELSE N = {} /\ G = {}
            /\ snd' = [snd EXCEPT ![o] = SendNode(s, N, G)]
            /\ rcv' = [rcv EXCEPT ![o] = AddRecvData(r, x, cap)]
            /\ app' = IF IsNext(r, m.seq) THEN [app EXCEPT ![o] = Assemble(r, @, x)] ELSE app
            /\ Transmit(Left(m, dup), DataOf(o, s, N \cup G) \cup Replies(o, r, x, cap))
  BY DEF RecvData
<1>4. PICK r : r = GetAckId(rcv[o], N)
  OBVIOUS
<1>5. \A d \in Replies(o, r, x, cap) : d.type # "data"
  BY DEF Replies, AckIfDue, CtlMsg
<1>6. PICK heard : heard = (m.ack <= snd[o].maxSend)
  OBVIOUS
<1>7. IF heard THEN SendNodeAll(s, window[o], N, G) ELSE N = {} /\ G = {}
  BY <1>2, <1>3, <1>6
<1>8. /\ snd' = [snd EXCEPT ![o] = SendNode(s, N, G)]
      /\ Transmit(Left(m, dup), DataOf(o, s, N \cup G) \cup Replies(o, r, x, cap))
  BY <1>3, <1>4
<1> HIDE DEF s, x
<1>9. GoesOn(o, s, heard) /\ \A p \in Peers : p # o => Rests(p)
  BY <1>5, <1>7, <1>8, AckSends
<1>10. HearsAck(o)
  BY <1>1, <1>6, <1>9 DEF HearsAck, s
<1> QED
  BY <1>9, <1>10 DEF SenderStep

LEMMA RecvAck2Sends ==
    ASSUME IInv, NEW m \in net, NEW dup \in BOOLEAN, NEW o, o = Other(m.src), RecvAck2(o, m, dup)
    PROVE  \A p \in Peers : SenderStep(p)
<1> DEFINE s == OnDataAck2(snd[o], m.seq)
<1>1. o \in Peers /\ SendOK(snd[o]) /\ m.seq \in Got(rcv[Other(o)])
  BY ArrivalFacts DEF RecvAck2, Reports
<1>2. s.maxSend = snd[o].maxSend /\ Queue(s) = Queue(snd[o])
  BY <1>1 DEF OnDataAck2, SendOK, SendBuf, Queue
<1>3. PICK N \in SUBSET Queue(s), G \in SUBSET Queue(s) :
        /\ IF m.seq <= s.maxSend /\ m.seq \in Queue(s)
           THEN SendNodeAll(s, window[o], N, G) ELSE N = {} /\ G = {}
        /\ snd' = [snd EXCEPT ![o] = SendNode(s, N, G)]
        /\ Transmit(Left(m, dup), DataOf(o, s, N \cup G))
  BY DEF RecvAck2
<1>4. Transmit(Left(m, dup), DataOf(o, s, N \cup G) \cup {})
  BY <1>3
<1>5. PICK heard \in BOOLEAN : heard = (m.seq <= snd[o].maxSend /\ m.seq \in Queue(snd[o]))
  OBVIOUS
<1>6. IF heard THEN SendNodeAll(s, window[o], N, G) ELSE N = {} /\ G = {}
  BY <1>2, <1>3, <1>5
<1> HIDE DEF s
<1>7. GoesOn(o, s, heard) /\ \A p \in Peers : p # o => Rests(p)
  BY <1>3, <1>4, <1>6, AckSends
<1>8. HearsAck2(o)
  BY <1>1, <1>5, <1>7 DEF HearsAck2, s
<1> QED
  BY <1>7, <1>8 DEF SenderStep

LEMMA RecvRepairSends ==
    ASSUME IInv, NEW m \in net, NEW dup \in BOOLEAN, NEW o, o = Other(m.src), RecvRepair(o, m, dup)
    PROVE  \A p \in Peers : SenderStep(p)
<1> DEFINE s == snd[o]
           N == {m.seq} \cap Queue(s)
           msgs == IF m.seq >= s.bufSeq THEN {CtlMsg("syn", o, s.bufSeq - 1)} ELSE {}
<1>1. o \in Peers /\ m.src = Other(o) /\ m.type = "repair" /\ Left(m, dup) \in SUBSET net
  BY ArrivalFacts DEF RecvRepair
<1>2. PICK G \in SUBSET Queue(s) :
        /\ Piggyback(s, N, G)
        /\ snd' = [snd EXCEPT ![o] = SendNode(s, N, G)]
        /\ Transmit(Left(m, dup), DataOf(o, s, N \cup G) \cup msgs)
  BY DEF RecvRepair
<1>3. \A d \in msgs : d.type # "data"
  BY DEF CtlMsg
<1>4. N \in SUBSET Queue(s)
  OBVIOUS
<1> HIDE DEF N, msgs, s
<1>8. Sends(o, s, N, G) /\ \A p \in Peers : p # o => Rests(p)
  BY <1>1, <1>2, <1>3, <1>4, PlainSends
<1>6. HearsRepair(o)
  BY <1>1, <1>8 DEF HearsRepair, N, s
<1> QED
  BY <1>6, <1>8 DEF SenderStep

\* Steps that send no fragments: a SYN arrives, time passes, settings change,
\* datagrams are lost.
LEMMA QuietRests ==
    ASSUME IInv,
           \/ \E m \in net, dup \in BOOLEAN : RecvSyn(Other(m.src), m, dup)
           \/ \E o \in Peers : \/ ProcTimerEvent(o) \/ SynTimeElapses(o) \/ RttElapses(o)
                               \/ SetWindow(o) \/ SetUrgent(o)
           \/ \E m \in net : Lose(m)
           \/ UNCHANGED vars
    PROVE  \A p \in Peers : Rests(p)
<1>1. \A o \in Peers : snd[o] \in SendBuf
  BY DEF IInv, TypeOK
<1>2. ASSUME snd' = snd, net' \subseteq net PROVE \A p \in Peers : Rests(p)
  <2>1. \A p \in Peers : InTransit(p)' \subseteq InTransit(p)
    BY <1>2 DEF InTransit
  <2> QED
    BY <1>2, <2>1, SameQueueItself DEF Rests
<1>3. ASSUME NEW m \in net, NEW dup \in BOOLEAN, RecvSyn(Other(m.src), m, dup)
      PROVE  \A p \in Peers : Rests(p)
  <2> DEFINE o == Other(m.src)
  <2>1. o \in Peers /\ Left(m, dup) \in SUBSET net
    BY ArrivalFacts
  <2>2. PICK msgs : (\A d \in msgs : d.type # "data") /\ Transmit(Left(m, dup), msgs)
    <3>1. \A r, cap : \A d \in {CtlMsg("repair", o, q) : q \in Repairs(r, cap)} : d.type # "data"
      BY DEF CtlMsg
    <3>2. \A q : \A d \in {CtlMsg("ack", o, q)} : d.type # "data"
      BY DEF CtlMsg
    <3>3. \/ \E q : Transmit(Left(m, dup), {CtlMsg("ack", o, q)})
          \/ \E r, cap : Transmit(Left(m, dup), {CtlMsg("repair", o, q) : q \in Repairs(r, cap)})
      BY <1>3 DEF RecvSyn
    <3> QED
      BY <3>1, <3>2, <3>3
  <2>3. snd' = [snd EXCEPT ![o] = snd[o]] /\ SameQueue(snd[o], snd[o])
    BY <1>3, SameQueueItself DEF RecvSyn, IInv, TypeOK
  <2> QED
    BY <2>1, <2>2, <2>3, EndsRest
<1>4. ASSUME NEW o \in Peers, ProcTimerEvent(o) PROVE \A p \in Peers : Rests(p)
  <2> DEFINE b == (Queue(snd[o]) # {})
             t == [snd[o] EXCEPT !.timer = b]
  <2>1. SameQueue(snd[o], t)
    BY <1>1 DEF SameQueue, SendBuf
  <2>2. snd' = [snd EXCEPT ![o] = t]
    BY <1>1, <1>4 DEF ProcTimerEvent, IInv, TypeOK
  <2>3. PICK msgs : (\A d \in msgs : d.type # "data") /\ Transmit(net, msgs)
    <3>1. \A d \in {CtlMsg("syn", o, snd[o].maxSend)} : d.type # "data"
      BY DEF CtlMsg
    <3>2. Transmit(net, {CtlMsg("syn", o, snd[o].maxSend)}) \/ Transmit(net, {})
      BY <1>4 DEF ProcTimerEvent
    <3> QED
      BY <3>1, <3>2
  <2> HIDE DEF t
  <2> QED
    BY <2>1, <2>2, <2>3, EndsRest
<1>5. ASSUME NEW o \in Peers, NEW t, SameQueue(snd[o], t), snd' = [snd EXCEPT ![o] = t], net' = net
      PROVE  \A p \in Peers : Rests(p)
  <2>1. \A p \in Peers : InTransit(p)' \subseteq InTransit(p)
    BY <1>5 DEF InTransit
  <2>2. snd'[o] = t /\ \A p \in Peers : p # o => snd'[p] = snd[p]
    BY <1>5 DEF IInv, TypeOK
  <2>3. ASSUME NEW p \in Peers PROVE SameQueue(snd[p], snd'[p])
    BY <1>5, <2>2, SameQueueItself
  <2> QED
    BY <2>1, <2>3 DEF Rests
<1>6. ASSUME NEW o \in Peers, SynTimeElapses(o) PROVE \A p \in Peers : Rests(p)
  <2> DEFINE t == [snd[o] EXCEPT !.quiet = TRUE]
  <2>1. SameQueue(snd[o], t) /\ snd' = [snd EXCEPT ![o] = t] /\ net' = net
    BY <1>1, <1>6 DEF SynTimeElapses, SameQueue, SendBuf, IInv, TypeOK
  <2> HIDE DEF t
  <2> QED
    BY <1>5, <2>1
<1>7. ASSUME NEW o \in Peers, SetUrgent(o) PROVE \A p \in Peers : Rests(p)
  <2> DEFINE b == ~ snd[o].urgent
             t == [snd[o] EXCEPT !.urgent = b]
  <2>1. SameQueue(snd[o], t) /\ snd' = [snd EXCEPT ![o] = t] /\ net' = net
    BY <1>1, <1>7 DEF SetUrgent, SameQueue, SendBuf, IInv, TypeOK
  <2> HIDE DEF t
  <2> QED
    BY <1>5, <2>1
<1>8. ASSUME \/ \E o \in Peers : RttElapses(o) \/ SetWindow(o)
             \/ \E m \in net : Lose(m)
             \/ UNCHANGED vars
      PROVE  snd' = snd /\ net' \subseteq net
  BY <1>8 DEF RttElapses, SetWindow, Lose, vars
<1> QED
  BY <1>2, <1>3, <1>4, <1>6, <1>7, <1>8

LEMMA SenderSteps ==
    ASSUME IInv, [Next]_vars, NEW p \in Peers
    PROVE  SenderStep(p)
<1>1. ASSUME NEW o \in Peers, NEW k \in 1 .. MaxFragments, SendData(o, k)
      PROVE  SenderStep(p)
  BY <1>1, SendDataSends
<1>2. ASSUME NEW m \in net, NEW dup \in BOOLEAN, Receive(m, dup), ~RecvSyn(Other(m.src), m, dup)
      PROVE  SenderStep(p)
  <2> DEFINE o == Other(m.src)
  <2>1. RecvData(o, m, dup) \/ RecvAck(o, m, dup) \/ RecvAck2(o, m, dup) \/ RecvRepair(o, m, dup)
    BY <1>2 DEF Receive
  <2> HIDE DEF o
  <2> QED
    BY <2>1, RecvDataSends, RecvAckSends, RecvAck2Sends, RecvRepairSends DEF o
<1>3. ASSUME Rests(p) PROVE SenderStep(p)
  BY <1>3 DEF SenderStep
<1> QED
  BY <1>1, <1>2, <1>3, QuietRests DEF Next

-----------------------------------------------------------------------------
(* The counters agree with the queue.  Alone this is not inductive: an      *)
(* acknowledgement takes every fragment up to it off m_nSendingCount, so    *)
(* all that went out, and all that arrived, must be counted as sent.        *)

\* The fragments of end p that left it: under way, or received.
Gone(p) == InTransit(p) \cup Got(rcv[Other(p)])

WereSent(s, gone) == \A q \in gone : q < s.head \/ q \in s.sent

CountInv ==
    \A p \in Peers : Counted(snd[p]) /\ ~snd[p].urgent /\ WereSent(snd[p], Gone(p))

Ready(s, gone) == SendOK(s) /\ Counted(s) /\ ~s.urgent /\ WereSent(s, gone)

LEMMA GoneIsNat ==
    ASSUME IInv, NEW p \in Peers
    PROVE  Gone(p) \subseteq Nat
<1>1. Other(p) \in Peers
  BY OtherFacts
<1>2. Got(rcv[Other(p)]) \subseteq Nat
  BY <1>1 DEF IInv, TypeOK, RecvBuf, Got, AheadSeqs
<1>3. InTransit(p) \subseteq Nat
  BY DEF IInv, TypeOK, DatagramWith, InTransit
<1> QED
  BY <1>2, <1>3 DEF Gone

\* Nothing counts as gone but what was sent: a receiver takes fragments from
\* the network only.
LEMMA GoneGrows ==
    ASSUME IInv, [Next]_vars, NEW p \in Peers, NEW F, InTransit(p)' \subseteq InTransit(p) \cup F
    PROVE  Gone(p)' \subseteq Gone(p) \cup F
<1> DEFINE o == Other(p)
<1>1. o \in Peers /\ Other(o) = p
  BY OtherFacts
<1>2. Got(rcv'[o]) \subseteq Got(rcv[o]) \cup InTransit(p)
  <2>1. CASE \E m \in net, dup \in BOOLEAN : o = Other(m.src) /\ RecvData(o, m, dup)
    <3>1. PICK m \in net, dup \in BOOLEAN : o = Other(m.src) /\ RecvData(o, m, dup)
      BY <2>1
    <3> HIDE DEF o
    <3>2. /\ m.type = "data" /\ m.src = Other(o)
          /\ Got(rcv'[o]) = Got(rcv[o]) \/ Got(rcv'[o]) = Got(rcv[o]) \cup {m.seq}
      BY <3>1, DataReceivedIsThatData
    <3>3. m.seq \in InTransit(p)
      BY <1>1, <3>2 DEF InTransit
    <3> QED
      BY <3>2, <3>3
  <2>2. CASE Next /\ ~ \E m \in net, dup \in BOOLEAN : o = Other(m.src) /\ RecvData(o, m, dup)
    <3> HIDE DEF o
    <3>1. Got(rcv'[o]) = Got(rcv[o])
      BY <1>1, <2>2, OnlyDataIsReceived
    <3> QED
      BY <3>1
  <2>3. CASE UNCHANGED vars
    BY <2>3 DEF vars
  <2> QED
    BY <2>1, <2>2, <2>3
<1>3. Gone(p)' = InTransit(p)' \cup Got(rcv'[o])
  BY DEF Gone, Got, AheadSeqs
<1> QED
  BY <1>2, <1>3 DEF Gone

LEMMA QueuedReady ==
    ASSUME NEW s, NEW gone, Ready(s, gone), NEW k \in Nat, NEW got, Covered(s, got)
    PROVE  Ready(Queued(s, k), gone)
<1> DEFINE t == Queued(s, k)
<1>1. SendOK(t)
  <2>1. SendOK(s)
    BY DEF Ready
  <2> QED
    BY <2>1, AppendFacts DEF Queued
<1>2. Counted(t) /\ t.head = s.head /\ t.sent = s.sent
  BY QueuedCounted DEF Ready
<1>3. t.urgent = s.urgent
  BY DEF Queued, Ready, SendOK, SendBuf
<1> QED
  BY <1>1, <1>2, <1>3 DEF Ready, WereSent

LEMMA AckReady ==
    ASSUME IInv, NEW p \in Peers, Ready(snd[p], Gone(p)),
           NEW a \in Nat, a <= rcv[Other(p)].first
    PROVE  Ready(OnDataAck(snd[p], a), Gone(p))
<1> DEFINE s == snd[p]
           t == OnDataAck(s, a)
<1>1. SendOK(s) /\ Counted(s) /\ Other(p) \in Peers
  BY OtherFacts DEF Ready
<1>2. RecvOK(rcv[Other(p)]) /\ Covered(s, Got(rcv[Other(p)]))
  BY <1>1 DEF IInv, BuffersOK, NothingLost, Covered, Received
<1>3. SendOK(t)
  BY <1>1, <1>2, OnDataAckFacts
<1>4. \A q \in 1 .. a : q < s.head \/ q \in s.sent
  <2>1. rcv[Other(p)].first \in Nat
    BY <1>2 DEF RecvOK, RecvBuf
  <2>2. 1 .. a \subseteq Gone(p)
    BY <2>1 DEF Gone, Got
  <2> QED
    BY <2>2 DEF Ready, WereSent
<1>5. /\ Counted(t) /\ s.head <= t.head
      /\ \A q \in s.sent : q < t.head \/ q \in t.sent
  <2> HIDE DEF s
  <2> QED
    BY <1>1, <1>4, OnDataAckCounted
<1>6. t.urgent = s.urgent
  BY <1>1 DEF OnDataAck, SendOK, SendBuf
<1>7. WereSent(t, Gone(p))
  <2>1. s.head \in Nat /\ t.head \in Nat
    BY <1>1, <1>3 DEF SendOK, SendBuf
  <2> QED
    BY <1>5, <2>1, GoneIsNat DEF WereSent, Ready
<1> QED
  BY <1>3, <1>5, <1>6, <1>7 DEF Ready

LEMMA Ack2Ready ==
    ASSUME IInv, NEW p \in Peers, Ready(snd[p], Gone(p)), NEW a \in Got(rcv[Other(p)])
    PROVE  Ready(OnDataAck2(snd[p], a), Gone(p))
<1> DEFINE s == snd[p]
           t == OnDataAck2(s, a)
<1>1. SendOK(s) /\ Counted(s) /\ Other(p) \in Peers /\ a \in Gone(p)
  BY OtherFacts DEF Ready, Gone
<1>2. a \in Nat /\ Covered(s, Got(rcv[Other(p)]))
  BY <1>1, GoneIsNat DEF IInv, NothingLost, Covered, Received
<1>3. SendOK(t)
  BY <1>1, <1>2, OnDataAck2Facts
<1>4. Counted(t) /\ t.head = s.head /\ t.sent = s.sent
  <2>1. a < s.head \/ a \in s.sent
    BY <1>1 DEF Ready, WereSent
  <2> HIDE DEF s
  <2> QED
    BY <1>1, <2>1, OnDataAck2Counted
<1>5. t.urgent = s.urgent
  BY <1>1 DEF OnDataAck2, SendOK, SendBuf
<1> QED
  BY <1>3, <1>4, <1>5 DEF Ready, WereSent

\* What sendNode leaves when every fragment goes out in a datagram of its own.
LEMMA SendsCounted ==
    ASSUME NEW p, NEW s, Ready(s, Gone(p)), NEW N, NEW G, Sends(p, s, N, G),
           Gone(p)' \subseteq Gone(p) \cup (N \cup G)
    PROVE  /\ Counted(snd'[p]) /\ WereSent(snd'[p], Gone(p)')
           /\ Waiting(snd'[p]) = Waiting(s) \ N
           /\ snd'[p].sending = s.sending + Cardinality(N \ s.sent)
<1> DEFINE u == snd'[p]
           t == SendNode(s, N, {})
<1>1. SendOK(s) /\ N \in SUBSET Queue(s) /\ G = {} /\ SameQueue(t, u)
  BY DEF Sends, Piggyback, Ready
<1>2. /\ Counted(t) /\ Waiting(t) = Waiting(s) \ N
      /\ t.sending = s.sending + Cardinality(N \ s.sent)
      /\ t.head = s.head /\ t.sent = s.sent \cup N
  BY <1>1, SendNodeCounted DEF Ready
<1> HIDE DEF t, u
<1>4. Counted(u) /\ Waiting(u) = Waiting(t) /\ u.sending = t.sending
  BY <1>1, <1>2, SameQueueCounted DEF SameQueue
<1>5. WereSent(u, Gone(p)')
  BY <1>1, <1>2 DEF WereSent, SameQueue, Ready
<1> QED
  BY <1>2, <1>4, <1>5 DEF u

LEMMA InvReady ==
    ASSUME IInv, CountInv, NEW p \in Peers
    PROVE  Ready(snd[p], Gone(p)) /\ Covered(snd[p], Got(rcv[Other(p)]))
  BY DEF IInv, BuffersOK, CountInv, Ready, NothingLost, Covered, Received

\* Whatever a handler sends, it sends from a buffer whose counters agree.
LEMMA SendsFromReady ==
    ASSUME IInv, CountInv, NEW p \in Peers, SenderStep(p), ~Rests(p)
    PROVE  \E s, N, G : Ready(s, Gone(p)) /\ Sends(p, s, N, G)
<1>1. Ready(snd[p], Gone(p)) /\ Covered(snd[p], Got(rcv[Other(p)]))
  BY InvReady
<1>2. CASE Writes(p)
  <2>0. PICK k \in Nat : \E G : Sends(p, Queued(snd[p], k), FirstOf(snd[p], k, window[p]), G)
    BY <1>2 DEF Writes
  <2>1. PICK G : Sends(p, Queued(snd[p], k), FirstOf(snd[p], k, window[p]), G)
    BY <2>0
  <2>2. Ready(Queued(snd[p], k), Gone(p))
    BY <1>1, QueuedReady
  <2> QED
    BY <2>1, <2>2
<1>3. CASE HearsAck(p)
  <2>1. PICK a \in Nat : /\ a <= rcv[Other(p)].first
                         /\ GoesOn(p, OnDataAck(snd[p], a), a <= snd[p].maxSend)
    BY <1>3 DEF HearsAck
  <2>2. Ready(OnDataAck(snd[p], a), Gone(p))
    BY <1>1, <2>1, AckReady
  <2> QED
    BY <2>1, <2>2 DEF GoesOn
<1>4. CASE HearsAck2(p)
  <2>1. PICK a \in Got(rcv[Other(p)]) :
           GoesOn(p, OnDataAck2(snd[p], a), a <= snd[p].maxSend /\ a \in Queue(snd[p]))
    BY <1>4 DEF HearsAck2
  <2>2. Ready(OnDataAck2(snd[p], a), Gone(p))
    BY <1>1, Ack2Ready
  <2> QED
    BY <2>1, <2>2 DEF GoesOn
<1>5. CASE HearsRepair(p)
  BY <1>1, <1>5 DEF HearsRepair
<1> QED
  BY <1>2, <1>3, <1>4, <1>5 DEF SenderStep

\* Without SetUrgent no send buffer enters the urgent mode.
LEMMA UrgentStays ==
    ASSUME NoUrgentMode, IInv, [Next]_vars, NEW p \in Peers, ~snd[p].urgent
    PROVE  ~snd'[p].urgent
<1>1. \A o \in Peers : SendOK(snd[o]) /\ snd[o] \in SendBuf
  BY DEF IInv, BuffersOK, SendOK
<1>2. ASSUME NEW o \in Peers, NEW t, t.urgent = snd[o].urgent, snd' = [snd EXCEPT ![o] = t]
      PROVE  ~snd'[p].urgent
  BY <1>2 DEF IInv, TypeOK
<1>3. ASSUME NEW s, SendOK(s), NEW N \in SUBSET Queue(s), NEW G \in SUBSET Queue(s)
      PROVE  SendNode(s, N, G).urgent = s.urgent
  BY <1>3 DEF SendNode, SendOK, SendBuf
<1>4. ASSUME NEW o \in Peers, NEW k \in 1 .. MaxFragments, SendData(o, k)
      PROVE  ~snd'[p].urgent
  <2> DEFINE s1 == Queued(snd[o], k)
             N == FirstOf(snd[o], k, window[o])
  <2>1. PICK G \in SUBSET Queue(snd[o]) :
           snd' = [snd EXCEPT ![o] = [SendNode(s1, N, G) EXCEPT !.timer = TRUE]]
    BY <1>4 DEF SendData, Queued, FirstOf
  <2>2. /\ SendOK(s1) /\ s1.urgent = snd[o].urgent
        /\ Queue(s1) = Queue(snd[o]) \cup (snd[o].bufSeq .. (snd[o].bufSeq + k - 1))
    <3>1. SendOK(snd[o]) /\ k \in Nat /\ Covered(snd[o], Got(rcv[Other(o)]))
      BY <1>1, BoundsAreNat DEF IInv, NothingLost, Covered, Received
    <3>2. s1.urgent = snd[o].urgent
      BY <1>1 DEF Queued, SendBuf
    <3> QED
      BY <3>1, <3>2, AppendFacts, ZenonT(30) DEF Queued
  <2>3. N \in SUBSET Queue(s1) /\ G \in SUBSET Queue(s1)
    BY <2>2 DEF FirstOf
  <2> DEFINE u == SendNode(s1, N, G)
             t == [u EXCEPT !.timer = TRUE]
  <2> HIDE DEF s1, N
  <2>4. SendOK(u) /\ u.urgent = s1.urgent
    BY <1>3, <2>2, <2>3, SendNodeFacts
  <2> HIDE DEF u
  <2>5. t.urgent = snd[o].urgent
    BY <2>2, <2>4 DEF SendOK, SendBuf
  <2>6. snd' = [snd EXCEPT ![o] = t]
    BY <2>1 DEF u
  <2> HIDE DEF t
  <2> QED
    BY <1>2, <2>5, <2>6
<1>5. ASSUME NEW m \in net, NEW dup \in BOOLEAN, Receive(m, dup)
      PROVE  ~snd'[p].urgent
  <2> DEFINE o == Other(m.src)
             b == snd[o]
  <2>1. o \in Peers /\ SendOK(b) /\ b \in SendBuf
    BY <1>1, ArrivalFacts
  <2>2. CASE RecvSyn(o, m, dup)
    BY <2>2 DEF RecvSyn
  <2>3. CASE ~RecvSyn(o, m, dup)
    <3>1. PICK s : /\ SendOK(s) /\ s.urgent = b.urgent
                   /\ \E N \in SUBSET Queue(s), G \in SUBSET Queue(s) :
                         snd' = [snd EXCEPT ![o] = SendNode(s, N, G)]
      <4>1. CASE RecvAck(o, m, dup)
        <5>1. SendOK(OnDataAck(b, m.seq)) /\ OnDataAck(b, m.seq).urgent = b.urgent
          <6>1. /\ m.seq \in Nat /\ m.seq <= rcv[Other(o)].first
                /\ RecvOK(rcv[Other(o)]) /\ Covered(b, Got(rcv[Other(o)]))
            BY <4>1, ArrivalFacts DEF RecvAck, DatagramWith, Reports
          <6>2. OnDataAck(b, m.seq).urgent = b.urgent
            BY <2>1 DEF OnDataAck, SendBuf
          <6> HIDE DEF b
          <6> QED
            BY <2>1, <6>1, <6>2, OnDataAckFacts
        <5> QED
          BY <4>1, <5>1 DEF RecvAck
      <4>2. CASE RecvData(o, m, dup)
        <5>1. SendOK(OnDataAck(b, m.ack)) /\ OnDataAck(b, m.ack).urgent = b.urgent
          <6>1. /\ m.ack \in Nat /\ m.ack <= rcv[Other(o)].first
                /\ RecvOK(rcv[Other(o)]) /\ Covered(b, Got(rcv[Other(o)]))
            BY <4>2, ArrivalFacts DEF RecvData, DatagramWith, Reports
          <6>2. OnDataAck(b, m.ack).urgent = b.urgent
            BY <2>1 DEF OnDataAck, SendBuf
          <6> HIDE DEF b
          <6> QED
            BY <2>1, <6>1, <6>2, OnDataAckFacts
        <5>2. PICK s : s = OnDataAck(b, m.ack)
          OBVIOUS
        <5>3. \E N \in SUBSET Queue(s), G \in SUBSET Queue(s) :
                 snd' = [snd EXCEPT ![o] = SendNode(s, N, G)]
          BY <4>2, <5>2, Zenon DEF RecvData
        <5>4. SendOK(s) /\ s.urgent = b.urgent
          BY <5>1, <5>2
        <5> HIDE DEF b
        <5> QED
          BY <5>3, <5>4
      <4>3. CASE RecvAck2(o, m, dup)
        <5>1. SendOK(OnDataAck2(b, m.seq)) /\ OnDataAck2(b, m.seq).urgent = b.urgent
          <6>1. m.seq \in Nat /\ m.seq \in Got(rcv[Other(o)]) /\ Covered(b, Got(rcv[Other(o)]))
            BY <4>3, ArrivalFacts DEF RecvAck2, DatagramWith, Reports
          <6>2. OnDataAck2(b, m.seq).urgent = b.urgent
            BY <2>1 DEF OnDataAck2, SendBuf
          <6> HIDE DEF b
          <6> QED
            BY <2>1, <6>1, <6>2, OnDataAck2Facts
        <5> QED
          BY <4>3, <5>1 DEF RecvAck2
      <4>4. CASE RecvRepair(o, m, dup)
        <5>1. {m.seq} \cap Queue(b) \in SUBSET Queue(b)
          OBVIOUS
        <5>2. \E G \in SUBSET Queue(b) :
                 snd' = [snd EXCEPT ![o] = SendNode(b, {m.seq} \cap Queue(b), G)]
          BY <4>4 DEF RecvRepair
        <5> QED
          BY <2>1, <5>1, <5>2
      <4> QED
        BY <1>5, <2>3, <4>1, <4>2, <4>3, <4>4 DEF Receive
    <3>2. PICK N \in SUBSET Queue(s), G \in SUBSET Queue(s) :
             snd' = [snd EXCEPT ![o] = SendNode(s, N, G)]
      BY <3>1
    <3> HIDE DEF o
    <3>3. SendNode(s, N, G).urgent = snd[o].urgent
      BY <1>3, <3>1
    <3> QED
      BY <1>2, <2>1, <3>2, <3>3
  <2> QED
    BY <2>2, <2>3
<1>6. ASSUME NEW o \in Peers, SynTimeElapses(o)
      PROVE  ~snd'[p].urgent
  <2>1. [snd[o] EXCEPT !.quiet = TRUE].urgent = snd[o].urgent
    BY <1>1 DEF SendBuf
  <2> QED
    BY <1>2, <1>6, <2>1 DEF SynTimeElapses, IInv, TypeOK
<1>7. ASSUME NEW o \in Peers, ProcTimerEvent(o)
      PROVE  ~snd'[p].urgent
  <2> DEFINE t == [snd[o] EXCEPT !.timer = (Queue(snd[o]) # {})]
  <2>1. t.urgent = snd[o].urgent
    BY <1>1 DEF SendBuf
  <2>2. snd' = [snd EXCEPT ![o] = t]
    BY <1>7 DEF ProcTimerEvent, IInv, TypeOK
  <2> HIDE DEF t
  <2> QED
    BY <1>2, <2>1, <2>2
<1>8. ASSUME \/ \E o \in Peers : RttElapses(o) \/ SetWindow(o)
             \/ \E m \in net : Lose(m)
             \/ UNCHANGED vars
      PROVE  snd' = snd
  BY <1>8 DEF RttElapses, SetWindow, Lose, vars
<1>9. ASSUME NEW o \in Peers, SetUrgent(o) PROVE FALSE
  BY <1>9 DEF SetUrgent, NoUrgentMode
<1> QED
  BY <1>4, <1>5, <1>6, <1>7, <1>8, <1>9 DEF Next

LEMMA CountStep ==
    ASSUME NoUrgentMode, IInv, CountInv, [Next]_vars
    PROVE  CountInv'
<1>1. ASSUME NEW p \in Peers
      PROVE  Counted(snd'[p]) /\ ~snd'[p].urgent /\ WereSent(snd'[p], Gone(p)')
  <2>1. Ready(snd[p], Gone(p)) /\ SenderStep(p)
    BY InvReady, SenderSteps
  <2>2. ~snd'[p].urgent
    BY <2>1, UrgentStays DEF Ready
  <2>3. CASE Rests(p)
    <3>1. Gone(p)' \subseteq Gone(p) \cup {}
      <4>1. InTransit(p)' \subseteq InTransit(p) \cup {}
        BY <2>3 DEF Rests
      <4> QED
        BY <4>1, GoneGrows
    <3>2. Counted(snd'[p])
      BY <2>1, <2>3, SameQueueCounted DEF Rests, Ready
    <3>3. WereSent(snd'[p], Gone(p)')
      BY <2>1, <2>3, <3>1 DEF Rests, SameQueue, Ready, WereSent
    <3> QED
      BY <2>2, <3>2, <3>3
  <2>4. CASE ~Rests(p)
    <3>1. PICK s, N, G : Ready(s, Gone(p)) /\ Sends(p, s, N, G)
      BY <2>1, <2>4, SendsFromReady
    <3>2. Gone(p)' \subseteq Gone(p) \cup (N \cup G)
      <4>1. InTransit(p)' \subseteq InTransit(p) \cup (N \cup G)
        BY <3>1 DEF Sends
      <4> QED
        BY <4>1, GoneGrows
    <3> QED
      BY <2>2, <3>1, <3>2, SendsCounted
  <2> QED
    BY <2>3, <2>4
<1>2. ASSUME NEW p \in Peers
      PROVE  (Counted(snd[p]) /\ ~snd[p].urgent /\ WereSent(snd[p], Gone(p)))'
  BY <1>1 DEF Counted, WereSent, Waiting, Outstanding, Queue
<1> QED
  BY <1>2 DEF CountInv

LEMMA CountInit == Init => CountInv
<1> SUFFICES ASSUME Init PROVE CountInv
  OBVIOUS
<1>1. \A p \in Peers : snd[p] = NewSendBuf /\ rcv[p] = NewRecvBuf /\ Gone(p) = {}
  BY OtherFacts DEF Init, Gone, InTransit, Got, AheadSeqs, NewRecvBuf
<1>2. Counted(NewSendBuf) /\ ~NewSendBuf.urgent
  BY FS_EmptySet DEF NewSendBuf, Counted, Waiting, Outstanding, Queue
<1> QED
  BY <1>1, <1>2 DEF CountInv, WereSent

\* The counters of the window agree with the queue, in every reachable state,
\* unless an application switches the urgent mode on.
THEOREM CountersAgree ==
    ASSUME NoUrgentMode
    PROVE  Spec => []CountersMatchQueue
<1>1. Init => CountInv
  BY CountInit
<1>2. IInv /\ CountInv /\ [Next]_vars => CountInv'
  BY CountStep
<1>3. CountInv => CountersMatchQueue
  BY DEF CountInv, Counted, CountersMatchQueue, Outstanding
<1> QED
  BY <1>1, <1>2, <1>3, Invariance, PTL DEF Spec

-----------------------------------------------------------------------------
(* Nothing waits while nothing is outstanding.                             *)

Busy(s) == Waiting(s) # {} => s.sending > 0

\* s.sending after sendNode carried the fragments N.
SendingAfter(s, N) == s.sending + Cardinality(N \ s.sent)

LEMMA SendingIsNat ==
    ASSUME NEW s, SendOK(s), Counted(s)
    PROVE  s.sending \in Nat /\ \A N \in SUBSET Queue(s) : Cardinality(N \ s.sent) \in Nat
<1>1. Outstanding(s) \subseteq Queue(s)
  BY DEF Outstanding, SendOK
<1>2. s.sending \in Nat
  BY <1>1, QueueFinite DEF Counted
<1>3. ASSUME NEW N \in SUBSET Queue(s) PROVE Cardinality(N \ s.sent) \in Nat
  <2>1. N \ s.sent \subseteq Queue(s)
    OBVIOUS
  <2> QED
    BY <2>1, QueueFinite
<1> QED
  BY <1>2, <1>3

\* sendNodeAll fills the window, or sends all there is.
LEMMA SendNodeAllBusy ==
    ASSUME NEW s, SendOK(s), Counted(s), NEW w \in Nat \ {0}, NEW N, NEW G, G = {},
           SendNodeAll(s, w, N, G)
    PROVE  Waiting(s) \ N # {} => SendingAfter(s, N) > 0
<1>1. s.sending \in Nat
  BY SendingIsNat
<1>2. N \ s.sent = N
  BY DEF SendNodeAll, Waiting
<1>3. Waiting(s) \subseteq N \/ Cardinality(N) = Room(s, w)
  BY DEF SendNodeAll
<1>4. SendingAfter(s, N) = s.sending + Cardinality(N)
  BY <1>2 DEF SendingAfter
<1>5. s.sending + Room(s, w) > 0
  BY <1>1 DEF Room
<1> QED
  BY <1>3, <1>4, <1>5

\* addSendNode sends a fragment at once when nothing is outstanding.
LEMMA WriteBusy ==
    ASSUME NEW s, SendOK(s), Counted(s), Busy(s), NEW w \in Nat \ {0}, NEW k \in Nat
    PROVE  LET t == Queued(s, k)
               N == FirstOf(s, k, w)
           IN  SendOK(t) /\ N \in SUBSET Queue(t)
               => (Waiting(t) \ N # {} => SendingAfter(t, N) > 0)
<1> DEFINE t == Queued(s, k)
           N == FirstOf(s, k, w)
<1> SUFFICES ASSUME SendOK(t), N \in SUBSET Queue(t), Waiting(t) \ N # {}
             PROVE  SendingAfter(t, N) > 0
  OBVIOUS
<1>1. /\ Counted(t) /\ t.sending = s.sending /\ t.sent = s.sent
      /\ Waiting(t) = Waiting(s) \cup (s.bufSeq .. (s.bufSeq + k - 1))
  BY QueuedCounted
<1>2. /\ s.sending \in Nat /\ Cardinality(N \ t.sent) \in Nat
      /\ s.bufSeq \in Nat /\ s.head \in Nat /\ s.sent \subseteq Queue(s)
  BY <1>1, SendingIsNat DEF SendOK, SendBuf
<1>3. CASE s.sending > 0
  BY <1>1, <1>2, <1>3 DEF SendingAfter
<1>4. CASE s.sending = 0
  <2>1. Waiting(s) = {} /\ Room(s, w) = w
    BY <1>4 DEF Busy, Room
  <2>2. k > 0
    BY <1>1, <1>2, <2>1
  <2>3. s.bufSeq \in N \ t.sent
    BY <1>1, <1>2, <2>1, <2>2 DEF FirstOf, Queue
  <2>4. Cardinality(N \ t.sent) # 0
    <3>1. N \ t.sent \subseteq Queue(t)
      OBVIOUS
    <3> HIDE DEF N, t
    <3> QED
      BY <2>3, <3>1, QueueFinite
  <2> QED
    BY <1>1, <1>2, <1>4, <2>4 DEF SendingAfter
<1> QED
  BY <1>2, <1>3, <1>4

\* What sendNode is called for after an acknowledgement.
LEMMA AckBusy ==
    ASSUME NEW p \in Peers, NEW s, Ready(s, Gone(p)), NEW heard, window[p] \in Nat \ {0},
           heard \/ Busy(s), NEW N, NEW G, Sends(p, s, N, G),
           IF heard THEN SendNodeAll(s, window[p], N, G) ELSE N = {} /\ G = {}
    PROVE  Waiting(s) \ N # {} => SendingAfter(s, N) > 0
<1>1. G = {} /\ SendOK(s) /\ Counted(s)
  BY DEF Ready, Sends, Piggyback
<1>2. CASE heard
  BY <1>1, <1>2, SendNodeAllBusy
<1>3. CASE ~heard
  <2>1. N \in SUBSET Queue(s) /\ Cardinality(N \ s.sent) \in Nat /\ s.sending \in Nat
    BY <1>1, SendingIsNat DEF Sends
  <2> QED
    BY <1>3, <2>1 DEF Busy, SendingAfter
<1> QED
  BY <1>2, <1>3

\* An acknowledgement that is not heard leaves the buffer as busy as it was.
LEMMA UnheardBusy ==
    ASSUME NEW s, SendOK(s), Busy(s), NEW a
    PROVE  /\ Waiting(OnDataAck(s, a)) = Waiting(s) /\ ~(a <= s.maxSend) /\ a \in Nat
              => Busy(OnDataAck(s, a))
           /\ ~(a <= s.maxSend /\ a \in Queue(s)) => Busy(OnDataAck2(s, a))
<1>1. s.maxSend \in Nat /\ s.sending \in Int
  BY DEF SendOK, SendBuf
<1>2. ASSUME Waiting(OnDataAck(s, a)) = Waiting(s), ~(a <= s.maxSend), a \in Nat
      PROVE  Busy(OnDataAck(s, a))
  <2>1. Acked(s, a) = {}
    BY <1>1, <1>2 DEF Acked
  <2>2. OnDataAck(s, a).sending = s.sending - Cardinality(Acked(s, a) \ s.held)
    BY DEF OnDataAck, SendOK, SendBuf
  <2>3. Acked(s, a) \ s.held = {}
    BY <2>1
  <2>4. OnDataAck(s, a).sending = s.sending
    BY <1>1, <2>2, <2>3, FS_EmptySet
  <2> QED
    BY <1>2, <2>4 DEF Busy
<1>3. ASSUME ~(a <= s.maxSend /\ a \in Queue(s))
      PROVE  Busy(OnDataAck2(s, a))
  <2>1. OnDataAck2(s, a) = s
    <3>1. \A q \in Queue(s) : q \in Int
      BY DEF Queue
    <3> QED
      BY <1>1, <1>3, <3>1 DEF OnDataAck2
  <2> QED
    BY <2>1
<1> QED
  BY <1>2, <1>3

LEMMA BusyStep ==
    ASSUME NoUrgentMode, OpenWindows, IInv, CountInv, NoIdleWaiting, [Next]_vars
    PROVE  NoIdleWaiting'
<1>1. ASSUME NEW p \in Peers
      PROVE  Busy(snd'[p])
  <2> DEFINE b == snd[p]
  <2>1. Ready(b, Gone(p)) /\ SenderStep(p) /\ Busy(b) /\ Covered(b, Got(rcv[Other(p)]))
    BY InvReady, SenderSteps DEF NoIdleWaiting, Busy
  <2>2. SendOK(b) /\ Counted(b) /\ window[p] \in Nat \ {0}
    BY <2>1 DEF Ready, OpenWindows, IInv, TypeOK
  <2>3. ASSUME NEW s, Ready(s, Gone(p)), NEW N, NEW G, Sends(p, s, N, G),
               Waiting(s) \ N # {} => SendingAfter(s, N) > 0
        PROVE  Busy(snd'[p])
    <3>1. Gone(p)' \subseteq Gone(p) \cup (N \cup G)
      <4>1. InTransit(p)' \subseteq InTransit(p) \cup (N \cup G)
        BY <2>3 DEF Sends
      <4> QED
        BY <4>1, GoneGrows
    <3>2. Waiting(snd'[p]) = Waiting(s) \ N /\ snd'[p].sending = SendingAfter(s, N)
      BY <2>3, <3>1, SendsCounted DEF SendingAfter
    <3> QED
      BY <2>3, <3>2 DEF Busy
  <2>4. CASE Rests(p)
    <3>1. Waiting(snd'[p]) = Waiting(b) /\ snd'[p].sending = b.sending
      BY <2>2, <2>4, SameQueueCounted DEF Rests, SameQueue
    <3> QED
      BY <2>1, <3>1 DEF Busy
  <2>5. CASE Writes(p)
    <3> HIDE DEF b
    <3>0. PICK k \in Nat : \E G : Sends(p, Queued(b, k), FirstOf(b, k, window[p]), G)
      BY <2>5 DEF Writes, b
    <3>1. PICK G : Sends(p, Queued(b, k), FirstOf(b, k, window[p]), G)
      BY <3>0
    <3>2. Ready(Queued(b, k), Gone(p))
      BY <2>1, QueuedReady
    <3>3. /\ SendOK(Queued(b, k))
          /\ FirstOf(b, k, window[p]) \in SUBSET Queue(Queued(b, k))
      BY <3>1, <3>2 DEF Ready, Sends
    <3>4. Waiting(Queued(b, k)) \ FirstOf(b, k, window[p]) # {}
          => SendingAfter(Queued(b, k), FirstOf(b, k, window[p])) > 0
      BY <2>1, <2>2, <3>3, WriteBusy
    <3> QED
      BY <2>3, <3>1, <3>2, <3>4
  <2>6. CASE HearsAck(p)
    <3>1. PICK a \in Nat : /\ a <= rcv[Other(p)].first
                           /\ GoesOn(p, OnDataAck(b, a), a <= b.maxSend)
      BY <2>6 DEF HearsAck
    <3>2. PICK s, heard : s = OnDataAck(b, a) /\ heard = (a <= b.maxSend)
      OBVIOUS
    <3>3. Ready(s, Gone(p))
      BY <2>1, <3>1, <3>2, AckReady
    <3>4. heard \/ Busy(s)
      <4>1. Waiting(OnDataAck(b, a)) = Waiting(b)
        <5>1. \A q \in 1 .. a : q < b.head \/ q \in b.sent
          <6>1. rcv[Other(p)].first \in Nat
            BY OtherFacts DEF IInv, TypeOK, RecvBuf
          <6>2. 1 .. a \subseteq Gone(p)
            BY <3>1, <6>1 DEF Gone, Got
          <6> QED
            BY <2>1, <6>2 DEF Ready, WereSent
        <5> HIDE DEF b
        <5> QED
          BY <2>2, <5>1, OnDataAckCounted
      <4> HIDE DEF b
      <4> QED
        BY <2>1, <2>2, <3>2, <4>1, UnheardBusy
    <3>5. PICK N, G : /\ Sends(p, s, N, G)
                      /\ IF heard THEN SendNodeAll(s, window[p], N, G) ELSE N = {} /\ G = {}
      BY <3>1, <3>2 DEF GoesOn
    <3> QED
      BY <2>2, <2>3, <3>3, <3>4, <3>5, AckBusy
  <2>7. CASE HearsAck2(p)
    <3>1. PICK a \in Got(rcv[Other(p)]) :
             GoesOn(p, OnDataAck2(b, a), a <= b.maxSend /\ a \in Queue(b))
      BY <2>7 DEF HearsAck2
    <3>2. PICK s, heard : s = OnDataAck2(b, a) /\ heard = (a <= b.maxSend /\ a \in Queue(b))
      OBVIOUS
    <3>3. Ready(s, Gone(p))
      BY <2>1, <3>1, <3>2, Ack2Ready
    <3>4. heard \/ Busy(s)
      <4> HIDE DEF b
      <4> QED
        BY <2>1, <2>2, <3>2, UnheardBusy
    <3>5. PICK N, G : /\ Sends(p, s, N, G)
                      /\ IF heard THEN SendNodeAll(s, window[p], N, G) ELSE N = {} /\ G = {}
      BY <3>1, <3>2 DEF GoesOn
    <3> QED
      BY <2>2, <2>3, <3>3, <3>4, <3>5, AckBusy
  <2>8. CASE HearsRepair(p)
    <3>1. PICK N, G : Sends(p, b, N, G)
      BY <2>8 DEF HearsRepair
    <3>2. b.sending \in Nat /\ Cardinality(N \ b.sent) \in Nat
      BY <2>2, <3>1, SendingIsNat DEF Sends
    <3>3. Waiting(b) \ N # {} => SendingAfter(b, N) > 0
      BY <2>1, <3>2 DEF Busy, SendingAfter
    <3> QED
      BY <2>1, <2>3, <3>1, <3>3
  <2> QED
    BY <2>1, <2>4, <2>5, <2>6, <2>7, <2>8 DEF SenderStep
<1>2. ASSUME NEW p \in Peers PROVE Busy(snd[p])'
  BY <1>1 DEF Busy, Waiting, Queue
<1> QED
  BY <1>2 DEF Busy, NoIdleWaiting

\* Fragments wait only while others are outstanding, so that an
\* acknowledgement is still to come that sends them.
THEOREM NothingWaitsIdle ==
    ASSUME NoUrgentMode, OpenWindows
    PROVE  Spec => []NoIdleWaiting
<1>1. Init => NoIdleWaiting
  BY DEF Init, NewSendBuf, NoIdleWaiting, Waiting, Queue
<1>2. IInv /\ CountInv /\ NoIdleWaiting /\ [Next]_vars => NoIdleWaiting'
  BY BusyStep
<1>3. Init => CountInv
  BY CountInit
<1>4. IInv /\ CountInv /\ [Next]_vars => CountInv'
  BY CountStep
<1> QED
  BY <1>1, <1>2, <1>3, <1>4, Invariance, PTL DEF Spec

-----------------------------------------------------------------------------
(* Only a repair goes beyond the window.                                   *)

LEMMA RoomBound ==
    ASSUME NEW s, s.sending \in Int, NEW w \in Nat, NEW c \in Nat, c <= Room(s, w),
           NEW x \in Int, s.sending <= x
    PROVE  s.sending + c <= x \/ s.sending + c <= w
  BY DEF Room

LEMMA SendingSent ==
    ASSUME NEW p, NEW s, SendOK(s), NEW N, NEW G, Sends(p, s, N, G)
    PROVE  snd'[p].sending = SendingAfter(s, N)
<1>1. N \in SUBSET Queue(s) /\ G \in SUBSET Queue(s) /\ SameQueue(SendNode(s, N, G), snd'[p])
  BY DEF Sends
<1>2. SendNode(s, N, G).sending = s.sending + Cardinality(N \ s.sent)
  BY <1>1 DEF SendOK, SendBuf, SendNode
<1> QED
  BY <1>1, <1>2 DEF SameQueue, SendingAfter

\* The first fragments of a message that go out at once fit in the window.
LEMMA FirstOfFits ==
    ASSUME NEW s, SendOK(s), NEW w \in Nat, NEW k \in Nat,
           NEW F, F \subseteq FirstOf(s, k, w)
    PROVE  Cardinality(F) \in Nat /\ Cardinality(F) <= Room(s, w)
<1>1. s.bufSeq \in Nat /\ Room(s, w) \in Nat
  BY DEF SendOK, SendBuf, Room
<1>2. PICK b \in Int : b = s.bufSeq + Room(s, w) - 1
  BY <1>1
<1>3. F \subseteq s.bufSeq .. b
  BY <1>1, <1>2 DEF FirstOf
<1>4. IsFiniteSet(s.bufSeq .. b) /\ Cardinality(s.bufSeq .. b) = Room(s, w)
  <2>1. s.bufSeq \in Int /\ IF s.bufSeq > b THEN Room(s, w) = 0 ELSE Room(s, w) = b - s.bufSeq + 1
    BY <1>1, <1>2
  <2> QED
    BY <1>2, <2>1, FS_Interval
<1> QED
  BY <1>3, <1>4, FS_Subset, FS_CardinalityType

\* The first fragment of a window's worth that is sent is never beyond it.
LEMMA GoesOnFits ==
    ASSUME NEW p, NEW s, SendOK(s), NEW heard, GoesOn(p, s, heard), window[p] \in Nat,
           NEW x \in Int, s.sending <= x
    PROVE  snd'[p].sending <= x \/ snd'[p].sending <= window[p]
<1>1. PICK N, G : /\ Sends(p, s, N, G)
                  /\ IF heard THEN SendNodeAll(s, window[p], N, G) ELSE N = {} /\ G = {}
  BY DEF GoesOn
<1>2. snd'[p].sending = SendingAfter(s, N) /\ N \in SUBSET Queue(s) /\ s.sending \in Int
  BY <1>1, SendingSent DEF Sends, SendOK, SendBuf
<1>3. Cardinality(N) \in Nat
  BY <1>2, QueueFinite
<1>4. N \ s.sent = N /\ Cardinality(N) <= Room(s, window[p])
  <2>1. CASE heard
    BY <1>1, <2>1 DEF SendNodeAll, Waiting
  <2>2. CASE ~heard
    <3>1. Cardinality(N) = 0 /\ N = {}
      BY <1>1, <2>2, FS_EmptySet
    <3> QED
      BY <1>2, <3>1 DEF Room
  <2> QED
    BY <2>1, <2>2
<1>5. SendingAfter(s, N) = s.sending + Cardinality(N)
  BY <1>4 DEF SendingAfter
<1> QED
  BY <1>2, <1>3, <1>4, <1>5, RoomBound

LEMMA WindowStep ==
    ASSUME IInv, [Next]_vars, NEW p \in Peers,
           snd'[p].sending > snd[p].sending, snd'[p].sending > window[p]
    PROVE  \E m \in net : m.type = "repair" /\ m.src = Other(p) /\ m.seq \in Waiting(snd[p])
<1> DEFINE b == snd[p]
<1>1. /\ SendOK(b) /\ b.sending \in Int /\ SenderStep(p) /\ window[p] \in Nat
      /\ RecvOK(rcv[Other(p)]) /\ Covered(b, Got(rcv[Other(p)]))
  BY SenderSteps, OtherFacts DEF IInv, TypeOK, BuffersOK, SendOK, SendBuf, NothingLost, Covered, Received
<1>2. snd'[p] \in SendBuf
  BY NextInv DEF IInv, TypeOK
<1>3. snd'[p].sending \in Int
  BY <1>2 DEF SendBuf
<1>4. ~ (snd'[p].sending <= b.sending \/ snd'[p].sending <= window[p])
  BY <1>1, <1>3
<1>5. CASE Rests(p)
  BY <1>1, <1>4, <1>5 DEF Rests, SameQueue
<1>6. CASE Writes(p)
  <2> HIDE DEF b
  <2>0. PICK k \in Nat : \E G : Sends(p, Queued(b, k), FirstOf(b, k, window[p]), G)
    BY <1>6 DEF Writes, b
  <2>1. PICK G : Sends(p, Queued(b, k), FirstOf(b, k, window[p]), G)
    BY <2>0
  <2>2. SendOK(Queued(b, k))
    BY <1>1, AppendFacts, ZenonT(30) DEF Queued
  <2> DEFINE s == Queued(b, k)
             F == FirstOf(b, k, window[p]) \ s.sent
  <2>3. snd'[p].sending = s.sending + Cardinality(F)
    BY <2>1, <2>2, SendingSent DEF SendingAfter
  <2>4. Cardinality(F) \in Nat /\ Cardinality(F) <= Room(b, window[p])
    <3>1. F \subseteq FirstOf(b, k, window[p])
      OBVIOUS
    <3> HIDE DEF F
    <3> QED
      BY <1>1, <3>1, FirstOfFits
  <2>5. s.sending = b.sending
    BY <1>1 DEF Queued, SendOK, SendBuf
  <2> HIDE DEF F, s
  <2>6. snd'[p].sending <= b.sending \/ snd'[p].sending <= window[p]
    BY <1>1, <2>3, <2>4, <2>5, RoomBound
  <2> QED
    BY <1>4, <2>6
<1>7. CASE HearsAck(p)
  <2>1. PICK a \in Nat : /\ a <= rcv[Other(p)].first
                         /\ GoesOn(p, OnDataAck(b, a), a <= b.maxSend)
    BY <1>7 DEF HearsAck
  <2>2. SendOK(OnDataAck(b, a))
    <3> HIDE DEF b
    <3> QED
      BY <1>1, <2>1, OnDataAckFacts
  <2>3. OnDataAck(b, a).sending <= b.sending
    <3>1. OnDataAck(b, a).sending = b.sending - Cardinality(Acked(b, a) \ b.held)
      BY <1>1 DEF OnDataAck, SendOK, SendBuf
    <3>2. Cardinality(Acked(b, a) \ b.held) \in Nat
      <4>1. Acked(b, a) \ b.held \subseteq Queue(b)
        BY DEF Acked
      <4> HIDE DEF b
      <4> QED
        BY <1>1, <4>1, QueueFinite
    <3> QED
      BY <1>1, <3>1, <3>2
  <2> HIDE DEF b
  <2>4. snd'[p].sending <= b.sending \/ snd'[p].sending <= window[p]
    BY <1>1, <2>1, <2>2, <2>3, GoesOnFits
  <2> QED
    BY <1>4, <2>4
<1>8. CASE HearsAck2(p)
  <2>1. PICK a \in Got(rcv[Other(p)]) :
           GoesOn(p, OnDataAck2(b, a), a <= b.maxSend /\ a \in Queue(b))
    BY <1>8 DEF HearsAck2
  <2>2. a \in Nat
    BY <1>1 DEF RecvOK, RecvBuf, Got, AheadSeqs
  <2>3. SendOK(OnDataAck2(b, a))
    <3> HIDE DEF b
    <3> QED
      BY <1>1, <2>1, <2>2, OnDataAck2Facts
  <2>4. OnDataAck2(b, a).sending <= b.sending
    BY <1>1 DEF OnDataAck2, SendOK, SendBuf
  <2> HIDE DEF b
  <2>5. snd'[p].sending <= b.sending \/ snd'[p].sending <= window[p]
    BY <1>1, <2>1, <2>3, <2>4, GoesOnFits
  <2> QED
    BY <1>4, <2>5
<1>9. CASE HearsRepair(p)
  <2>1. PICK m \in net : /\ m.type = "repair" /\ m.src = Other(p)
                         /\ \E G : Sends(p, b, {m.seq} \cap Queue(b), G)
    BY <1>9 DEF HearsRepair
  <2>2. PICK N : N = {m.seq} \cap Queue(b)
    OBVIOUS
  <2>3. snd'[p].sending = b.sending + Cardinality(N \ b.sent)
    <3> HIDE DEF b
    <3> QED
      BY <1>1, <2>1, <2>2, SendingSent DEF SendingAfter
  <2>4. N \ b.sent # {}
    <3>1. SUFFICES ASSUME N \ b.sent = {} PROVE FALSE
      OBVIOUS
    <3>2. snd'[p].sending = b.sending
      BY <1>1, <2>3, <3>1, FS_EmptySet
    <3> QED
      BY <1>1, <1>4, <3>2
  <2>5. m.seq \in Waiting(b)
    BY <2>2, <2>4 DEF Waiting
  <2> QED
    BY <2>1, <2>5
<1> QED
  BY <1>1, <1>5, <1>6, <1>7, <1>8, <1>9 DEF SenderStep

\* Only onDataRepair sends a waiting fragment beyond the window, and only the
\* one asked for.
THEOREM WindowBoundsSending == Spec => WindowRespected
<1> DEFINE Step == \A p \in Peers :
                     /\ snd'[p].sending > snd[p].sending
                     /\ snd'[p].sending > window[p]
                     => \E m \in net : m.type = "repair" /\ m.src = Other(p) /\ m.seq \in Waiting(snd[p])
<1>1. IInv /\ [Next]_vars => [Step]_vars
  BY WindowStep
<1> QED
  BY <1>1, Invariance, PTL DEF Spec, WindowRespected

-----------------------------------------------------------------------------
(* Repairs are asked for fragments the receiver lacks.                     *)

LEMMA MissingIsNotGot ==
    ASSUME NEW r, RecvOK(r), NEW cap
    PROVE  \A q \in Repairs(r, cap) : q \notin Got(r)
<1>1. r.first \in Nat
  BY DEF RecvOK, RecvBuf
<1>2. \A q \in Missing(r) : q \notin Got(r)
  <2>1. \A i, j : i \in (r.first + 1) .. j => i \notin 1 .. r.first
    BY <1>1
  <2>2. CASE r.ahead = {}
    <3>1. AheadSeqs(r) = {}
      BY <2>2 DEF AheadSeqs
    <3> QED
      BY <2>1, <2>2, <3>1 DEF Missing, Got
  <2>3. CASE r.ahead # {}
    BY <2>1, <2>3 DEF Missing, Got
  <2> QED
    BY <2>2, <2>3
<1> QED
  BY <1>2 DEF Repairs

LEMMA NoNewRepairs ==
    ASSUME NEW left, left \subseteq net, NEW msgs, Transmit(left, msgs),
           \A d \in msgs : d.type # "repair"
    PROVE  \A m \in net' \ net : m.type # "repair"
<1>1. net' \subseteq left \cup msgs
  BY TransmitFacts
<1> QED
  BY <1>1

\* The requests that addRecvData sends with the buffer it leaves.
LEMMA RepliesMissing ==
    ASSUME NEW o, NEW r, RecvOK(r), NEW x \in [seq : Nat, pkt : BOOLEAN], NEW cap,
           NEW d \in Replies(o, r, x, cap), d.type = "repair"
    PROVE  d.src = o /\ d.seq \notin Got(AddRecvData(r, x, cap))
<1>1. IsAhead(r, x.seq) /\ \E q \in Repairs(Put(r, x), cap) : d = CtlMsg("repair", o, q)
  BY DEF Replies, AckIfDue, CtlMsg
<1>2. PICK q \in Repairs(Put(r, x), cap) : d = CtlMsg("repair", o, q)
  BY <1>1
<1>3. RecvOK(Put(r, x))
  BY <1>1, AheadFacts
<1>4. Got(AddRecvData(r, x, cap)) = Got(Put(r, x))
  <2>1. AddRecvData(r, x, cap) = AfterAck(AfterRepairs(Put(r, x), cap))
    <3>1. ~IsNext(r, x.seq)
      BY <1>1 DEF IsAhead, IsNext, RecvOK, RecvBuf
    <3> QED
      BY <1>1, <3>1 DEF AddRecvData, Taken, Known
  <2> DEFINE t == AfterRepairs(Put(r, x), cap)
  <2>2. RecvOK(t) /\ Got(t) = Got(Put(r, x))
    <3>1. Unmoved(Put(r, x), t)
      BY <1>3, UnmovedFacts
    <3> HIDE DEF t
    <3> QED
      BY <3>1, UnmovedGot
  <2> HIDE DEF t
  <2>3. Got(AfterAck(t)) = Got(t)
    BY <2>2, UnmovedFacts, UnmovedGot
  <2> QED
    BY <2>1, <2>2, <2>3 DEF t
<1> QED
  BY <1>2, <1>3, <1>4, MissingIsNotGot DEF CtlMsg

LEMMA RepairStep ==
    ASSUME IInv, [Next]_vars, NEW n \in net' \ net, n.type = "repair"
    PROVE  n.seq \notin Got(rcv'[n.src])
<1>1. ASSUME NEW o \in Peers, NEW k \in 1 .. MaxFragments, SendData(o, k) PROVE FALSE
  <2>1. PICK s, F, msgs : /\ \A d \in msgs : d.type # "repair"
                          /\ Transmit(net, DataOf(o, s, F) \cup msgs)
    <3>1. \A late \in BOOLEAN : \A q : \A d \in IF late THEN {CtlMsg("syn", o, q)} ELSE {} : d.type # "repair"
      BY DEF CtlMsg
    <3>2. \E s, F, q : \E late \in BOOLEAN :
             Transmit(net, DataOf(o, s, F) \cup IF late THEN {CtlMsg("syn", o, q)} ELSE {})
      BY <1>1 DEF SendData
    <3> QED
      BY <3>1, <3>2
  <2>2. \A d \in DataOf(o, s, F) \cup msgs : d.type # "repair"
    BY <2>1 DEF DataOf, DataMsg
  <2> QED
    BY <2>1, <2>2, NoNewRepairs
<1>2. ASSUME NEW m \in net, NEW dup \in BOOLEAN, NEW o, o = Other(m.src),
             RecvAck(o, m, dup) \/ RecvAck2(o, m, dup) \/ RecvRepair(o, m, dup)
      PROVE  FALSE
  <2>1. PICK s, F, msgs : /\ \A d \in msgs : d.type # "repair"
                          /\ Transmit(Left(m, dup), DataOf(o, s, F) \cup msgs)
    <3>1. \A q : \A d \in IF m.seq >= snd[o].bufSeq THEN {CtlMsg("syn", o, q)} ELSE {} : d.type # "repair"
      BY DEF CtlMsg
    <3>2. CASE RecvRepair(o, m, dup)
      <4>1. \E F : Transmit(Left(m, dup), DataOf(o, snd[o], F) \cup
                 IF m.seq >= snd[o].bufSeq THEN {CtlMsg("syn", o, snd[o].bufSeq - 1)} ELSE {})
        BY <3>2 DEF RecvRepair
      <4> QED
        BY <3>1, <4>1
    <3>3. CASE RecvAck(o, m, dup) \/ RecvAck2(o, m, dup)
      <4>1. PICK s, F : Transmit(Left(m, dup), DataOf(o, s, F))
        BY <3>3 DEF RecvAck, RecvAck2
      <4>2. PICK none : none = {}
        OBVIOUS
      <4>3. DataOf(o, s, F) \cup none = DataOf(o, s, F)
        BY <4>2
      <4>4. Transmit(Left(m, dup), DataOf(o, s, F) \cup none)
        BY <4>1, <4>3
      <4> QED
        BY <4>2, <4>4
    <3> QED
      BY <1>2, <3>2, <3>3
  <2>2. \A d \in DataOf(o, s, F) \cup msgs : d.type # "repair"
    BY <2>1 DEF DataOf, DataMsg
  <2>3. Left(m, dup) \subseteq net
    BY DEF Left
  <2> QED
    BY <2>1, <2>2, <2>3, NoNewRepairs
<1>3. ASSUME NEW m \in net, NEW dup \in BOOLEAN, NEW o, o = Other(m.src), RecvSyn(o, m, dup)
      PROVE  n.seq \notin Got(rcv'[n.src])
  <2> DEFINE r == [rcv[o] EXCEPT !.destMax = m.seq]
  <2>1. o \in Peers /\ Left(m, dup) \subseteq net /\ m.seq \in Nat /\ RecvOK(rcv[o])
    BY <1>3, ArrivalFacts DEF DatagramWith
  <2>2. RecvOK(r)
    <3>1. Unmoved(rcv[o], r)
      BY <2>1, UnmovedFacts
    <3> HIDE DEF r
    <3> QED
      BY <3>1, UnmovedGot
  <2>3. PICK cap \in RepairCaps :
           IF m.seq = r.first
           THEN /\ rcv' = [rcv EXCEPT ![o] = [r EXCEPT !.lastAck = r.first]]
                /\ Transmit(Left(m, dup), {CtlMsg("ack", o, r.first)})
           ELSE /\ rcv' = [rcv EXCEPT ![o] = AfterRepairs(r, cap)]
                /\ Transmit(Left(m, dup), {CtlMsg("repair", o, q) : q \in Repairs(r, cap)})
    BY <1>3 DEF RecvSyn
  <2> HIDE DEF r
  <2>4. m.seq # r.first
    <3>1. \A d \in {CtlMsg("ack", o, r.first)} : d.type # "repair"
      BY DEF CtlMsg
    <3> QED
      BY <2>1, <2>3, <3>1, NoNewRepairs
  <2> DEFINE msgs == {CtlMsg("repair", o, q) : q \in Repairs(r, cap)}
             t == AfterRepairs(r, cap)
  <2>5. rcv' = [rcv EXCEPT ![o] = t] /\ Transmit(Left(m, dup), msgs)
    BY <2>3, <2>4
  <2>6. PICK q \in Repairs(r, cap) : n.src = o /\ n.seq = q
    <3>1. \A d \in msgs : d.src = o /\ d.seq \in Repairs(r, cap)
      BY DEF CtlMsg
    <3> HIDE DEF msgs
    <3>2. n \in msgs
      BY <2>1, <2>5, TransmitFacts
    <3> QED
      BY <3>1, <3>2
  <2> HIDE DEF t
  <2>7. Got(t) = Got(r)
    BY <2>2, UnmovedFacts, UnmovedGot DEF t
  <2>8. rcv'[o] = t
    BY <2>1, <2>5 DEF IInv, TypeOK
  <2> QED
    BY <2>2, <2>6, <2>7, <2>8, MissingIsNotGot
<1>4. ASSUME NEW m \in net, NEW dup \in BOOLEAN, NEW o, o = Other(m.src), RecvData(o, m, dup)
      PROVE  n.seq \notin Got(rcv'[n.src])
  <2> DEFINE x == [seq |-> m.seq, pkt |-> m.pkt]
  <2>1. /\ o \in Peers /\ Left(m, dup) \subseteq net /\ RecvOK(rcv[o])
        /\ x \in [seq : Nat, pkt : BOOLEAN]
    <3>1. m.type = "data" /\ m \in DatagramWith(Nat)
      BY <1>4, ArrivalFacts DEF RecvData
    <3>2. m.seq \in Nat /\ m.pkt \in BOOLEAN
      BY <3>1 DEF DatagramWith
    <3> QED
      BY <1>4, <3>2, ArrivalFacts
  <2>2. PICK s, F, N, cap : LET r == GetAckId(rcv[o], N)
           IN  /\ rcv' = [rcv EXCEPT ![o] = AddRecvData(r, x, cap)]
               /\ Transmit(Left(m, dup), DataOf(o, s, F) \cup Replies(o, r, x, cap))
    <3> DEFINE s == OnDataAck(snd[o], m.ack)
    <3>1. PICK N \in SUBSET Queue(s), G \in SUBSET Queue(s), cap \in RepairCaps :
             LET r == GetAckId(rcv[o], N)
             IN  /\ IF m.ack <= s.maxSend THEN SendNodeAll(s, window[o], N, G)
                                          ELSE N = {} /\ G = {}
                 /\ snd' = [snd EXCEPT ![o] = SendNode(s, N, G)]
                 /\ rcv' = [rcv EXCEPT ![o] = AddRecvData(r, x, cap)]
                 /\ app' = IF IsNext(r, m.seq)
                           THEN [app EXCEPT ![o] = Assemble(r, @, x)] ELSE app
                 /\ Transmit(Left(m, dup), DataOf(o, s, N \cup G) \cup Replies(o, r, x, cap))
      BY <1>4 DEF RecvData
    <3> QED
      BY <3>1
  <2> HIDE DEF x
  <2>3. PICK r : r = GetAckId(rcv[o], N)
    OBVIOUS
  <2>4. RecvOK(r)
    BY <2>1, <2>3, UnmovedFacts, UnmovedGot
  <2> DEFINE data == DataOf(o, s, F)
             replies == Replies(o, r, x, cap)
  <2>5. rcv'[o] = AddRecvData(r, x, cap) /\ Transmit(Left(m, dup), data \cup replies)
    BY <2>1, <2>2, <2>3 DEF IInv, TypeOK
  <2>6. \A d \in data : d.type # "repair"
    BY DEF DataOf, DataMsg
  <2>7. n \in replies
    <3> HIDE DEF data, replies
    <3> QED
      BY <2>1, <2>5, <2>6, TransmitFacts
  <2> QED
    BY <2>1, <2>4, <2>5, <2>7, RepliesMissing
<1>5. ASSUME NEW o \in Peers, ProcTimerEvent(o) PROVE FALSE
  <2>1. PICK msgs : (\A d \in msgs : d.type # "repair") /\ Transmit(net, msgs)
    <3>1. \A d \in {CtlMsg("syn", o, snd[o].maxSend)} : d.type # "repair"
      BY DEF CtlMsg
    <3>2. Transmit(net, {CtlMsg("syn", o, snd[o].maxSend)}) \/ Transmit(net, {})
      BY <1>5 DEF ProcTimerEvent
    <3> QED
      BY <3>1, <3>2
  <2> QED
    BY <2>1, NoNewRepairs
<1>6. ASSUME \/ \E o \in Peers : \/ SynTimeElapses(o) \/ RttElapses(o) \/ SetWindow(o)
                                 \/ SetUrgent(o)
             \/ \E m \in net : Lose(m)
             \/ UNCHANGED vars
      PROVE  FALSE
  <2>1. net' \subseteq net
    BY <1>6 DEF SynTimeElapses, RttElapses, SetWindow, SetUrgent, Lose, vars
  <2> QED
    BY <2>1
<1> QED
  BY <1>1, <1>2, <1>3, <1>4, <1>5, <1>6 DEF Next, Receive

\* procRepairData asks for nothing the receive buffer holds once the handler
\* is done.
THEOREM RepairsAreForLosses == Spec => RepairsAreNeeded
<1> DEFINE Step == \A m \in net' \ net : m.type = "repair" => m.seq \notin Received(m.src)'
<1>1. IInv /\ [Next]_vars => [Step]_vars
  <2>1. SUFFICES ASSUME IInv, [Next]_vars, NEW m \in net' \ net, m.type = "repair"
                 PROVE  m.seq \notin Got(rcv'[m.src])
    BY DEF Received, Got, AheadSeqs
  <2> QED
    BY <2>1, RepairStep
<1> QED
  BY <1>1, Invariance, PTL DEF Spec, RepairsAreNeeded
=============================================================================
