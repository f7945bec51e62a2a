--------------------------- MODULE RudpFifoProofs ---------------------------
(***************************************************************************)
(* What the applications get: messages whole, once and in order, and the   *)
(* two buffers with their network as a reliable FIFO in each direction.    *)
(*                                                                         *)
(* FifoInv relates the messages written at one end to the buffers of both: *)
(*   - the messages take fragment after fragment, and the flagged          *)
(*     fragments are the last ones of the messages;                        *)
(*   - a fragment under way or on the receiver's list says rightly whether *)
(*     it is such a last one;                                              *)
(*   - so what the receiver has assembled is determined by the fragments   *)
(*     it took in order, and a message that was notified is among them.    *)
(***************************************************************************)
EXTENDS RudpChannelProofs, SequenceTheorems

\* The fragments after b up to e.
Run(b, e) == [i \in 1 .. e - b |-> b + i]

\* The last fragment of the first j of the messages w.
EndOf(w, j) == IF j = 0 THEN 0 ELSE w[j][Len(w[j])]

Ends(w) == {EndOf(w, j) : j \in 1 .. Len(w)}

\* The messages w take fragment after fragment, from 1 on.
Messages(w) ==
    /\ w \in Seq(Seq(Nat))
    /\ \A j \in 0 .. Len(w) : EndOf(w, j) \in Nat
    /\ \A i, j \in 0 .. Len(w) : i < j => EndOf(w, i) < EndOf(w, j)
    /\ \A j \in 1 .. Len(w) : w[j] = Run(EndOf(w, j - 1), EndOf(w, j))

\* After fragments 1 .. f an application has d whole messages, and a part of the next.
AppHas(w, a, f, d) ==
    /\ a = [partial |-> Run(EndOf(w, d), f), delivered |-> SubSeq(w, 1, d)]
    /\ EndOf(w, d) <= f
    /\ d < Len(w) => f < EndOf(w, d + 1)

AppAt(w, a, f) == \E d \in 0 .. Len(w) : AppHas(w, a, f, d)

\* Fragment q is one of the sender's, and says rightly whether it ends a message.
Tagged(s, q, pkt) == q < s.bufSeq /\ (pkt <=> q \in s.flagged)

\* Send buffer t has a message of k fragments more than s.
Longer(s, t, k) ==
    /\ t.bufSeq = s.bufSeq + k /\ t.flagged = s.flagged \cup {s.bufSeq + k - 1}
    /\ t.notified = s.notified

\* What the messages w of a sender have to do with its send buffer s, the other end's
\* receive buffer r and application a.
Direction(w, s, r, a) ==
    /\ Messages(w) /\ EndOf(w, Len(w)) = s.bufSeq - 1 /\ s.flagged = Ends(w)
    /\ AppAt(w, a, r.first) /\ r.first < s.bufSeq
    /\ \A y \in r.ahead : Tagged(s, y.seq, y.pkt)
    /\ \A q \in s.notified : q \in s.flagged /\ q <= r.first

FifoInv ==
    /\ DOMAIN app = Peers /\ DOMAIN written = Peers
    /\ \A p \in Peers : Direction(written[p], snd[p], rcv[Other(p)], app[Other(p)])
    /\ \A m \in net : m.type = "data" => Tagged(snd[m.src], m.seq, m.pkt)

-----------------------------------------------------------------------------
(* Runs of fragments and beginnings of sequences.                          *)

\* A run has every fragment between its ends.
LEMMA RunFacts ==
    ASSUME NEW b \in Nat, NEW e \in Nat, b <= e
    PROVE  /\ Run(b, e) \in Seq(Nat) /\ Len(Run(b, e)) = e - b
           /\ \A i \in 1 .. e - b : Run(b, e)[i] = b + i
<1>1. e - b \in Nat /\ \A i \in 1 .. e - b : b + i \in Nat
  OBVIOUS
<1>. QED
  BY <1>1 DEF Run

\* One more fragment makes the run longer.
LEMMA RunGrows ==
    ASSUME NEW b \in Nat, NEW e \in Nat, b <= e
    PROVE  Append(Run(b, e), e + 1) = Run(b, e + 1)
<1>1. PICK s, t : s = Append(Run(b, e), e + 1) /\ t = Run(b, e + 1)
  OBVIOUS
<1>2. t \in Seq(Nat) /\ Len(t) = e + 1 - b /\ \A i \in 1 .. e + 1 - b : t[i] = b + i
  <2>1. PICK c : c = e + 1 /\ c \in Nat /\ b <= c
    OBVIOUS
  <2>2. /\ Run(b, c) \in Seq(Nat) /\ Len(Run(b, c)) = c - b
        /\ \A i \in 1 .. c - b : Run(b, c)[i] = b + i
    BY <2>1, RunFacts
  <2>. QED
    BY <1>1, <2>1, <2>2
<1>3. PICK q : q = Run(b, e)
  OBVIOUS
<1>4. q \in Seq(Nat) /\ Len(q) = e - b /\ \A i \in 1 .. e - b : q[i] = b + i
  BY <1>3, RunFacts
<1>5. /\ s \in Seq(Nat) /\ Len(s) = Len(q) + 1 /\ s[Len(q) + 1] = e + 1
      /\ \A i \in 1 .. Len(q) : s[i] = q[i]
  <2>1. s = Append(q, e + 1) /\ e + 1 \in Nat
    BY <1>1, <1>3
  <2>. QED
    BY <1>4, <2>1, SMTT(30)
<1>6. \A i \in 1 .. Len(s) : s[i] = t[i]
  <2>1. \A i \in 1 .. Len(s) : i \in 1 .. e - b \/ i = e - b + 1
    BY <1>4, <1>5
  <2>2. e - b + 1 \in 1 .. e + 1 - b /\ b + (e - b + 1) = e + 1
    OBVIOUS
  <2>3. s[e - b + 1] = t[e - b + 1]
    BY <1>2, <1>4, <1>5, <2>2
  <2>4. \A i \in 1 .. e - b : s[i] = t[i]
    BY <1>2, <1>4, <1>5
  <2>. QED
    BY <2>1, <2>3, <2>4
<1>7. Len(s) = Len(t)
  BY <1>2, <1>4, <1>5
<1>. QED
  BY <1>1, <1>2, <1>5, <1>6, <1>7, SeqEqual

\* Two runs, one behind the other.
LEMMA RunsJoin ==
    ASSUME NEW b \in Nat, NEW c \in Nat, NEW e \in Nat, b <= c, c <= e
    PROVE  Run(b, c) \o Run(c, e) = Run(b, e)
<1>1. PICK s, t, u, v : s = Run(b, c) /\ t = Run(c, e) /\ u = Run(b, e) /\ v = s \o t
  OBVIOUS
<1>2. /\ s \in Seq(Nat) /\ Len(s) = c - b /\ \A i \in 1 .. c - b : s[i] = b + i
      /\ t \in Seq(Nat) /\ Len(t) = e - c /\ \A i \in 1 .. e - c : t[i] = c + i
  BY <1>1, RunFacts
<1>3. u \in Seq(Nat) /\ Len(u) = e - b /\ \A i \in 1 .. e - b : u[i] = b + i
  <2>1. b <= e
    OBVIOUS
  <2>. QED
    BY <1>1, <2>1, RunFacts
<1>4. /\ v \in Seq(Nat) /\ Len(v) = Len(s) + Len(t)
      /\ \A i \in 1 .. Len(s) + Len(t) : v[i] = IF i <= Len(s) THEN s[i] ELSE t[i - Len(s)]
  <2>1. s \in Seq(Nat) /\ t \in Seq(Nat)
    BY <1>2
  <2>2. /\ s \o t \in Seq(Nat) /\ Len(s \o t) = Len(s) + Len(t)
        /\ \A i \in 1 .. Len(s) + Len(t) :
             (s \o t)[i] = IF i <= Len(s) THEN s[i] ELSE t[i - Len(s)]
    BY <2>1, ConcatProperties
  <2>. QED
    BY <1>1, <2>2
<1>5. ASSUME NEW i \in 1 .. Len(v) PROVE v[i] = u[i]
  <2>1. i \in 1 .. e - b /\ u[i] = b + i
    BY <1>2, <1>3, <1>4
  <2>2. CASE i <= c - b
    BY <1>2, <1>4, <2>1, <2>2
  <2>3. CASE ~ (i <= c - b)
    <3>1. i - (c - b) \in 1 .. e - c /\ c + (i - (c - b)) = b + i
      BY <2>1, <2>3
    <3>. QED
      BY <1>2, <1>4, <2>1, <2>3, <3>1
  <2>. QED
    BY <2>2, <2>3
<1>6. Len(v) = Len(u)
  BY <1>2, <1>3, <1>4
<1>. QED
  BY <1>1, <1>3, <1>4, <1>5, <1>6, SeqEqual

\* The first d values of a sequence.
LEMMA BeginFacts ==
    ASSUME NEW S, NEW w \in Seq(S), NEW d \in 0 .. Len(w)
    PROVE  /\ SubSeq(w, 1, d) \in Seq(S) /\ Len(SubSeq(w, 1, d)) = d
           /\ \A i \in 1 .. d : SubSeq(w, 1, d)[i] = w[i]
<1>1. d \in Nat /\ Len(w) \in Nat /\ \A i \in 1 .. d : w[i] \in S
  OBVIOUS
<1>2. PICK s : s = SubSeq(w, 1, d)
  OBVIOUS
<1>3. /\ s \in Seq(S) /\ Len(s) = (IF 1 <= d THEN d - 1 + 1 ELSE 0)
      /\ \A i \in 1 .. d - 1 + 1 : s[i] = w[1 + i - 1]
  BY <1>1, <1>2, SubSeqProperties
<1>4. Len(s) = d /\ \A i \in 1 .. d : i \in 1 .. d - 1 + 1 /\ 1 + i - 1 = i
  BY <1>1, <1>3
<1>5. \A i \in 1 .. d : s[i] = w[i]
  BY <1>3, <1>4
<1>. QED
  BY <1>2, <1>3, <1>4, <1>5

\* One value more.
LEMMA BeginGrows ==
    ASSUME NEW S, NEW w \in Seq(S), NEW d \in 0 .. Len(w), d < Len(w)
    PROVE  Append(SubSeq(w, 1, d), w[d + 1]) = SubSeq(w, 1, d + 1)
<1>1. PICK s, t, u : s = SubSeq(w, 1, d) /\ t = SubSeq(w, 1, d + 1) /\ u = Append(s, w[d + 1])
  OBVIOUS
<1>2. d \in Nat /\ d + 1 \in 0 .. Len(w) /\ w[d + 1] \in S
  OBVIOUS
<1>3. /\ s \in Seq(S) /\ Len(s) = d /\ \A i \in 1 .. d : s[i] = w[i]
      /\ t \in Seq(S) /\ Len(t) = d + 1 /\ \A i \in 1 .. d + 1 : t[i] = w[i]
  BY <1>1, <1>2, BeginFacts
<1>4. u \in Seq(S) /\ Len(u) = d + 1 /\ u[d + 1] = w[d + 1] /\ \A i \in 1 .. d : u[i] = s[i]
  BY <1>1, <1>2, <1>3
<1>5. \A i \in 1 .. d + 1 : u[i] = t[i]
  <2>1. \A i \in 1 .. d + 1 : i \in 1 .. d \/ i = d + 1
    BY <1>2
  <2>. QED
    BY <1>2, <1>3, <1>4, <2>1
<1>. QED
  BY <1>1, <1>3, <1>4, <1>5, SeqEqual

\* What a sequence was is a beginning of what it becomes.
LEMMA BeginOfLonger ==
    ASSUME NEW S, NEW w \in Seq(S), NEW x \in S
    PROVE  Len(Append(w, x)) = Len(w) + 1 /\ IsPrefix(w, Append(w, x))
<1>1. PICK v, n : v = Append(w, x) /\ n = Len(w)
  OBVIOUS
<1>2. /\ v \in Seq(S) /\ n \in Nat /\ Len(v) = n + 1 /\ n \in 0 .. Len(w) /\ n \in 0 .. Len(v)
      /\ \A i \in 1 .. n : v[i] = w[i]
  BY <1>1
<1>3. PICK s, t : s = SubSeq(w, 1, n) /\ t = SubSeq(v, 1, n)
  OBVIOUS
<1>4. /\ s \in Seq(S) /\ Len(s) = n /\ \A i \in 1 .. n : s[i] = w[i]
      /\ t \in Seq(S) /\ Len(t) = n /\ \A i \in 1 .. n : t[i] = v[i]
  BY <1>2, <1>3, BeginFacts
<1>5. s = t
  BY <1>2, <1>4, SeqEqual
<1>. QED
  BY <1>1, <1>2, <1>3, <1>5 DEF IsPrefix

-----------------------------------------------------------------------------
(* Messages and what an application has of them.                           *)

\* Fragment f + 1, if there is one, belongs to the message after those that are whole.
LEMMA NextFragment ==
    ASSUME NEW w, Messages(w), NEW f \in Nat, f < EndOf(w, Len(w)), NEW a, NEW d \in 0 .. Len(w),
           AppHas(w, a, f, d)
    PROVE  /\ d < Len(w) /\ d + 1 \in 1 .. Len(w)
           /\ EndOf(w, d) \in Nat /\ EndOf(w, d + 1) \in Nat /\ f + 1 <= EndOf(w, d + 1)
           /\ f + 1 \in Ends(w) <=> f + 1 = EndOf(w, d + 1)
<1>1. w \in Seq(Seq(Nat)) /\ Len(w) \in Nat /\ Len(w) \in 0 .. Len(w) /\ d \in Nat
  BY DEF Messages
<1>2. EndOf(w, d) \in Nat /\ EndOf(w, Len(w)) \in Nat
  BY <1>1 DEF Messages
<1>3. d < Len(w)
  BY <1>1, <1>2 DEF AppHas
<1>4. d + 1 \in 1 .. Len(w) /\ d + 1 \in 0 .. Len(w)
  BY <1>1, <1>3
<1>5. EndOf(w, d + 1) \in Nat /\ f + 1 <= EndOf(w, d + 1) /\ EndOf(w, d) <= f
  <2>1. EndOf(w, d + 1) \in Nat
    BY <1>4 DEF Messages
  <2>. QED
    BY <1>3, <2>1 DEF AppHas
<1>6. ASSUME NEW j \in 1 .. Len(w), f + 1 = EndOf(w, j) PROVE j = d + 1
  <2>1. j \in 0 .. Len(w) /\ j \in Nat
    BY <1>1
  <2>2. ~ (j < d) /\ j # d
    <3>1. j < d => EndOf(w, j) < EndOf(w, d)
      BY <2>1 DEF Messages
    <3>. QED
      BY <1>2, <1>5, <1>6, <3>1
  <2>3. ~ (d + 1 < j)
    <3>1. d + 1 < j => EndOf(w, d + 1) < EndOf(w, j)
      BY <1>4, <2>1 DEF Messages
    <3>. QED
      BY <1>5, <1>6, <3>1
  <2>. QED
    BY <1>1, <2>1, <2>2, <2>3
<1>. QED
  BY <1>2, <1>3, <1>4, <1>5, <1>6 DEF Ends

\* procSeqData of the next fragment.
LEMMA ProcSeqDataFacts ==
    ASSUME NEW w, Messages(w), NEW f \in Nat, f < EndOf(w, Len(w)), NEW a, AppAt(w, a, f),
           NEW x, x.seq = f + 1, x.pkt <=> f + 1 \in Ends(w)
    PROVE  AppAt(w, ProcSeqData(a, x), f + 1)
<1>1. PICK d \in 0 .. Len(w) : AppHas(w, a, f, d)
  BY DEF AppAt
<1>2. PICK b, e, k : b = EndOf(w, d) /\ e = EndOf(w, d + 1) /\ k = Len(w)
  OBVIOUS
<1>3. /\ d < k /\ d + 1 \in 1 .. k /\ b \in Nat /\ e \in Nat /\ f + 1 <= e
      /\ f + 1 \in Ends(w) <=> f + 1 = e
  BY <1>1, <1>2, NextFragment
<1>4. w \in Seq(Seq(Nat)) /\ k \in Nat /\ d \in Nat /\ d + 1 \in 0 .. k /\ b <= f
  BY <1>1, <1>2, <1>3 DEF Messages, AppHas
<1>5. a.partial = Run(b, f) /\ a.delivered = SubSeq(w, 1, d)
  BY <1>1, <1>2 DEF AppHas
<1>6. Append(a.partial, x.seq) = Run(b, f + 1)
  BY <1>3, <1>4, <1>5, RunGrows, ZenonT(30)
<1>7. CASE x.pkt
  <2>1. f + 1 = e
    BY <1>3, <1>7
  <2>2. w[d + 1] = Run(b, e)
    <3>1. w[d + 1] = Run(EndOf(w, (d + 1) - 1), EndOf(w, d + 1))
      BY <1>2, <1>3 DEF Messages
    <3>2. (d + 1) - 1 = d
      BY <1>4
    <3>. QED
      BY <1>2, <3>1, <3>2
  <2>3. Append(a.delivered, Append(a.partial, x.seq)) = SubSeq(w, 1, d + 1)
    BY <1>2, <1>3, <1>4, <1>5, <1>6, <2>1, <2>2, BeginGrows
  <2>4. Run(e, f + 1) = <<>>
    <3>1. 1 .. (f + 1) - e = {}
      BY <1>3, <2>1
    <3>. QED
      BY <3>1 DEF Run
  <2>5. ProcSeqData(a, x) = [partial |-> Run(e, f + 1), delivered |-> SubSeq(w, 1, d + 1)]
    BY <1>7, <2>3, <2>4 DEF ProcSeqData
  <2>6. d + 1 < k => f + 1 < EndOf(w, (d + 1) + 1)
    <3>1. ASSUME d + 1 < k PROVE EndOf(w, d + 1) < EndOf(w, (d + 1) + 1)
      <4>1. (d + 1) + 1 \in 0 .. Len(w) /\ d + 1 \in 0 .. Len(w) /\ d + 1 < (d + 1) + 1
        BY <1>2, <1>3, <1>4, <3>1
      <4>. QED
        BY <4>1 DEF Messages
    <3>. QED
      BY <1>2, <2>1, <3>1
  <2>7. AppHas(w, ProcSeqData(a, x), f + 1, d + 1)
    <3>1. EndOf(w, d + 1) <= f + 1
      BY <1>2, <1>3, <2>1
    <3>. QED
      BY <1>2, <2>5, <2>6, <3>1 DEF AppHas
  <2>. QED
    BY <1>2, <1>4, <2>7 DEF AppAt
<1>8. CASE ~ x.pkt
  <2>1. f + 1 < e
    BY <1>3, <1>8
  <2>2. ProcSeqData(a, x) = [a EXCEPT !.partial = Run(b, f + 1)]
    BY <1>6, <1>8 DEF ProcSeqData
  <2>3. a = [partial |-> Run(b, f), delivered |-> SubSeq(w, 1, d)]
    BY <1>1, <1>2 DEF AppHas
  <2>4. ProcSeqData(a, x) = [partial |-> Run(b, f + 1), delivered |-> SubSeq(w, 1, d)]
    BY <2>2, <2>3
  <2>5. b <= f + 1
    BY <1>3, <1>4
  <2>6. AppHas(w, ProcSeqData(a, x), f + 1, d)
    BY <1>2, <2>1, <2>4, <2>5 DEF AppHas
  <2>. QED
    BY <2>6 DEF AppAt
<1>. QED
  BY <1>7, <1>8

\* What an application has is determined by the fragments it was given.
LEMMA OneAppAt ==
    ASSUME NEW w, Messages(w), NEW f \in Nat, NEW a, AppAt(w, a, f), NEW b, AppAt(w, b, f)
    PROVE  a = b
<1>1. PICK c \in 0 .. Len(w), d \in 0 .. Len(w) : AppHas(w, a, f, c) /\ AppHas(w, b, f, d)
  BY DEF AppAt
<1>2. Len(w) \in Nat /\ c \in Nat /\ d \in Nat
  BY DEF Messages
<1>3. ASSUME NEW i \in 0 .. Len(w), NEW j \in 0 .. Len(w), i < j,
             NEW s, AppHas(w, s, f, i), NEW t, AppHas(w, t, f, j)
      PROVE  FALSE
  <2>1. i \in Nat /\ j \in Nat /\ i + 1 \in 0 .. Len(w) /\ i < Len(w)
    BY <1>2, <1>3
  <2>2. EndOf(w, i + 1) \in Nat /\ EndOf(w, j) \in Nat
    BY <2>1 DEF Messages
  <2>3. f < EndOf(w, i + 1) /\ EndOf(w, j) <= f
    BY <1>3, <2>1 DEF AppHas
  <2>4. i + 1 < j => EndOf(w, i + 1) < EndOf(w, j)
    BY <2>1 DEF Messages
  <2>5. i + 1 = j \/ i + 1 < j
    BY <1>3, <2>1
  <2>. QED
    BY <2>2, <2>3, <2>4, <2>5
<1>4. c = d
  BY <1>1, <1>2, <1>3
<1>. QED
  BY <1>1, <1>4 DEF AppHas

\* After any fragment of the messages an application has something.
LEMMA SomeAppAt ==
    ASSUME NEW w, Messages(w), NEW f \in Nat, f <= EndOf(w, Len(w))
    PROVE  \E a : AppAt(w, a, f)
<1>1. Len(w) \in Nat /\ EndOf(w, 0) = 0
  BY DEF Messages, EndOf
<1>2. PICK D : D = {d \in 0 .. Len(w) : EndOf(w, d) <= f}
  OBVIOUS
<1>3. D \in SUBSET Nat /\ 0 \in D /\ \A d \in D : d <= Len(w)
  BY <1>1, <1>2
<1>4. Max(D) \in D /\ \A d \in D : d <= Max(D)
  BY <1>1, <1>3, MaxOfNat
<1>5. PICK d : d = Max(D)
  OBVIOUS
<1>6. d \in 0 .. Len(w) /\ EndOf(w, d) <= f /\ d \in Nat
  BY <1>2, <1>3, <1>4, <1>5
<1>7. d < Len(w) => f < EndOf(w, d + 1)
  <2>1. SUFFICES ASSUME d < Len(w) PROVE f < EndOf(w, d + 1)
    OBVIOUS
  <2>2. d + 1 \in 0 .. Len(w) /\ d + 1 \notin D
    BY <1>1, <1>4, <1>5, <1>6, <2>1
  <2>3. EndOf(w, d + 1) \in Nat /\ ~ (EndOf(w, d + 1) <= f)
    BY <1>2, <2>2 DEF Messages
  <2>. QED
    BY <2>3
<1>8. AppHas(w, [partial |-> Run(EndOf(w, d), f), delivered |-> SubSeq(w, 1, d)], f, d)
  BY <1>6, <1>7 DEF AppHas
<1>. QED
  BY <1>6, <1>8 DEF AppAt

-----------------------------------------------------------------------------
(* A run is assembled.                                                     *)

\* callbackRecvData: the run brings the application to its last fragment.
LEMMA AssembleFacts ==
    ASSUME NEW w, Messages(w), NEW r, RecvOK(r), NEW a, AppAt(w, a, r.first),
           NEW x \in [seq : Nat, pkt : BOOLEAN], x.seq = r.first + 1,
           EndOfRun(r, x.seq) <= EndOf(w, Len(w)),
           \A y \in r.ahead \cup {x} : y.pkt <=> y.seq \in Ends(w)
    PROVE  AppAt(w, Assemble(r, a, x), EndOfRun(r, x.seq))
<1>1. PICK f, e : f = r.first /\ e = EndOfRun(r, x.seq)
  OBVIOUS
<1>2. /\ f \in Nat /\ e \in Nat /\ f + 1 <= e /\ x.seq = f + 1
      /\ r.ahead \subseteq [seq : Nat, pkt : BOOLEAN]
      /\ \A q \in Nat : f + 1 < q /\ q <= e => q \in AheadSeqs(r)
  BY <1>1, EndOfRunFacts DEF RecvOK, RecvBuf
<1>3. EndOf(w, Len(w)) \in Nat /\ e <= EndOf(w, Len(w))
  BY <1>1 DEF Messages
<1>4. \A q \in f + 1 .. e : /\ FragmentOf(r, x, q).seq = q
                            /\ FragmentOf(r, x, q).pkt <=> q \in Ends(w)
  <2>1. SUFFICES ASSUME NEW q \in f + 1 .. e
                 PROVE  FragmentOf(r, x, q) \in r.ahead \cup {x} /\ FragmentOf(r, x, q).seq = q
    OBVIOUS
  <2>2. CASE q = x.seq
    BY <2>2 DEF FragmentOf
  <2>3. CASE q # x.seq
    <3>1. q \in AheadSeqs(r)
      BY <1>2, <2>3
    <3>2. \E y \in r.ahead : y.seq = q
      BY <3>1 DEF AheadSeqs
    <3>. QED
      BY <2>3, <3>2 DEF FragmentOf
  <2>. QED
    BY <2>2, <2>3
<1>5. ASSUME NEW q \in f + 1 .. e, NEW b, AppAt(w, b, q - 1)
      PROVE  AppAt(w, ProcSeqData(b, FragmentOf(r, x, q)), q)
  <2>1. PICK y, g : y = FragmentOf(r, x, q) /\ g = q - 1
    OBVIOUS
  <2>2. g \in Nat /\ g < EndOf(w, Len(w)) /\ g + 1 = q
    BY <1>2, <1>3, <2>1
  <2>3. y.seq = g + 1 /\ (y.pkt <=> g + 1 \in Ends(w)) /\ AppAt(w, b, g)
    BY <1>4, <1>5, <2>1, <2>2
  <2>4. AppAt(w, ProcSeqData(b, y), g + 1)
    BY <2>2, <2>3, ProcSeqDataFacts
  <2>. QED
    BY <2>1, <2>2, <2>4
<1> DEFINE Body(h, q) == IF q < x.seq THEN a ELSE ProcSeqData(h[q - 1], FragmentOf(r, x, q))
<1>6. \E h : h = [q \in f .. e |-> Body(h, q)]
  <2> DEFINE g == [q \in f .. e |-> CHOOSE b : AppAt(w, b, q)]
  <2>1. \A q \in f .. e : AppAt(w, g[q], q)
    <3>1. \A q \in f .. e : \E b : AppAt(w, b, q)
      BY <1>2, <1>3, SomeAppAt
    <3>. QED
      BY <3>1
  <2> HIDE DEF g
  <2>2. ASSUME NEW q \in f .. e PROVE g[q] = Body(g, q)
    <3>1. CASE q = f
      <4>1. AppAt(w, g[f], f) /\ AppAt(w, a, f) /\ q < x.seq
        BY <1>1, <1>2, <2>1, <3>1
      <4>2. g[f] = a
        BY <1>2, <4>1, OneAppAt
      <4>. QED
        BY <3>1, <4>1, <4>2
    <3>2. CASE q # f
      <4>1. q \in f + 1 .. e /\ q - 1 \in f .. e /\ ~ (q < x.seq) /\ q \in Nat
        BY <1>2, <3>2
      <4>2. AppAt(w, ProcSeqData(g[q - 1], FragmentOf(r, x, q)), q)
        BY <1>5, <2>1, <4>1
      <4>3. g[q] = ProcSeqData(g[q - 1], FragmentOf(r, x, q))
        BY <2>1, <4>1, <4>2, OneAppAt
      <4>. QED
        BY <4>1, <4>3
    <3>. QED
      BY <3>1, <3>2
  <2>3. g = [q \in f .. e |-> g[q]]
    BY DEF g
  <2>. QED
    BY <2>2, <2>3, ZenonT(30)
<1>7. PICK h : h = [q \in f .. e |-> Body(h, q)] /\ Assemble(r, a, x) = h[e]
  <2>1. x.seq - 1 = f
    BY <1>2
  <2>. QED
    BY <1>1, <1>6, <2>1 DEF Assemble
<1>8. \A q \in f .. e : h[q] = Body(h, q)
  BY <1>7
<1>9. \A q \in f .. e : AppAt(w, h[q], q)
  <2>1. PICK Bad : Bad = {q \in f .. e : ~ AppAt(w, h[q], q)}
    OBVIOUS
  <2>2. SUFFICES ASSUME Bad # {} PROVE FALSE
    BY <2>1
  <2>3. Bad \in SUBSET Nat
    BY <1>2, <2>1
  <2>4. PICK q \in Bad : \A i \in Bad : q <= i
    BY <2>2, <2>3, MinOfNat
  <2>5. q \in f .. e /\ ~ AppAt(w, h[q], q)
    BY <2>1
  <2>6. CASE q = f
    <3>1. h[f] = a
      BY <1>2, <1>8, <2>5, <2>6
    <3>. QED
      BY <1>1, <2>5, <2>6, <3>1
  <2>7. CASE q # f
    <3>1. q \in f + 1 .. e /\ q - 1 \in f .. e /\ ~ (q < x.seq) /\ ~ (q <= q - 1)
      BY <1>2, <2>5, <2>7
    <3>2. AppAt(w, h[q - 1], q - 1)
      BY <2>1, <2>4, <3>1
    <3>3. h[q] = ProcSeqData(h[q - 1], FragmentOf(r, x, q))
      BY <1>8, <2>5, <3>1
    <3>. QED
      BY <1>5, <2>5, <3>1, <3>2, <3>3
  <2>. QED
    BY <2>6, <2>7
<1>10. e \in f .. e
  BY <1>2
<1> HIDE DEF Body
<1>. QED
  BY <1>1, <1>7, <1>9, <1>10

-----------------------------------------------------------------------------
(* The messages an application has, one behind the other.                  *)

\* The first d messages are the fragments up to the last of them.
LEMMA FlattenFacts ==
    ASSUME NEW w, Messages(w), NEW d \in 0 .. Len(w)
    PROVE  FlattenSeq(SubSeq(w, 1, d)) = Run(0, EndOf(w, d))
<1>1. PICK s : s = SubSeq(w, 1, d)
  OBVIOUS
<1>2. /\ s \in Seq(Seq(Nat)) /\ Len(s) = d /\ d \in Nat /\ Len(w) \in Nat
      /\ \A i \in 1 .. d : s[i] = w[i]
  BY <1>1, BeginFacts DEF Messages
<1>3. CASE d = 0
  <2>1. s = <<>> /\ FlattenSeq(s) = s
    BY <1>2, <1>3 DEF FlattenSeq
  <2>2. Run(0, EndOf(w, d)) = <<>>
    BY <1>3 DEF Run, EndOf
  <2>. QED
    BY <1>1, <2>1, <2>2
<1>4. CASE d # 0
  <2> DEFINE Body(h, i) == IF i = 1 THEN s[i] ELSE h[i - 1] \o s[i]
             g == [i \in 1 .. d |-> Run(0, EndOf(w, i))]
  <2>1. ASSUME NEW i \in 1 .. d
        PROVE  Run(0, EndOf(w, i)) = IF i = 1 THEN s[i] ELSE Run(0, EndOf(w, i - 1)) \o s[i]
    <3>1. i \in 1 .. Len(w) /\ i \in 0 .. Len(w) /\ i - 1 \in 0 .. Len(w) /\ i - 1 < i
      BY <1>2
    <3>2. PICK b, e : b = EndOf(w, i - 1) /\ e = EndOf(w, i)
      OBVIOUS
    <3>3. b \in Nat /\ e \in Nat /\ b <= e /\ w[i] = Run(b, e)
      <4>1. b \in Nat /\ e \in Nat /\ b < e
        BY <3>1, <3>2 DEF Messages
      <4>2. w[i] = Run(b, e)
        BY <3>1, <3>2 DEF Messages
      <4>. QED
        BY <4>1, <4>2
    <3>4. s[i] = Run(b, e)
      BY <1>2, <3>3
    <3>5. i = 1 => b = 0
      BY <3>2 DEF EndOf
    <3>6. Run(0, b) \o Run(b, e) = Run(0, e)
      <4>1. 0 \in Nat /\ 0 <= b
        BY <3>3
      <4>. QED
        BY <3>3, <4>1, RunsJoin
    <3>. QED
      BY <3>2, <3>4, <3>5, <3>6
  <2>2. \E h : h = [i \in 1 .. d |-> Body(h, i)]
    <3>1. \A i \in 1 .. d : g[i] = Body(g, i)
      <4>1. ASSUME NEW i \in 1 .. d PROVE g[i] = Body(g, i)
        <5>1. i # 1 => i - 1 \in 1 .. d
          BY <1>2
        <5>. QED
          BY <2>1, <5>1
      <4>. QED
        BY <4>1
    <3>2. g = [i \in 1 .. d |-> g[i]]
      OBVIOUS
    <3> HIDE DEF g
    <3>. QED
      BY <3>1, <3>2, ZenonT(30)
  <2>3. PICK h : h = [i \in 1 .. d |-> Body(h, i)] /\ FlattenSeq(s) = h[d]
    BY <1>2, <1>4, <2>2 DEF FlattenSeq
  <2>4. \A i \in 1 .. d : h[i] = Body(h, i)
    BY <2>3
  <2>5. \A i \in 1 .. d : h[i] = Run(0, EndOf(w, i))
    <3>1. PICK Bad : Bad = {i \in 1 .. d : h[i] # Run(0, EndOf(w, i))}
      OBVIOUS
    <3>2. SUFFICES ASSUME Bad # {} PROVE FALSE
      BY <3>1
    <3>3. Bad \in SUBSET Nat
      BY <1>2, <3>1
    <3>4. PICK i \in Bad : \A j \in Bad : i <= j
      BY <3>2, <3>3, MinOfNat
    <3>5. i \in 1 .. d /\ h[i] # Run(0, EndOf(w, i))
      BY <3>1
    <3>6. CASE i = 1
      BY <2>1, <2>4, <3>5, <3>6
    <3>7. CASE i # 1
      <4>1. i - 1 \in 1 .. d /\ ~ (i <= i - 1)
        BY <1>2, <3>5, <3>7
      <4>2. h[i - 1] = Run(0, EndOf(w, i - 1))
        BY <3>1, <3>4, <4>1
      <4>. QED
        BY <2>1, <2>4, <3>5, <3>7, <4>2
    <3>. QED
      BY <3>6, <3>7
  <2>6. d \in 1 .. d
    BY <1>2, <1>4
  <2>. QED
    BY <1>1, <2>3, <2>5, <2>6
<1>. QED
  BY <1>3, <1>4

-----------------------------------------------------------------------------
(* The two sides of a direction.                                           *)

\* One message more: what was given to the application so far means the same.
LEMMA OneMessageMore ==
    ASSUME NEW w, Messages(w), NEW k \in Nat \ {0},
           NEW v, v = Append(w, Run(EndOf(w, Len(w)), EndOf(w, Len(w)) + k))
    PROVE  /\ Messages(v) /\ EndOf(v, Len(v)) = EndOf(w, Len(w)) + k
           /\ Ends(v) = Ends(w) \cup {EndOf(w, Len(w)) + k}
           /\ \A a : \A f \in 0 .. EndOf(w, Len(w)) : AppAt(w, a, f) => AppAt(v, a, f)
<1>1. PICK n, E, m : n = Len(w) /\ E = EndOf(w, n) /\ m = Run(E, E + k)
  OBVIOUS
<1>2. /\ w \in Seq(Seq(Nat)) /\ n \in Nat /\ E \in Nat
      /\ \A j \in 0 .. n : EndOf(w, j) \in Nat
      /\ \A i, j \in 0 .. n : i < j => EndOf(w, i) < EndOf(w, j)
      /\ \A j \in 1 .. n : w[j] = Run(EndOf(w, j - 1), EndOf(w, j))
  BY <1>1 DEF Messages
<1>3. m \in Seq(Nat) /\ Len(m) = k /\ m[k] = E + k
  <2>1. PICK e : e = E + k /\ e \in Nat /\ E <= e /\ e - E = k
    BY <1>2
  <2>2. /\ Run(E, e) \in Seq(Nat) /\ Len(Run(E, e)) = e - E
        /\ \A i \in 1 .. e - E : Run(E, e)[i] = E + i
    BY <1>2, <2>1, RunFacts
  <2>. QED
    BY <1>1, <2>1, <2>2
<1>4. /\ v \in Seq(Seq(Nat)) /\ Len(v) = n + 1 /\ v[n + 1] = m
      /\ \A i \in 1 .. n : v[i] = w[i]
  <2>1. v = Append(w, m)
    BY <1>1
  <2>. QED
    BY <1>1, <1>2, <1>3, <2>1
<1>5. \A j \in 0 .. n : EndOf(v, j) = EndOf(w, j)
  BY <1>2, <1>4 DEF EndOf
<1>6. EndOf(v, n + 1) = E + k
  BY <1>2, <1>3, <1>4 DEF EndOf
<1>7. \A j \in 0 .. n + 1 : j \in 0 .. n \/ j = n + 1
  BY <1>2
<1>8. \A j \in 0 .. n : EndOf(w, j) <= E
  <2>1. SUFFICES ASSUME NEW j \in 0 .. n PROVE EndOf(w, j) <= E
    OBVIOUS
  <2>2. n \in 0 .. n /\ EndOf(w, j) \in Nat /\ (j < n \/ j = n)
    BY <1>2
  <2>3. j < n => EndOf(w, j) < EndOf(w, n)
    BY <1>2, <2>2
  <2>. QED
    BY <1>1, <1>2, <2>2, <2>3
<1>9. Messages(v)
  <2>1. \A j \in 0 .. n + 1 : EndOf(v, j) \in Nat
    BY <1>2, <1>5, <1>6, <1>7
  <2>2. \A i, j \in 0 .. n + 1 : i < j => EndOf(v, i) < EndOf(v, j)
    <3>1. SUFFICES ASSUME NEW i \in 0 .. n + 1, NEW j \in 0 .. n + 1, i < j
                   PROVE  EndOf(v, i) < EndOf(v, j)
      OBVIOUS
    <3>2. i \in 0 .. n
      BY <1>2, <3>1
    <3>3. CASE j \in 0 .. n
      BY <1>2, <1>5, <3>1, <3>2, <3>3
    <3>4. CASE j = n + 1
      <4>1. EndOf(v, i) = EndOf(w, i) /\ EndOf(w, i) \in Nat /\ EndOf(w, i) <= E
        BY <1>2, <1>5, <1>8, <3>2
      <4>. QED
        BY <1>2, <1>6, <3>4, <4>1
    <3>. QED
      BY <1>7, <3>3, <3>4
  <2>3. ASSUME NEW j \in 1 .. n + 1 PROVE v[j] = Run(EndOf(v, j - 1), EndOf(v, j))
    <3>1. CASE j \in 1 .. n
      <4>1. j - 1 \in 0 .. n /\ j \in 0 .. n
        BY <1>2, <3>1
      <4>. QED
        BY <1>2, <1>4, <1>5, <3>1, <4>1
    <3>2. CASE j = n + 1
      <4>1. j - 1 = n /\ n \in 0 .. n
        BY <1>2, <3>2
      <4>. QED
        BY <1>1, <1>4, <1>5, <1>6, <3>2, <4>1
    <3>3. j \in 1 .. n \/ j = n + 1
      BY <1>2
    <3>. QED
      BY <3>1, <3>2, <3>3
  <2>. QED
    BY <1>4, <2>1, <2>2, <2>3 DEF Messages
<1>10. Ends(v) = Ends(w) \cup {E + k}
  <2>1. \A j \in 1 .. n + 1 : j \in 1 .. n \/ j = n + 1
    BY <1>2
  <2>2. 1 .. n \subseteq 0 .. n /\ 1 .. n \subseteq 1 .. n + 1 /\ n + 1 \in 1 .. n + 1
    BY <1>2
  <2>. QED
    BY <1>1, <1>4, <1>5, <1>6, <2>1, <2>2, ZenonT(30) DEF Ends
<1>11. \A d \in 0 .. n : SubSeq(v, 1, d) = SubSeq(w, 1, d)
  <2>1. SUFFICES ASSUME NEW d \in 0 .. n PROVE SubSeq(v, 1, d) = SubSeq(w, 1, d)
    OBVIOUS
  <2>2. d \in 0 .. Len(v) /\ d \in 0 .. Len(w)
    BY <1>1, <1>2, <1>4
  <2>3. PICK s, t : s = SubSeq(v, 1, d) /\ t = SubSeq(w, 1, d)
    OBVIOUS
  <2>4. /\ s \in Seq(Seq(Nat)) /\ Len(s) = d /\ \A i \in 1 .. d : s[i] = v[i]
        /\ t \in Seq(Seq(Nat)) /\ Len(t) = d /\ \A i \in 1 .. d : t[i] = w[i]
    BY <1>2, <1>4, <2>2, <2>3, BeginFacts
  <2>5. \A i \in 1 .. d : i \in 1 .. n
    BY <1>2
  <2>. QED
    BY <1>4, <2>3, <2>4, <2>5, SeqEqual, ZenonT(30)
<1>12. ASSUME NEW a, NEW f \in 0 .. E, AppAt(w, a, f) PROVE AppAt(v, a, f)
  <2>1. PICK d \in 0 .. n : AppHas(w, a, f, d)
    BY <1>1, <1>12 DEF AppAt
  <2>2. /\ a = [partial |-> Run(EndOf(v, d), f), delivered |-> SubSeq(v, 1, d)]
        /\ EndOf(v, d) <= f
    BY <1>5, <1>11, <2>1 DEF AppHas
  <2>3. f < EndOf(v, d + 1)
    <3>1. CASE d = n
      BY <1>2, <1>6, <3>1
    <3>2. CASE d # n
      <4>1. d < n /\ d + 1 \in 0 .. n
        BY <1>2, <3>2
      <4>. QED
        BY <1>1, <1>5, <2>1, <4>1 DEF AppHas
    <3>. QED
      BY <3>1, <3>2
  <2>4. d \in 0 .. Len(v)
    BY <1>2, <1>4
  <2>. QED
    BY <2>2, <2>3, <2>4 DEF AppHas, AppAt
<1>. QED
  BY <1>1, <1>4, <1>6, <1>9, <1>10, <1>12

\* A handler may notify more of what the other end has, and nothing else.
LEMMA SenderSide ==
    ASSUME NEW w, NEW s, NEW r, NEW a, Direction(w, s, r, a),
           NEW t, t.bufSeq = s.bufSeq, t.flagged = s.flagged,
           \A q \in t.notified : q \in s.notified \/ (q \in s.flagged /\ q <= r.first)
    PROVE  Direction(w, t, r, a)
BY DEF Direction, Tagged

\* A handler may take fragments, with what they give to the application.
LEMMA ReceiverSide ==
    ASSUME NEW w, NEW s \in SendBuf, NEW r \in RecvBuf, NEW a, Direction(w, s, r, a),
           NEW u \in RecvBuf, NEW b, AppAt(w, b, u.first), r.first <= u.first, u.first < s.bufSeq,
           \A y \in u.ahead : Tagged(s, y.seq, y.pkt)
    PROVE  Direction(w, s, u, b)
<1>1. s.notified \subseteq Nat /\ r.first \in Nat /\ u.first \in Nat
  BY DEF SendBuf, RecvBuf
<1>2. \A q \in s.notified : q \in s.flagged /\ q <= u.first
  BY <1>1 DEF Direction
<1>. QED
  BY <1>2 DEF Direction

\* A fragment stays what it is when a message follows.
LEMMA TaggedStays ==
    ASSUME NEW s \in SendBuf, NEW k \in Nat \ {0}, NEW q \in Nat, NEW pkt, Tagged(s, q, pkt),
           NEW t, Longer(s, t, k)
    PROVE  Tagged(t, q, pkt)
<1>1. s.bufSeq \in Nat
  BY DEF SendBuf
<1>2. q < s.bufSeq + k /\ q # s.bufSeq + k - 1
  BY <1>1 DEF Tagged
<1>. QED
  BY <1>2 DEF Tagged, Longer

\* sendDataDirect: a direction gets one message more.
LEMMA WritingSide ==
    ASSUME NEW w, NEW s \in SendBuf, NEW r \in RecvBuf, NEW a, Direction(w, s, r, a),
           NEW k \in Nat \ {0}, NEW t, Longer(s, t, k),
           NEW v, v = Append(w, Run(s.bufSeq - 1, s.bufSeq - 1 + k))
    PROVE  Direction(v, t, r, a)
<1>1. PICK E : E = EndOf(w, Len(w))
  OBVIOUS
<1>2. /\ Messages(w) /\ E = s.bufSeq - 1 /\ s.bufSeq \in Nat \ {0}
      /\ r.first \in Nat /\ r.first < s.bufSeq
  BY <1>1 DEF Direction, SendBuf, RecvBuf
<1>3. E \in Nat /\ s.bufSeq = E + 1 /\ r.first \in 0 .. E
  BY <1>2
<1>4. s.bufSeq - 1 = E
  BY <1>3
<1>5. v = Append(w, Run(EndOf(w, Len(w)), EndOf(w, Len(w)) + k))
  BY <1>1, <1>4
<1>6. /\ Messages(v) /\ EndOf(v, Len(v)) = EndOf(w, Len(w)) + k
      /\ Ends(v) = Ends(w) \cup {EndOf(w, Len(w)) + k}
      /\ \A b : \A f \in 0 .. EndOf(w, Len(w)) : AppAt(w, b, f) => AppAt(v, b, f)
  BY <1>2, <1>5, OneMessageMore, Zenon
<1>7. EndOf(v, Len(v)) = t.bufSeq - 1 /\ r.first < t.bufSeq
  BY <1>1, <1>3, <1>6 DEF Longer
<1>8. t.flagged = Ends(v)
  <2>1. s.bufSeq + k - 1 = E + k
    BY <1>3
  <2>. QED
    BY <1>1, <1>6, <2>1 DEF Direction, Longer
<1>9. AppAt(v, a, r.first)
  BY <1>1, <1>3, <1>6 DEF Direction
<1>10. \A y \in r.ahead : Tagged(t, y.seq, y.pkt)
  <2>1. \A y \in r.ahead : y.seq \in Nat /\ Tagged(s, y.seq, y.pkt)
    BY DEF Direction, RecvBuf
  <2>. QED
    BY <2>1, TaggedStays
<1>11. \A q \in t.notified : q \in t.flagged /\ q <= r.first
  BY DEF Direction, Longer
<1>. QED
  BY <1>6, <1>7, <1>8, <1>9, <1>10, <1>11 DEF Direction

-----------------------------------------------------------------------------
(* The handlers.                                                           *)

\* A handler of end p: it sends fragments that are queued, notifies messages that the other
\* end has, and gives the application what it took in order.
SendsAs(p) ==
    /\ snd'[p].bufSeq = snd[p].bufSeq /\ snd'[p].flagged = snd[p].flagged
    /\ snd[p].notified \subseteq snd'[p].notified
    /\ \A q \in snd'[p].notified :
         q \in snd[p].notified \/ (q \in snd[p].flagged /\ q <= rcv[Other(p)].first)
    /\ \A m \in net' \ net : m.type = "data" => m.src = p /\ Tagged(snd[p], m.seq, m.pkt)

TakesAs(p) ==
    /\ AppAt(written[Other(p)], app'[p], rcv'[p].first)
    /\ rcv[p].first <= rcv'[p].first /\ rcv'[p].first < snd[Other(p)].bufSeq
    /\ \A y \in rcv'[p].ahead : Tagged(snd[Other(p)], y.seq, y.pkt)

Handled(p) ==
    /\ written' = written /\ DOMAIN app' = Peers
    /\ snd'[Other(p)] = snd[Other(p)] /\ rcv'[Other(p)] = rcv[Other(p)]
    /\ app'[Other(p)] = app[Other(p)]
    /\ SendsAs(p) /\ TakesAs(p)

\* The ends of an end's two directions.
LEMMA TwoDirections ==
    ASSUME IInv, FifoInv, NEW p \in Peers
    PROVE  /\ Other(p) \in Peers /\ Other(p) # p /\ Other(Other(p)) = p
           /\ \A o \in Peers : o = p \/ o = Other(p)
           /\ SendOK(snd[p]) /\ RecvOK(rcv[p]) /\ SendOK(snd[Other(p)]) /\ RecvOK(rcv[Other(p)])
           /\ snd[p] \in SendBuf /\ snd[Other(p)] \in SendBuf
           /\ rcv[p] \in RecvBuf /\ rcv[Other(p)] \in RecvBuf
           /\ Direction(written[p], snd[p], rcv[Other(p)], app[Other(p)])
           /\ Direction(written[Other(p)], snd[Other(p)], rcv[p], app[p])
<1>1. /\ Other(p) \in Peers /\ Other(p) # p /\ Other(Other(p)) = p
      /\ \A o \in Peers : o = p \/ o = Other(p)
  BY OtherFacts DEF Peers, Other
<1>2. SendOK(snd[p]) /\ RecvOK(rcv[p]) /\ SendOK(snd[Other(p)]) /\ RecvOK(rcv[Other(p)])
  BY <1>1 DEF IInv, BuffersOK
<1>3. /\ Direction(written[p], snd[p], rcv[Other(p)], app[Other(p)])
      /\ Direction(written[Other(p)], snd[Other(p)], rcv[p], app[p])
  BY <1>1 DEF FifoInv
<1>. QED
  BY <1>1, <1>2, <1>3 DEF SendOK, RecvOK

\* The invariant of what the applications get holds after a handler.
LEMMA HandledKeeps ==
    ASSUME IInv, FifoInv, IInv', NEW p \in Peers, Handled(p)
    PROVE  FifoInv'
<1>1. PICK o : o = Other(p)
  OBVIOUS
<1>2. /\ o \in Peers /\ o # p /\ Other(o) = p /\ \A e \in Peers : e = p \/ e = o
      /\ snd[p] \in SendBuf /\ snd[o] \in SendBuf /\ rcv[p] \in RecvBuf /\ rcv[o] \in RecvBuf
      /\ Direction(written[p], snd[p], rcv[o], app[o])
      /\ Direction(written[o], snd[o], rcv[p], app[p])
  BY <1>1, TwoDirections
<1>3. PICK s, u, b : s = snd'[p] /\ u = rcv'[p] /\ b = app'[p]
  OBVIOUS
<1>4. u \in RecvBuf
  BY <1>3 DEF IInv, TypeOK
<1>5. /\ s.bufSeq = snd[p].bufSeq /\ s.flagged = snd[p].flagged
      /\ \A q \in s.notified : q \in snd[p].notified \/ (q \in snd[p].flagged /\ q <= rcv[o].first)
  BY <1>1, <1>3 DEF Handled, SendsAs
<1>6. Direction(written[p], s, rcv[o], app[o])
  BY <1>2, <1>5, SenderSide
<1>7. /\ AppAt(written[o], b, u.first) /\ rcv[p].first <= u.first /\ u.first < snd[o].bufSeq
      /\ \A y \in u.ahead : Tagged(snd[o], y.seq, y.pkt)
  BY <1>1, <1>3 DEF Handled, TakesAs
<1>8. Direction(written[o], snd[o], u, b)
  BY <1>2, <1>4, <1>7, ReceiverSide
<1>9. /\ written' = written /\ DOMAIN app' = Peers
      /\ snd'[o] = snd[o] /\ rcv'[o] = rcv[o] /\ app'[o] = app[o]
  BY <1>1 DEF Handled
<1>10. ASSUME NEW e \in Peers
       PROVE  Direction(written'[e], snd'[e], rcv'[Other(e)], app'[Other(e)])
  BY <1>1, <1>2, <1>3, <1>6, <1>8, <1>9
<1>11. ASSUME NEW m \in net', m.type = "data" PROVE Tagged(snd'[m.src], m.seq, m.pkt)
  <2>1. CASE m \in net
    <3>1. Tagged(snd[m.src], m.seq, m.pkt)
      BY <1>11, <2>1 DEF FifoInv
    <3>2. m.src \in Peers
      BY <2>1 DEF IInv, TypeOK, DatagramWith
    <3>. QED
      BY <1>2, <1>3, <1>5, <1>9, <3>1, <3>2 DEF Tagged
  <2>2. CASE m \notin net
    <3>1. m.src = p /\ Tagged(snd[p], m.seq, m.pkt)
      BY <1>11, <2>2 DEF Handled, SendsAs
    <3>. QED
      BY <1>3, <1>5, <3>1 DEF Tagged
  <2>. QED
    BY <2>1, <2>2
<1>12. DOMAIN written' = Peers
  BY <1>9 DEF FifoInv
<1>. QED
  BY <1>9, <1>10, <1>11, <1>12 DEF FifoInv

\* A handler that gives the application nothing.
LEMMA TakesNothing ==
    ASSUME IInv, FifoInv, NEW p \in Peers, app' = app,
           rcv'[p].first = rcv[p].first, rcv'[p].ahead = rcv[p].ahead
    PROVE  TakesAs(p)
<1>1. Direction(written[Other(p)], snd[Other(p)], rcv[p], app[p]) /\ rcv[p] \in RecvBuf
  BY TwoDirections
<1>2. rcv[p].first \in Nat
  BY <1>1 DEF RecvBuf
<1>. QED
  BY <1>1, <1>2 DEF TakesAs, Direction

\* What sendNode sends is tagged as its fragment was when it was queued.
LEMMA SendNodeTags ==
    ASSUME NEW p \in Peers, NEW s, SendOK(s), NEW N \in SUBSET Queue(s), NEW G \in SUBSET Queue(s)
    PROVE  /\ SendNode(s, N, G).bufSeq = s.bufSeq /\ SendNode(s, N, G).flagged = s.flagged
           /\ SendNode(s, N, G).notified = s.notified
           /\ \A m \in DataOf(p, s, N \cup G) : m.src = p /\ Tagged(s, m.seq, m.pkt)
<1>1. SendNode(s, N, G).bufSeq = s.bufSeq /\ SendNode(s, N, G).flagged = s.flagged
  BY SendNodeFacts
<1>2. SendNode(s, N, G).notified = s.notified
  BY DEF SendNode, SendOK, SendBuf
<1>3. ASSUME NEW m \in DataOf(p, s, N \cup G) PROVE m.src = p /\ Tagged(s, m.seq, m.pkt)
  <2>1. PICK q \in N \cup G : m = DataMsg(p, q, q \in s.flagged, rcv[p].first)
    BY DEF DataOf
  <2>2. PICK b : b = (q \in s.flagged)
    OBVIOUS
  <2>3. m.src = p /\ m.seq = q /\ m.pkt = b
    BY <2>1, <2>2 DEF DataMsg
  <2>4. q < s.bufSeq
    BY DEF Queue, SendOK, SendBuf
  <2>. QED
    BY <2>2, <2>3, <2>4 DEF Tagged
<1>. QED
  BY <1>1, <1>2, <1>3

\* Handlers of acknowledgements and repairs, and of what data acknowledges: an
\* acknowledgement that is true notifies messages the other end has.
LEMMA Resends ==
    ASSUME IInv, FifoInv, NEW p \in Peers, NEW s, SendOK(s),
           s.bufSeq = snd[p].bufSeq, s.flagged = snd[p].flagged,
           snd[p].notified \subseteq s.notified,
           \A q \in s.notified :
             q \in snd[p].notified \/ (q \in snd[p].flagged /\ q <= rcv[Other(p)].first),
           NEW N \in SUBSET Queue(s), NEW G \in SUBSET Queue(s),
           snd' = [snd EXCEPT ![p] = SendNode(s, N, G)],
           NEW msgs, \A m \in msgs : m.type # "data",
           net' \subseteq net \cup DataOf(p, s, N \cup G) \cup msgs
    PROVE  SendsAs(p) /\ snd'[Other(p)] = snd[Other(p)]
<1>1. snd \in [Peers -> SendBuf] /\ Other(p) \in Peers /\ Other(p) # p
  BY OtherFacts DEF IInv, TypeOK
<1>2. PICK t : t = SendNode(s, N, G)
  OBVIOUS
<1>3. snd'[p] = t /\ snd'[Other(p)] = snd[Other(p)]
  BY <1>1, <1>2
<1>4. /\ t.bufSeq = s.bufSeq /\ t.flagged = s.flagged /\ t.notified = s.notified
      /\ \A m \in DataOf(p, s, N \cup G) : m.src = p /\ Tagged(s, m.seq, m.pkt)
  BY <1>2, SendNodeTags
<1>5. \A m \in net' \ net : m.type = "data" => m.src = p /\ Tagged(snd[p], m.seq, m.pkt)
  BY <1>4 DEF Tagged
<1>. QED
  BY <1>3, <1>4, <1>5 DEF SendsAs


\* A handler that gives the application nothing and writes only its own receive buffer.
LEMMA GivesNothing ==
    ASSUME IInv, FifoInv, NEW p \in Peers, SendsAs(p), snd'[Other(p)] = snd[Other(p)],
           NEW r, rcv' = [rcv EXCEPT ![p] = r], Unmoved(rcv[p], r),
           written' = written, app' = app
    PROVE  Handled(p)
<1>1. rcv'[p] = r /\ rcv'[Other(p)] = rcv[Other(p)]
  BY OtherFacts DEF IInv, TypeOK
<1>2. TakesAs(p)
  <2>1. rcv'[p].first = rcv[p].first /\ rcv'[p].ahead = rcv[p].ahead
    BY <1>1 DEF Unmoved
  <2>. QED
    BY <2>1, TakesNothing
<1>3. DOMAIN app' = Peers /\ app'[Other(p)] = app[Other(p)]
  BY DEF FifoInv
<1>. QED
  BY <1>1, <1>2, <1>3 DEF Handled

\* What a handler sends that is not data, and timers and windows, matter to neither side.
LEMMA SendsNoData ==
    ASSUME IInv, FifoInv, NEW p \in Peers,
           NEW t, snd' = [snd EXCEPT ![p] = t],
           t.bufSeq = snd[p].bufSeq, t.flagged = snd[p].flagged, t.notified = snd[p].notified,
           \A m \in net' \ net : m.type # "data"
    PROVE  SendsAs(p) /\ snd'[Other(p)] = snd[Other(p)]
<1>1. snd'[p] = t /\ snd'[Other(p)] = snd[Other(p)]
  BY OtherFacts DEF IInv, TypeOK
<1>. QED
  BY <1>1 DEF SendsAs

\* An acknowledgement that is true notifies whole messages the other end has.
LEMMA AckNotifies ==
    ASSUME IInv, NEW p \in Peers, NEW a \in Nat, a <= rcv[Other(p)].first
    PROVE  LET s == OnDataAck(snd[p], a)
           IN  /\ SendOK(s) /\ s.bufSeq = snd[p].bufSeq /\ s.flagged = snd[p].flagged
               /\ snd[p].notified \subseteq s.notified
               /\ \A q \in s.notified :
                    q \in snd[p].notified \/ (q \in snd[p].flagged /\ q <= rcv[Other(p)].first)
<1>1. /\ SendOK(snd[p]) /\ RecvOK(rcv[Other(p)]) /\ Covered(snd[p], Got(rcv[Other(p)]))
      /\ snd[p] \in SendBuf /\ rcv[Other(p)].first \in Nat
  <2>1. Other(p) \in Peers
    BY OtherFacts
  <2>. QED
    BY <2>1 DEF IInv, TypeOK, BuffersOK, NothingLost, Covered, Received, RecvBuf
<1>2. SendOK(OnDataAck(snd[p], a))
  BY <1>1, OnDataAckFacts
<1>3. PICK s : s = OnDataAck(snd[p], a)
  OBVIOUS
<1>4. /\ s.bufSeq = snd[p].bufSeq /\ s.flagged = snd[p].flagged
      /\ s.notified = snd[p].notified \cup (Acked(snd[p], a) \cap snd[p].flagged)
  BY <1>1, <1>3 DEF OnDataAck, SendBuf
<1>5. \A q \in Acked(snd[p], a) : q <= rcv[Other(p)].first
  <2>1. \A q \in Acked(snd[p], a) : q \in Int /\ q <= a
    BY DEF Acked, Queue
  <2>. QED
    BY <1>1, <2>1
<1>. QED
  BY <1>2, <1>3, <1>4, <1>5

\* procRudpAckMsg.
LEMMA RecvAckHandled ==
    ASSUME IInv, FifoInv, NEW m \in net, NEW dup \in BOOLEAN, NEW p, p = Other(m.src),
           RecvAck(p, m, dup)
    PROVE  Handled(p)
<1> DEFINE s == OnDataAck(snd[p], m.seq)
<1>1. PICK N \in SUBSET Queue(s), G \in SUBSET Queue(s) :
         /\ snd' = [snd EXCEPT ![p] = SendNode(s, N, G)]
         /\ rcv' = [rcv EXCEPT ![p] = GetAckId(rcv[p], N)]
         /\ Transmit(Left(m, dup), DataOf(p, s, N \cup G))
         /\ app' = app /\ written' = written
  BY DEF RecvAck
<1>2. m.type = "ack" /\ p \in Peers /\ RecvOK(rcv[p]) /\ Left(m, dup) \subseteq net
  BY ArrivalFacts DEF RecvAck
<1>3. m.seq \in Nat /\ m.seq <= rcv[Other(p)].first
  BY <1>2, ArrivalFacts DEF DatagramWith, Reports
<1>4. /\ SendOK(s) /\ s.bufSeq = snd[p].bufSeq /\ s.flagged = snd[p].flagged
      /\ snd[p].notified \subseteq s.notified
      /\ \A q \in s.notified :
           q \in snd[p].notified \/ (q \in snd[p].flagged /\ q <= rcv[Other(p)].first)
  BY <1>2, <1>3, AckNotifies
<1> HIDE DEF s
<1>5. PICK none : none = {}
  OBVIOUS
<1>6. net' \subseteq net \cup DataOf(p, s, N \cup G) \cup none
  BY <1>1, <1>2, TransmitFacts
<1>7. \A d \in none : d.type # "data"
  BY <1>5
<1>8. SendsAs(p) /\ snd'[Other(p)] = snd[Other(p)]
  BY <1>1, <1>2, <1>4, <1>5, <1>6, <1>7, Resends, Zenon
<1>9. Unmoved(rcv[p], GetAckId(rcv[p], N))
  BY <1>2, UnmovedFacts
<1>. QED
  BY <1>1, <1>2, <1>8, <1>9, GivesNothing

\* procRudpAck2Msg: a selective acknowledgement notifies nothing.
LEMMA RecvAck2Handled ==
    ASSUME IInv, FifoInv, NEW m \in net, NEW dup \in BOOLEAN, NEW p, p = Other(m.src),
           RecvAck2(p, m, dup)
    PROVE  Handled(p)
<1> DEFINE s == OnDataAck2(snd[p], m.seq)
<1>1. PICK N \in SUBSET Queue(s), G \in SUBSET Queue(s) :
         /\ snd' = [snd EXCEPT ![p] = SendNode(s, N, G)]
         /\ rcv' = [rcv EXCEPT ![p] = GetAckId(rcv[p], N)]
         /\ Transmit(Left(m, dup), DataOf(p, s, N \cup G))
         /\ app' = app /\ written' = written
  BY DEF RecvAck2
<1>2. /\ m.type = "ack2" /\ p \in Peers /\ RecvOK(rcv[p]) /\ Left(m, dup) \subseteq net
      /\ SendOK(snd[p]) /\ Covered(snd[p], Got(rcv[Other(p)]))
  BY ArrivalFacts DEF RecvAck2
<1>3. m.seq \in Nat /\ m.seq \in Got(rcv[Other(p)])
  BY <1>2, ArrivalFacts DEF DatagramWith, Reports
<1>4. SendOK(s)
  BY <1>2, <1>3, OnDataAck2Facts
<1>5. /\ s.bufSeq = snd[p].bufSeq /\ s.flagged = snd[p].flagged
      /\ snd[p].notified \subseteq s.notified
      /\ \A q \in s.notified :
           q \in snd[p].notified \/ (q \in snd[p].flagged /\ q <= rcv[Other(p)].first)
  BY <1>2 DEF OnDataAck2, SendOK, SendBuf
<1> HIDE DEF s
<1>6. PICK none : none = {}
  OBVIOUS
<1>7. net' \subseteq net \cup DataOf(p, s, N \cup G) \cup none
  BY <1>1, <1>2, TransmitFacts
<1>8. \A d \in none : d.type # "data"
  BY <1>6
<1>9. SendsAs(p) /\ snd'[Other(p)] = snd[Other(p)]
  BY <1>1, <1>2, <1>4, <1>5, <1>6, <1>7, <1>8, Resends, Zenon
<1>10. Unmoved(rcv[p], GetAckId(rcv[p], N))
  BY <1>2, UnmovedFacts
<1>. QED
  BY <1>1, <1>2, <1>9, <1>10, GivesNothing

\* procRudpRepairMsg: what is sent again is tagged as it was.
LEMMA RecvRepairHandled ==
    ASSUME IInv, FifoInv, NEW m \in net, NEW dup \in BOOLEAN, NEW p, p = Other(m.src),
           RecvRepair(p, m, dup)
    PROVE  Handled(p)
<1> DEFINE s == snd[p]
           N == {m.seq} \cap Queue(s)
           msgs == IF m.seq >= s.bufSeq THEN {CtlMsg("syn", p, s.bufSeq - 1)} ELSE {}
<1>1. PICK G \in SUBSET Queue(s) :
         /\ snd' = [snd EXCEPT ![p] = SendNode(s, N, G)]
         /\ rcv' = [rcv EXCEPT ![p] = GetAckId(rcv[p], N)]
         /\ Transmit(Left(m, dup), DataOf(p, s, N \cup G) \cup msgs)
         /\ app' = app /\ written' = written
  BY DEF RecvRepair
<1>2. p \in Peers /\ RecvOK(rcv[p]) /\ Left(m, dup) \subseteq net /\ SendOK(s)
  BY ArrivalFacts
<1>3. \A d \in msgs : d.type # "data"
  BY DEF CtlMsg
<1>4. /\ N \in SUBSET Queue(s) /\ s.bufSeq = snd[p].bufSeq /\ s.flagged = snd[p].flagged
      /\ snd[p].notified \subseteq s.notified
      /\ \A q \in s.notified :
           q \in snd[p].notified \/ (q \in snd[p].flagged /\ q <= rcv[Other(p)].first)
  OBVIOUS
<1> HIDE DEF s, N, msgs
<1>5. net' \subseteq net \cup DataOf(p, s, N \cup G) \cup msgs
  BY <1>1, <1>2, TransmitFacts, ZenonT(30)
<1>6. SendsAs(p) /\ snd'[Other(p)] = snd[Other(p)]
  BY <1>1, <1>2, <1>3, <1>4, <1>5, Resends, Zenon
<1>7. Unmoved(rcv[p], GetAckId(rcv[p], N))
  BY <1>2, UnmovedFacts
<1>. QED
  BY <1>1, <1>2, <1>6, <1>7, GivesNothing

\* procRudpSynMsg.
LEMMA RecvSynHandled ==
    ASSUME IInv, FifoInv, NEW m \in net, NEW dup \in BOOLEAN, NEW p, p = Other(m.src),
           RecvSyn(p, m, dup)
    PROVE  Handled(p)
<1> DEFINE r == [rcv[p] EXCEPT !.destMax = m.seq]
<1>1. /\ p \in Peers /\ Left(m, dup) \subseteq net /\ m.seq \in Nat /\ RecvOK(rcv[p])
  BY ArrivalFacts DEF DatagramWith
<1>2. Unmoved(rcv[p], r)
  BY <1>1, UnmovedFacts
<1>3. PICK cap \in RepairCaps :
         IF m.seq = r.first
         THEN /\ rcv' = [rcv EXCEPT ![p] = [r EXCEPT !.lastAck = r.first]]
              /\ Transmit(Left(m, dup), {CtlMsg("ack", p, r.first)})
         ELSE /\ rcv' = [rcv EXCEPT ![p] = AfterRepairs(r, cap)]
              /\ Transmit(Left(m, dup), {CtlMsg("repair", p, q) : q \in Repairs(r, cap)})
  BY DEF RecvSyn
<1>4. snd' = [snd EXCEPT ![p] = snd[p]] /\ app' = app /\ written' = written
  BY <1>1 DEF RecvSyn, IInv, TypeOK
<1> HIDE DEF r
<1>5. PICK t : rcv' = [rcv EXCEPT ![p] = t] /\ Unmoved(r, t)
  <2>1. RecvOK(r)
    BY <1>2 DEF Unmoved
  <2>. QED
    BY <1>3, <2>1, UnmovedFacts
<1>6. Unmoved(rcv[p], t)
  BY <1>2, <1>5 DEF Unmoved
<1>7. \A d \in net' \ net : d.type # "data"
  <2>1. \A k, q : CtlMsg(k, p, q).type = k
    BY DEF CtlMsg
  <2>. QED
    BY <1>1, <1>3, <2>1, TransmitFacts
<1>8. SendsAs(p) /\ snd'[Other(p)] = snd[Other(p)]
  BY <1>1, <1>4, <1>7, SendsNoData
<1>. QED
  BY <1>1, <1>4, <1>5, <1>6, <1>8, GivesNothing

\* addRecvData gives the application what the arrived fragment completes, and keeps on the
\* list what it does not.
LEMMA TakesData ==
    ASSUME IInv, FifoInv, NEW p \in Peers, NEW r, Unmoved(rcv[p], r),
           NEW x \in [seq : Nat, pkt : BOOLEAN], Tagged(snd[Other(p)], x.seq, x.pkt), NEW cap,
           rcv'[p] = AddRecvData(r, x, cap),
           app'[p] = IF IsNext(r, x.seq) THEN Assemble(r, app[p], x) ELSE app[p]
    PROVE  TakesAs(p)
<1>1. PICK w, s, a : w = written[Other(p)] /\ s = snd[Other(p)] /\ a = app[p]
  OBVIOUS
<1>2. /\ Messages(w) /\ EndOf(w, Len(w)) = s.bufSeq - 1 /\ s.flagged = Ends(w)
      /\ AppAt(w, a, r.first) /\ r.first < s.bufSeq /\ s.bufSeq \in Nat \ {0}
      /\ \A y \in r.ahead : Tagged(s, y.seq, y.pkt)
      /\ RecvOK(r) /\ r.first = rcv[p].first /\ r.first \in Nat
      /\ r \in RecvBuf /\ r.ahead \subseteq [seq : Nat, pkt : BOOLEAN]
  <2>1. Direction(w, s, rcv[p], a) /\ s \in SendBuf
    BY <1>1, TwoDirections
  <2>2. RecvOK(r) /\ r.first = rcv[p].first /\ r.ahead = rcv[p].ahead
    BY DEF Unmoved
  <2>3. s.bufSeq \in Nat \ {0}
    BY <2>1 DEF SendBuf
  <2>4. r.first \in Nat /\ r \in RecvBuf /\ r.ahead \subseteq [seq : Nat, pkt : BOOLEAN]
    BY <2>2 DEF RecvOK, RecvBuf
  <2>. QED
    BY <2>1, <2>2, <2>3, <2>4 DEF Direction
<1>3. PICK t : t = Taken(r, x, cap)
  OBVIOUS
<1>4. SUFFICES /\ RecvOK(t)
               /\ AppAt(w, app'[p], t.first) /\ r.first <= t.first /\ t.first < s.bufSeq
               /\ \A y \in t.ahead : Tagged(s, y.seq, y.pkt)
  <2>1. RecvOK(t)
    BY <1>4
  <2>2. AfterAck(t).first = t.first /\ AfterAck(t).ahead = t.ahead
    BY <2>1, UnmovedFacts DEF Unmoved
  <2>3. rcv'[p].first = t.first /\ rcv'[p].ahead = t.ahead
    <3>1. CASE Known(r, x.seq)
      BY <1>3, <2>2, <3>1 DEF AddRecvData
    <3>2. CASE ~ Known(r, x.seq)
      BY <1>3, <3>2 DEF AddRecvData, Known, Taken
    <3>. QED
      BY <3>1, <3>2
  <2>. QED
    BY <1>1, <1>2, <1>4, <2>3 DEF TakesAs
<1>5. CASE IsNext(r, x.seq)
  <2>1. t = InOrder(r, x) /\ x.seq = r.first + 1 /\ app'[p] = Assemble(r, a, x)
    <3>1. x.seq = r.first + 1 /\ ~ IsAhead(r, x.seq)
      BY <1>2, <1>5 DEF IsNext, IsAhead
    <3>. QED
      BY <1>1, <1>3, <1>5, <3>1 DEF Taken
  <2>2. PICK e : e = EndOfRun(r, x.seq)
    OBVIOUS
  <2>3. /\ e \in Nat /\ x.seq <= e
        /\ \A i \in Nat : x.seq < i /\ i <= e => i \in AheadSeqs(r)
    BY <1>2, <2>1, <2>2, EndOfRunFacts
  <2>4. t.first = e /\ t.ahead \subseteq r.ahead
    BY <1>2, <2>1, <2>2 DEF InOrder, RecvBuf
  <2>5. e < s.bufSeq
    <3>1. CASE e = x.seq
      BY <1>1, <3>1 DEF Tagged
    <3>2. CASE e # x.seq
      <4>1. e \in AheadSeqs(r)
        BY <2>3, <3>2
      <4>2. PICK y \in r.ahead : y.seq = e
        BY <4>1 DEF AheadSeqs
      <4>. QED
        BY <1>2, <4>2 DEF Tagged
    <3>. QED
      BY <3>1, <3>2
  <2>6. e <= EndOf(w, Len(w))
    BY <1>2, <2>3, <2>5
  <2>7. \A y \in r.ahead \cup {x} : y.pkt <=> y.seq \in Ends(w)
    BY <1>1, <1>2 DEF Tagged
  <2>8. AppAt(w, Assemble(r, a, x), e)
    BY <1>2, <2>1, <2>2, <2>6, <2>7, AssembleFacts
  <2>9. RecvOK(t)
    BY <1>2, <2>1, InOrderFacts
  <2>. QED
    BY <1>2, <2>1, <2>3, <2>4, <2>5, <2>8, <2>9
<1>6. CASE ~ IsNext(r, x.seq) /\ IsAhead(r, x.seq)
  <2>1. t = AfterRepairs(Put(r, x), cap) /\ app'[p] = a
    BY <1>1, <1>3, <1>6 DEF Taken
  <2>2. RecvOK(Put(r, x)) /\ Put(r, x).first = r.first
    BY <1>2, <1>6, AheadFacts
  <2>3. RecvOK(t) /\ t.first = r.first /\ t.ahead = Put(r, x).ahead
    <3>1. PICK u : u = Put(r, x)
      OBVIOUS
    <3>2. Unmoved(u, AfterRepairs(u, cap))
      BY <2>2, <3>1, UnmovedFacts
    <3>. QED
      BY <2>1, <2>2, <3>1, <3>2 DEF Unmoved
  <2>4. Put(r, x).ahead = r.ahead \cup {x}
    BY <1>2 DEF Put, RecvBuf
  <2>. QED
    BY <1>1, <1>2, <2>1, <2>3, <2>4
<1>7. CASE ~ IsNext(r, x.seq) /\ ~ IsAhead(r, x.seq)
  <2>1. t = r /\ app'[p] = a
    BY <1>1, <1>3, <1>7 DEF Taken
  <2>. QED
    BY <1>2, <2>1
<1>. QED
  BY <1>5, <1>6, <1>7

\* procRudpDataMsg.
LEMMA RecvDataHandled ==
    ASSUME IInv, FifoInv, NEW m \in net, NEW dup \in BOOLEAN, NEW p, p = Other(m.src),
           RecvData(p, m, dup)
    PROVE  Handled(p)
<1> DEFINE s == OnDataAck(snd[p], m.ack)
           x == [seq |-> m.seq, pkt |-> m.pkt]
<1>1. PICK N \in SUBSET Queue(s), G \in SUBSET Queue(s), cap \in RepairCaps :
         LET r == GetAckId(rcv[p], N)
         IN  /\ IF m.ack <= s.maxSend THEN SendNodeAll(s, window[p], N, G)
                                      ELSE N = {} /\ G = {}
             /\ snd' = [snd EXCEPT ![p] = SendNode(s, N, G)]
             /\ rcv' = [rcv EXCEPT ![p] = AddRecvData(r, x, cap)]
             /\ app' = IF IsNext(r, m.seq)
                       THEN [app EXCEPT ![p] = Assemble(r, @, x)] ELSE app
             /\ Transmit(Left(m, dup), DataOf(p, s, N \cup G) \cup Replies(p, r, x, cap))
  BY DEF RecvData
<1>2. PICK r : r = GetAckId(rcv[p], N)
  OBVIOUS
<1>3. /\ m.type = "data" /\ p \in Peers /\ RecvOK(rcv[p]) /\ Left(m, dup) \subseteq net
      /\ Other(p) \in Peers /\ Other(p) # p /\ m.src = Other(p)
  BY ArrivalFacts, OtherFacts DEF RecvData
<1>4. m.ack \in Nat /\ m.ack <= rcv[Other(p)].first
  BY <1>3, ArrivalFacts DEF DatagramWith, Reports
<1>5. x \in [seq : Nat, pkt : BOOLEAN] /\ x.seq = m.seq /\ x.pkt = m.pkt
  BY <1>3, ArrivalFacts DEF DatagramWith
<1>6. Tagged(snd[Other(p)], x.seq, x.pkt)
  BY <1>3, <1>5 DEF FifoInv
<1>7. /\ SendOK(s) /\ s.bufSeq = snd[p].bufSeq /\ s.flagged = snd[p].flagged
      /\ snd[p].notified \subseteq s.notified
      /\ \A q \in s.notified :
           q \in snd[p].notified \/ (q \in snd[p].flagged /\ q <= rcv[Other(p)].first)
  BY <1>3, <1>4, AckNotifies
<1> HIDE DEF s, x
<1>8. PICK msgs : msgs = Replies(p, r, x, cap)
  OBVIOUS
<1>9. \A d \in msgs : d.type # "data"
  <2>1. \A k, q : CtlMsg(k, p, q).type = k
    BY DEF CtlMsg
  <2>. QED
    BY <1>8, <2>1 DEF Replies, AckIfDue
<1>10. net' \subseteq net \cup DataOf(p, s, N \cup G) \cup msgs
  <2>1. Transmit(Left(m, dup), DataOf(p, s, N \cup G) \cup msgs)
    BY <1>1, <1>2, <1>8
  <2>. QED
    BY <1>3, <2>1, TransmitFacts, ZenonT(30)
<1>11. snd' = [snd EXCEPT ![p] = SendNode(s, N, G)]
  BY <1>1
<1>12. SendsAs(p) /\ snd'[Other(p)] = snd[Other(p)]
  BY <1>3, <1>7, <1>9, <1>10, <1>11, Resends, ZenonT(30)
<1>13. rcv'[p] = AddRecvData(r, x, cap) /\ rcv'[Other(p)] = rcv[Other(p)]
  BY <1>1, <1>2, <1>3 DEF IInv, TypeOK
<1>14. /\ app'[p] = IF IsNext(r, x.seq) THEN Assemble(r, app[p], x) ELSE app[p]
       /\ app'[Other(p)] = app[Other(p)] /\ DOMAIN app' = Peers
  <2>1. DOMAIN app = Peers
    BY DEF FifoInv
  <2>2. app' = IF IsNext(r, x.seq) THEN [app EXCEPT ![p] = Assemble(r, app[p], x)] ELSE app
    BY <1>1, <1>2, <1>5
  <2>. QED
    BY <1>3, <2>1, <2>2
<1>15. TakesAs(p)
  <2>1. Unmoved(rcv[p], r)
    BY <1>2, <1>3, UnmovedFacts
  <2>. QED
    BY <1>3, <1>5, <1>6, <1>13, <1>14, <2>1, TakesData
<1>16. written' = written
  BY DEF RecvData
<1>. QED
  BY <1>12, <1>13, <1>14, <1>15, <1>16 DEF Handled

\* Timers, clocks, windows, modes and losses give an application nothing.
LEMMA OtherHandled ==
    ASSUME IInv, FifoInv, NEW p \in Peers,
           \/ ProcTimerEvent(p) \/ SynTimeElapses(p) \/ RttElapses(p) \/ SetWindow(p)
           \/ SetUrgent(p) \/ \E m \in net : Lose(m)
    PROVE  Handled(p)
<1>1. /\ snd[p] \in SendBuf /\ snd \in [Peers -> SendBuf]
      /\ rcv \in [Peers -> RecvBuf] /\ RecvOK(rcv[p])
  BY DEF IInv, TypeOK, BuffersOK
<1>2. app' = app /\ written' = written
  BY DEF ProcTimerEvent, SynTimeElapses, RttElapses, SetWindow, SetUrgent, Lose
<1>3. \E b : \/ snd' = [snd EXCEPT ![p] = [snd[p] EXCEPT !.timer = b]]
             \/ snd' = [snd EXCEPT ![p] = [snd[p] EXCEPT !.quiet = b]]
             \/ snd' = [snd EXCEPT ![p] = [snd[p] EXCEPT !.urgent = b]]
             \/ snd' = snd
  BY <1>1 DEF ProcTimerEvent, SynTimeElapses, RttElapses, SetWindow, SetUrgent, Lose
<1>4. PICK t : /\ snd' = [snd EXCEPT ![p] = t]
               /\ t.bufSeq = snd[p].bufSeq /\ t.flagged = snd[p].flagged
               /\ t.notified = snd[p].notified
  BY <1>1, <1>3 DEF SendBuf
<1>5. \A m \in net' \ net : m.type # "data"
  <2>1. CASE ProcTimerEvent(p)
    <3>1. PICK q : /\ net' \subseteq net \cup {CtlMsg("syn", p, q)}
      BY <2>1 DEF ProcTimerEvent, Transmit
    <3>. QED
      BY <3>1 DEF CtlMsg
  <2>2. CASE ~ ProcTimerEvent(p)
    BY <2>2 DEF SynTimeElapses, RttElapses, SetWindow, SetUrgent, Lose
  <2>. QED
    BY <2>1, <2>2
<1>6. SendsAs(p) /\ snd'[Other(p)] = snd[Other(p)]
  BY <1>4, <1>5, SendsNoData
<1>7. PICK r : rcv' = [rcv EXCEPT ![p] = r] /\ Unmoved(rcv[p], r)
  <2>1. CASE RttElapses(p)
    <3>1. PICK r : r = [rcv[p] EXCEPT !.ready = TRUE]
      OBVIOUS
    <3>2. Unmoved(rcv[p], r)
      BY <1>1, <3>1, UnmovedFacts
    <3>3. rcv' = [rcv EXCEPT ![p] = r]
      BY <1>1, <2>1, <3>1 DEF RttElapses
    <3>. QED
      BY <3>2, <3>3
  <2>2. CASE ~ RttElapses(p)
    <3>1. rcv' = rcv
      BY <2>2 DEF ProcTimerEvent, SynTimeElapses, SetWindow, SetUrgent, Lose
    <3>2. rcv' = [rcv EXCEPT ![p] = rcv[p]] /\ Unmoved(rcv[p], rcv[p])
      BY <1>1, <3>1 DEF Unmoved
    <3>. QED
      BY <3>2
  <2>. QED
    BY <2>1, <2>2
<1>. QED
  BY <1>2, <1>6, <1>7, GivesNothing

\* The application of end p sends a message: fragments with the next numbers, of which the
\* last is flagged.
Wrote(p) ==
    /\ app' = app
    /\ \A o \in Peers : rcv'[o].first = rcv[o].first /\ rcv'[o].ahead = rcv[o].ahead
    /\ snd'[Other(p)] = snd[Other(p)]
    /\ \E k \in Nat \ {0} :
         /\ Longer(snd[p], snd'[p], k)
         /\ written' = [written EXCEPT ![p] = Append(@, [i \in 1 .. k |-> snd[p].bufSeq + i - 1])]
    /\ \A m \in net' \ net : m.type = "data" => m.src = p /\ Tagged(snd'[p], m.seq, m.pkt)

\* sendDataDirect.
LEMMA SendDataWrites ==
    ASSUME IInv, FifoInv, NEW p \in Peers, NEW k \in 1 .. MaxFragments, SendData(p, k)
    PROVE  Wrote(p)
<1> DEFINE s  == snd[p]
           b  == s.bufSeq
           s1 == [s EXCEPT !.bufSeq  = b + k,
                           !.wait    = @ + k,
                           !.flagged = @ \cup {b + k - 1}]
           N  == {q \in b .. (b + k - 1) : q < b + Room(s, window[p])}
           Syn == CtlMsg("syn", p, IF N = {} THEN s.maxSend ELSE b)
<1>1. PICK G \in SUBSET Queue(s), late \in BOOLEAN :
         /\ snd' = [snd EXCEPT ![p] = [SendNode(s1, N, G) EXCEPT !.timer = TRUE]]
         /\ Transmit(net, DataOf(p, s1, N \cup G) \cup IF late THEN {Syn} ELSE {})
         /\ rcv' = [rcv EXCEPT ![p] = GetAckId(@, N)]
  BY DEF SendData
<1>2. app' = app /\ written' = [written EXCEPT ![p] = Append(@, [i \in 1 .. k |-> b + i - 1])]
  BY DEF SendData
<1>3. /\ SendOK(s) /\ s \in SendBuf /\ Covered(s, Got(rcv[Other(p)]))
      /\ k \in Nat \ {0} /\ k \in Nat /\ Other(p) # p /\ Other(p) \in Peers
      /\ \A o \in Peers : o = p \/ o = Other(p)
  BY BoundsAreNat, OtherFacts
     DEF IInv, BuffersOK, NothingLost, Covered, Received, SendOK, Peers, Other
<1>4. SendOK(s1) /\ Queue(s1) = Queue(s) \cup (b .. (b + k - 1))
  <2> HIDE DEF s
  <2>. QED
    BY <1>3, AppendFacts
<1>5. /\ s1.bufSeq = snd[p].bufSeq + k /\ s1.flagged = snd[p].flagged \cup {snd[p].bufSeq + k - 1}
      /\ s1.notified = snd[p].notified
  BY <1>3 DEF SendBuf
<1>6. N \in SUBSET Queue(s1) /\ G \in SUBSET Queue(s1)
  BY <1>4
<1>7. PICK u : u = [SendNode(s1, N, G) EXCEPT !.timer = TRUE]
  OBVIOUS
<1> HIDE DEF s1, N
<1>8. /\ SendNode(s1, N, G).bufSeq = s1.bufSeq /\ SendNode(s1, N, G).flagged = s1.flagged
      /\ SendNode(s1, N, G).notified = s1.notified
      /\ \A m \in DataOf(p, s1, N \cup G) : m.src = p /\ Tagged(s1, m.seq, m.pkt)
  BY <1>4, <1>6, SendNodeTags
<1>9. SendNode(s1, N, G) \in SendBuf
  BY <1>4, <1>6, SendNodeFacts DEF SendOK
<1>10. u.bufSeq = s1.bufSeq /\ u.flagged = s1.flagged /\ u.notified = s1.notified
  <2>1. PICK t : t = SendNode(s1, N, G)
    OBVIOUS
  <2>. QED
    BY <1>7, <1>8, <1>9, <2>1 DEF SendBuf
<1>11. snd'[p] = u /\ snd'[Other(p)] = snd[Other(p)]
  BY <1>1, <1>3, <1>7 DEF IInv, TypeOK
<1>12. \A o \in Peers : rcv'[o].first = rcv[o].first /\ rcv'[o].ahead = rcv[o].ahead
  <2>1. PICK r : r = GetAckId(rcv[p], N)
    OBVIOUS
  <2>2. r.first = rcv[p].first /\ r.ahead = rcv[p].ahead
    <3>1. RecvOK(rcv[p])
      BY DEF IInv, BuffersOK
    <3>. QED
      BY <2>1, <3>1, UnmovedFacts DEF Unmoved
  <2>3. rcv' = [rcv EXCEPT ![p] = r]
    BY <1>1, <2>1
  <2>. QED
    BY <1>3, <2>2, <2>3 DEF IInv, TypeOK
<1>13. \A m \in net' \ net : m.type = "data" => m.src = p /\ Tagged(snd'[p], m.seq, m.pkt)
  <2>1. Syn.type = "syn"
    BY DEF CtlMsg
  <2>2. net' \subseteq net \cup DataOf(p, s1, N \cup G) \cup {Syn}
    BY <1>1, TransmitFacts
  <2> HIDE DEF Syn
  <2>. QED
    BY <1>8, <1>10, <1>11, <2>1, <2>2 DEF Tagged
<1> HIDE DEF Syn
<1>14. \E j \in Nat \ {0} :
         /\ Longer(snd[p], snd'[p], j)
         /\ written' = [written EXCEPT ![p] = Append(@, [i \in 1 .. j |-> snd[p].bufSeq + i - 1])]
  BY <1>2, <1>3, <1>5, <1>10, <1>11 DEF Longer
<1>. QED
  BY <1>2, <1>5, <1>10, <1>11, <1>12, <1>13, <1>14 DEF Wrote

\* What a message does to the two directions of its sender.
LEMMA WroteFacts ==
    ASSUME IInv, FifoInv, IInv', NEW p \in Peers, Wrote(p)
    PROVE  /\ FifoInv'
           /\ Len(written'[p]) = Len(written[p]) + 1 /\ IsPrefix(written[p], written'[p])
           /\ written'[Other(p)] = written[Other(p)]
<1>1. PICK o : o = Other(p)
  OBVIOUS
<1>2. /\ o \in Peers /\ o # p /\ Other(o) = p /\ \A e \in Peers : e = p \/ e = o
      /\ snd[p] \in SendBuf /\ snd[o] \in SendBuf /\ rcv[p] \in RecvBuf /\ rcv[o] \in RecvBuf
      /\ Direction(written[p], snd[p], rcv[o], app[o])
      /\ Direction(written[o], snd[o], rcv[p], app[p])
  BY <1>1, TwoDirections
<1>3. PICK k \in Nat \ {0} :
         /\ Longer(snd[p], snd'[p], k)
         /\ written' = [written EXCEPT ![p] =
                          Append(written[p], [i \in 1 .. k |-> snd[p].bufSeq + i - 1])]
  BY DEF Wrote
<1>4. PICK t, v : t = snd'[p] /\ v = Append(written[p], [i \in 1 .. k |-> snd[p].bufSeq + i - 1])
  OBVIOUS
<1>5. DOMAIN written = Peers /\ DOMAIN app = Peers
  BY DEF FifoInv
<1>6. written'[p] = v /\ written'[o] = written[o] /\ DOMAIN written' = Peers
  BY <1>2, <1>3, <1>4, <1>5
<1>7. Longer(snd[p], t, k)
  BY <1>3, <1>4
<1>8. Direction(v, t, rcv[o], app[o]) /\ Len(v) = Len(written[p]) + 1 /\ IsPrefix(written[p], v)
  <2>1. PICK w, s, r, a : w = written[p] /\ s = snd[p] /\ r = rcv[o] /\ a = app[o]
    OBVIOUS
  <2>2. s \in SendBuf /\ r \in RecvBuf /\ Direction(w, s, r, a)
    BY <1>2, <2>1
  <2>3. /\ Longer(s, t, k)
        /\ v = Append(w, Run(s.bufSeq - 1, s.bufSeq - 1 + k))
    <3>1. [i \in 1 .. k |-> s.bufSeq + i - 1] = Run(s.bufSeq - 1, s.bufSeq - 1 + k)
      <4>1. s.bufSeq \in Nat
        BY <2>2 DEF SendBuf
      <4>2. PICK b : b = s.bufSeq - 1 /\ b \in Int
        BY <4>1
      <4>3. (b + k) - b = k /\ \A i \in 1 .. k : s.bufSeq + i - 1 = b + i
        BY <4>1, <4>2
      <4>. QED
        BY <4>2, <4>3 DEF Run
    <3>. QED
      BY <1>4, <1>7, <2>1, <3>1
  <2>4. Direction(v, t, r, a)
    BY <2>2, <2>3, WritingSide
  <2>5. Len(v) = Len(w) + 1 /\ IsPrefix(w, v)
    <3>1. w \in Seq(Seq(Nat))
      BY <2>2 DEF Direction, Messages
    <3>2. PICK b, x : b = s.bufSeq - 1 /\ x = Run(b, b + k)
      OBVIOUS
    <3>3. x \in Seq(Nat)
      <4>1. s.bufSeq \in Nat \ {0}
        BY <2>2 DEF SendBuf
      <4>2. PICK e : e = b + k
        OBVIOUS
      <4>3. b \in Nat /\ e \in Nat /\ b <= e
        BY <3>2, <4>1, <4>2
      <4>. QED
        BY <3>2, <4>2, <4>3, RunFacts
    <3>. QED
      BY <2>3, <3>1, <3>2, <3>3, BeginOfLonger
  <2>. QED
    BY <2>1, <2>4, <2>5
<1>9. /\ app' = app /\ snd'[o] = snd[o]
      /\ \A e \in Peers : rcv'[e].first = rcv[e].first /\ rcv'[e].ahead = rcv[e].ahead
  BY <1>1 DEF Wrote
<1>10. ASSUME NEW e \in Peers
       PROVE  Direction(written'[e], snd'[e], rcv'[Other(e)], app'[Other(e)])
  <2>1. PICK x, y, a, b : x = rcv'[o] /\ y = rcv'[p] /\ a = app'[o] /\ b = app'[p]
    OBVIOUS
  <2>2. Direction(v, t, x, a)
    BY <1>2, <1>8, <1>9, <2>1 DEF Direction
  <2>3. Direction(written[o], snd[o], y, b)
    BY <1>2, <1>9, <2>1 DEF Direction
  <2>4. CASE e = p
    BY <1>1, <1>4, <1>6, <2>1, <2>2, <2>4
  <2>5. CASE e = o
    BY <1>2, <1>6, <1>9, <2>1, <2>3, <2>5
  <2>. QED
    BY <1>2, <2>4, <2>5
<1>11. ASSUME NEW m \in net', m.type = "data" PROVE Tagged(snd'[m.src], m.seq, m.pkt)
  <2>1. CASE m \in net
    <3>1. Tagged(snd[m.src], m.seq, m.pkt) /\ m.src \in Peers /\ m.seq \in Nat
      BY <1>11, <2>1 DEF FifoInv, IInv, TypeOK, DatagramWith
    <3>2. CASE m.src = p
      BY <1>2, <1>4, <1>7, <3>1, <3>2, TaggedStays
    <3>3. CASE m.src = o
      BY <1>9, <3>1, <3>3
    <3>. QED
      BY <1>2, <3>1, <3>2, <3>3
  <2>2. CASE m \notin net
    BY <1>11, <2>2 DEF Wrote
  <2>. QED
    BY <2>1, <2>2
<1>12. FifoInv'
  BY <1>5, <1>6, <1>9, <1>10, <1>11 DEF FifoInv
<1>. QED
  BY <1>1, <1>6, <1>8, <1>12

-----------------------------------------------------------------------------
(* Every step.                                                             *)

\* A step is a message that is sent or a handler.
LEMMA EveryStep ==
    ASSUME IInv, FifoInv, Next
    PROVE  \E p \in Peers : Wrote(p) \/ Handled(p)
<1>1. ASSUME NEW p \in Peers, NEW k \in 1 .. MaxFragments, SendData(p, k)
      PROVE  Wrote(p)
  BY <1>1, SendDataWrites
<1>2. ASSUME NEW p \in Peers,
             \/ ProcTimerEvent(p) \/ SynTimeElapses(p) \/ RttElapses(p) \/ SetWindow(p)
             \/ SetUrgent(p) \/ \E m \in net : Lose(m)
      PROVE  Handled(p)
  BY <1>2, OtherHandled
<1>3. ASSUME NEW m \in net, NEW dup \in BOOLEAN, Receive(m, dup)
      PROVE  \E p \in Peers : Handled(p)
  <2>1. PICK p : p = Other(m.src)
    OBVIOUS
  <2>2. p \in Peers
    BY <2>1, ArrivalFacts
  <2>3. RecvData(p, m, dup) \/ RecvAck(p, m, dup) \/ RecvAck2(p, m, dup)
        \/ RecvRepair(p, m, dup) \/ RecvSyn(p, m, dup)
    BY <1>3, <2>1 DEF Receive
  <2>4. Handled(p)
    BY <2>1, <2>3, RecvDataHandled, RecvAckHandled, RecvAck2Handled, RecvRepairHandled,
       RecvSynHandled
  <2>. QED
    BY <2>2, <2>4
<1>4. A \in Peers
  BY DEF Peers
<1>. QED
  BY <1>1, <1>2, <1>3, <1>4 DEF Next

\* Before the first step nothing was sent.
LEMMA InitFifo == Init => FifoInv
<1>. SUFFICES ASSUME Init PROVE FifoInv
  OBVIOUS
<1>1. /\ \A p \in Peers : /\ snd[p] = NewSendBuf /\ rcv[p] = NewRecvBuf /\ written[p] = <<>>
                          /\ app[p] = [partial |-> <<>>, delivered |-> <<>>]
      /\ net = {} /\ DOMAIN app = Peers /\ DOMAIN written = Peers
  BY DEF Init
<1>2. PICK w : w = <<>>
  OBVIOUS
<1>3. w \in Seq(Seq(Nat)) /\ Len(w) = 0
  BY <1>2
<1>4. EndOf(w, 0) = 0 /\ 0 .. 0 = {0} /\ 1 .. 0 = {}
  BY DEF EndOf
<1>5. Messages(w) /\ Ends(w) = {}
  BY <1>3, <1>4 DEF Messages, Ends
<1>6. AppAt(w, [partial |-> <<>>, delivered |-> <<>>], 0)
  <2>1. Run(0, 0) = <<>>
    BY <1>4 DEF Run
  <2>2. SubSeq(w, 1, 0) = <<>>
    BY <1>2
  <2>3. AppHas(w, [partial |-> <<>>, delivered |-> <<>>], 0, 0)
    BY <1>3, <1>4, <2>1, <2>2 DEF AppHas
  <2>. QED
    BY <1>3, <1>4, <2>3 DEF AppAt
<1>7. Direction(w, NewSendBuf, NewRecvBuf, [partial |-> <<>>, delivered |-> <<>>])
  <2>1. /\ NewSendBuf.bufSeq = 1 /\ NewSendBuf.flagged = {} /\ NewSendBuf.notified = {}
        /\ NewRecvBuf.first = 0 /\ NewRecvBuf.ahead = {}
    BY DEF NewSendBuf, NewRecvBuf
  <2>2. EndOf(w, Len(w)) = 1 - 1 /\ 0 < 1
    BY <1>3, <1>4
  <2>. QED
    BY <1>5, <1>6, <2>1, <2>2 DEF Direction
<1>8. \A p \in Peers : Direction(written[p], snd[p], rcv[Other(p)], app[Other(p)])
  BY <1>1, <1>2, <1>7, OtherFacts
<1>. QED
  BY <1>1, <1>8 DEF FifoInv

\* Every step keeps the invariant.
LEMMA NextFifo ==
    ASSUME IInv, FifoInv, [Next]_vars
    PROVE  FifoInv'
<1>1. IInv'
  BY NextInv
<1>2. CASE Next
  BY <1>1, <1>2, EveryStep, WroteFacts, HandledKeeps
<1>3. CASE UNCHANGED vars
  BY <1>3 DEF vars, FifoInv, Direction, Tagged
<1>. QED
  BY <1>2, <1>3

\* What the applications get is always a function of the fragments received in order.
THEOREM FifoInvariance == Spec => []FifoInv
<1>1. Init => FifoInv
  BY InitFifo
<1>2. IInv /\ FifoInv /\ [Next]_vars => FifoInv'
  BY NextFifo
<1>. QED
  BY <1>1, <1>2, Invariance, PTL DEF Spec

\* What an application was handed is a prefix of what the other one sent, and with the part
\* that is not handed up yet it is exactly the fragments received in order.
LEMMA AppFacts ==
    ASSUME NEW w, Messages(w), NEW f \in Nat, NEW a, AppAt(w, a, f)
    PROVE  /\ IsPrefix(a.delivered, w) /\ Len(a.delivered) <= Len(w)
           /\ FlattenSeq(a.delivered) \o a.partial = Run(0, f)
<1>1. PICK d \in 0 .. Len(w) : AppHas(w, a, f, d)
  BY DEF AppAt
<1>2. w \in Seq(Seq(Nat)) /\ d \in Nat /\ Len(w) \in Nat /\ d <= Len(w) /\ EndOf(w, d) \in Nat
  BY DEF Messages
<1>3. PICK s, e : s = SubSeq(w, 1, d) /\ e = EndOf(w, d)
  OBVIOUS
<1>4. a.delivered = s /\ a.partial = Run(e, f) /\ e <= f /\ e \in Nat
  BY <1>1, <1>2, <1>3 DEF AppHas
<1>5. s \in Seq(Seq(Nat)) /\ Len(s) = d /\ \A i \in 1 .. d : s[i] = w[i]
  BY <1>2, <1>3, BeginFacts
<1>6. IsPrefix(s, w)
  <2>1. SubSeq(s, 1, d) = s
    <3>1. d \in 0 .. Len(s)
      BY <1>2, <1>5
    <3>2. PICK t : t = SubSeq(s, 1, d)
      OBVIOUS
    <3>3. t \in Seq(Seq(Nat)) /\ Len(t) = d /\ \A i \in 1 .. d : t[i] = s[i]
      BY <1>5, <3>1, <3>2, BeginFacts
    <3>. QED
      BY <1>5, <3>2, <3>3, SeqEqual
  <2>. QED
    BY <1>2, <1>3, <1>5, <2>1 DEF IsPrefix
<1>7. FlattenSeq(s) \o Run(e, f) = Run(0, f)
  <2>1. FlattenSeq(s) = Run(0, e)
    BY <1>3, FlattenFacts
  <2>2. 0 \in Nat /\ 0 <= e
    BY <1>4
  <2>. QED
    BY <1>4, <2>1, <2>2, RunsJoin, ZenonT(30)
<1>. QED
  BY <1>2, <1>4, <1>5, <1>6, <1>7

\* Messages are handed up whole, once and in order, and no fragment received in order is
\* missing from them.
THEOREM DeliveredInOrder == Spec => []InOrderOnce
<1>1. IInv /\ FifoInv => InOrderOnce
  <2>1. SUFFICES ASSUME IInv, FifoInv, NEW p \in Peers
                 PROVE  /\ IsPrefix(app[Other(p)].delivered, written[p])
                        /\ FlattenSeq(app[p].delivered) \o app[p].partial
                             = [i \in 1 .. rcv[p].first |-> i]
    BY DEF InOrderOnce
  <2>2. /\ rcv[p].first \in Nat /\ rcv[Other(p)].first \in Nat
        /\ Messages(written[p]) /\ AppAt(written[p], app[Other(p)], rcv[Other(p)].first)
        /\ Messages(written[Other(p)]) /\ AppAt(written[Other(p)], app[p], rcv[p].first)
    <3>1. /\ rcv[p] \in RecvBuf /\ rcv[Other(p)] \in RecvBuf
          /\ Direction(written[p], snd[p], rcv[Other(p)], app[Other(p)])
          /\ Direction(written[Other(p)], snd[Other(p)], rcv[p], app[p])
      BY <2>1, TwoDirections
    <3>. QED
      BY <3>1 DEF Direction, RecvBuf
  <2>3. IsPrefix(app[Other(p)].delivered, written[p])
    BY <2>2, AppFacts
  <2>4. FlattenSeq(app[p].delivered) \o app[p].partial = Run(0, rcv[p].first)
    BY <2>2, AppFacts
  <2>5. Run(0, rcv[p].first) = [i \in 1 .. rcv[p].first |-> i]
    <3>1. rcv[p].first - 0 = rcv[p].first /\ \A i \in 1 .. rcv[p].first : 0 + i = i
      BY <2>2
    <3>. QED
      BY <3>1 DEF Run
  <2>. QED
    BY <2>3, <2>4, <2>5
<1>. QED
  BY <1>1, FifoInvariance, Invariance, PTL

-----------------------------------------------------------------------------
(* Each direction is a reliable FIFO.                                      *)

\* What arrives in order never takes a message back.
LEMMA Delivers ==
    ASSUME NEW w, Messages(w), NEW f \in Nat, NEW g \in Nat, f <= g,
           NEW a, AppAt(w, a, f), NEW b, AppAt(w, b, g)
    PROVE  \/ b.delivered = a.delivered
           \/ \E n \in Len(a.delivered) + 1 .. Len(w) : b.delivered = SubSeq(w, 1, n)
<1>1. PICK c \in 0 .. Len(w), d \in 0 .. Len(w) : AppHas(w, a, f, c) /\ AppHas(w, b, g, d)
  BY DEF AppAt
<1>2. w \in Seq(Seq(Nat)) /\ Len(w) \in Nat /\ c \in Nat /\ d \in Nat
  BY DEF Messages
<1>3. a.delivered = SubSeq(w, 1, c) /\ b.delivered = SubSeq(w, 1, d)
  BY <1>1 DEF AppHas
<1>4. ~ (d < c)
  <2>1. SUFFICES ASSUME d < c PROVE FALSE
    OBVIOUS
  <2>2. d + 1 \in 0 .. Len(w) /\ d < Len(w) /\ (d + 1 = c \/ d + 1 < c)
    BY <1>2, <2>1
  <2>3. g < EndOf(w, d + 1) /\ EndOf(w, c) <= f
    BY <1>1, <2>2 DEF AppHas
  <2>4. EndOf(w, d + 1) \in Nat /\ EndOf(w, c) \in Nat
    BY <2>2 DEF Messages
  <2>5. d + 1 < c => EndOf(w, d + 1) < EndOf(w, c)
    BY <2>2 DEF Messages
  <2>. QED
    BY <2>2, <2>3, <2>4, <2>5
<1>5. Len(a.delivered) = c
  BY <1>2, <1>3, BeginFacts
<1>6. d = c \/ d \in c + 1 .. Len(w)
  BY <1>2, <1>4
<1>. QED
  BY <1>3, <1>5, <1>6

\* on_rudp_send confirms at most the messages that were handed up.
LEMMA Confirms ==
    ASSUME NEW w, Messages(w), NEW f \in Nat, NEW a, AppAt(w, a, f),
           NEW Q, NEW R, Q \subseteq R, \A q \in R : q \in Ends(w) /\ q <= f
    PROVE  \/ Cardinality(R) = Cardinality(Q)
           \/ Cardinality(R) \in Cardinality(Q) + 1 .. Len(a.delivered)
<1>1. PICK d \in 0 .. Len(w) : AppHas(w, a, f, d)
  BY DEF AppAt
<1>2. w \in Seq(Seq(Nat)) /\ Len(w) \in Nat /\ d \in Nat
  BY DEF Messages
<1>3. Len(a.delivered) = d
  <2>1. a.delivered = SubSeq(w, 1, d)
    BY <1>1 DEF AppHas
  <2>. QED
    BY <1>2, <2>1, BeginFacts
<1>4. PICK E : E = {EndOf(w, j) : j \in 1 .. d}
  OBVIOUS
<1>5. R \subseteq E
  <2>1. SUFFICES ASSUME NEW j \in 1 .. Len(w), EndOf(w, j) <= f PROVE j \in 1 .. d
    BY <1>4 DEF Ends
  <2>2. SUFFICES ASSUME d + 1 <= j PROVE FALSE
    BY <1>2
  <2>3. d + 1 \in 0 .. Len(w) /\ d < Len(w) /\ j \in 0 .. Len(w) /\ (d + 1 = j \/ d + 1 < j)
    BY <1>2, <2>2
  <2>4. f < EndOf(w, d + 1) /\ EndOf(w, d + 1) \in Nat /\ EndOf(w, j) \in Nat
    BY <1>1, <2>3 DEF AppHas, Messages
  <2>5. d + 1 < j => EndOf(w, d + 1) < EndOf(w, j)
    BY <2>3 DEF Messages
  <2>. QED
    BY <2>1, <2>3, <2>4, <2>5
<1>6. IsFiniteSet(E) /\ Cardinality(E) <= d
  <2>1. IsFiniteSet(1 .. d) /\ Cardinality(1 .. d) = d
    <3>1. 1 \in Int /\ d \in Int /\ (1 > d => d = 0) /\ d - 1 + 1 = d
      BY <1>2
    <3>. QED
      BY <3>1, FS_Interval
  <2>2. PICK h : h = [j \in 1 .. d |-> EndOf(w, j)]
    OBVIOUS
  <2>3. h \in Surjection(1 .. d, E)
    BY <1>4, <2>2 DEF Surjection
  <2>. QED
    BY <2>1, <2>3, FS_Surjection
<1>7. /\ IsFiniteSet(R) /\ Cardinality(R) <= Cardinality(E)
      /\ IsFiniteSet(Q) /\ Cardinality(Q) <= Cardinality(R)
  BY <1>5, <1>6, FS_Subset
<1>8. Cardinality(E) \in Nat /\ Cardinality(R) \in Nat /\ Cardinality(Q) \in Nat
  BY <1>6, <1>7, FS_CardinalityType
<1>. QED
  BY <1>2, <1>3, <1>6, <1>7, <1>8

\* What a step of the session does to the direction from p: one of the steps of a reliable
\* FIFO, or nothing.
Writes(p) ==
    /\ Len(written'[p]) = Len(written[p]) + 1 /\ IsPrefix(written[p], written'[p])
    /\ app'[Other(p)].delivered = app[Other(p)].delivered
    /\ Cardinality(snd'[p].notified) = Cardinality(snd[p].notified)

HandsUp(p) ==
    /\ \E n \in Len(app[Other(p)].delivered) + 1 .. Len(written[p]) :
         app'[Other(p)].delivered = SubSeq(written[p], 1, n)
    /\ written'[p] = written[p]
    /\ Cardinality(snd'[p].notified) = Cardinality(snd[p].notified)

Notifies(p) ==
    /\ Cardinality(snd'[p].notified)
         \in Cardinality(snd[p].notified) + 1 .. Len(app[Other(p)].delivered)
    /\ written'[p] = written[p] /\ app'[Other(p)].delivered = app[Other(p)].delivered

LeavesAlone(p) ==
    /\ written'[p] = written[p] /\ app'[Other(p)].delivered = app[Other(p)].delivered
    /\ Cardinality(snd'[p].notified) = Cardinality(snd[p].notified)

FifoStep(p) == Writes(p) \/ HandsUp(p) \/ Notifies(p) \/ LeavesAlone(p)

\* No handler does two of them at once, or anything else.
LEMMA DirectionStep ==
    ASSUME IInv, FifoInv, IInv', FifoInv', [Next]_vars, NEW p \in Peers
    PROVE  FifoStep(p)
<1>1. PICK o : o = Other(p)
  OBVIOUS
<1>2. /\ o \in Peers /\ o # p /\ Other(o) = p /\ \A e \in Peers : e = p \/ e = o
      /\ snd[p] \in SendBuf /\ rcv[o] \in RecvBuf /\ rcv[o].first \in Nat
      /\ Direction(written[p], snd[p], rcv[o], app[o])
  BY <1>1, TwoDirections DEF RecvBuf
<1>3. CASE Wrote(p)
  <2>1. Len(written'[p]) = Len(written[p]) + 1 /\ IsPrefix(written[p], written'[p])
    BY <1>3, WroteFacts
  <2>2. app' = app /\ snd'[p].notified = snd[p].notified
    BY <1>3 DEF Wrote, Longer
  <2>. QED
    BY <2>1, <2>2 DEF FifoStep, Writes
<1>4. CASE Wrote(o)
  <2>1. written'[p] = written[p]
    BY <1>2, <1>4, WroteFacts
  <2>2. app' = app /\ snd'[p] = snd[p]
    BY <1>2, <1>4 DEF Wrote
  <2>. QED
    BY <2>1, <2>2 DEF FifoStep, LeavesAlone
<1>5. CASE Handled(p)
  <2>1. written' = written /\ app'[o] = app[o]
    BY <1>1, <1>5 DEF Handled
  <2>2. PICK Q, R, w, a, f : /\ Q = snd[p].notified /\ R = snd'[p].notified /\ w = written[p]
                             /\ a = app[o] /\ f = rcv[o].first
    OBVIOUS
  <2>3. /\ Q \subseteq R /\ f \in Nat /\ Messages(w) /\ AppAt(w, a, f)
        /\ \A q \in R : q \in Ends(w) /\ q <= f
    BY <1>1, <1>2, <1>5, <2>2 DEF Handled, SendsAs, Direction
  <2>4. \/ Cardinality(R) = Cardinality(Q)
        \/ Cardinality(R) \in Cardinality(Q) + 1 .. Len(a.delivered)
    BY <2>3, Confirms
  <2>. QED
    BY <1>1, <2>1, <2>2, <2>4 DEF FifoStep, Notifies, LeavesAlone
<1>6. CASE Handled(o)
  <2>1. written' = written /\ snd'[p] = snd[p]
    BY <1>2, <1>6 DEF Handled
  <2>2. PICK w, a, b, f, g : /\ w = written[p] /\ a = app[o] /\ b = app'[o]
                             /\ f = rcv[o].first /\ g = rcv'[o].first
    OBVIOUS
  <2>3. g \in Nat
    BY <1>2, <2>2 DEF IInv, TypeOK, RecvBuf
  <2>4. /\ f \in Nat /\ f <= g /\ Messages(w) /\ AppAt(w, a, f) /\ AppAt(w, b, g)
    BY <1>2, <1>6, <2>2 DEF Handled, TakesAs, Direction
  <2>5. \/ b.delivered = a.delivered
        \/ \E n \in Len(a.delivered) + 1 .. Len(w) : b.delivered = SubSeq(w, 1, n)
    BY <2>3, <2>4, Delivers
  <2>. QED
    BY <1>1, <2>1, <2>2, <2>5 DEF FifoStep, HandsUp, LeavesAlone
<1>7. CASE UNCHANGED vars
  BY <1>7 DEF vars, FifoStep, LeavesAlone
<1>. QED
  BY <1>2, <1>3, <1>4, <1>5, <1>6, <1>7, EveryStep

\* The two buffers, their datagrams and timers implement a reliable FIFO of messages in each
\* direction, whatever is lost, duplicated and reordered.
THEOREM ImplementsFifo == Spec => BothWaysFifo
<1>1. Init => FromA!Init /\ FromB!Init
  <2>1. SUFFICES ASSUME Init PROVE FromA!Init /\ FromB!Init
    OBVIOUS
  <2>2. A \in Peers /\ B \in Peers
    BY DEF Peers
  <2>3. \A p \in Peers : /\ written[p] = <<>> /\ app[p].delivered = <<>>
                         /\ snd[p].notified = {}
    BY <2>1 DEF Init, NewSendBuf
  <2>4. Cardinality({}) = 0
    BY FS_EmptySet
  <2>. QED
    BY <2>2, <2>3, <2>4 DEF FromA!Init, FromB!Init
<1>2. Other(A) = B /\ Other(B) = A /\ A \in Peers /\ B \in Peers
  BY PeersDiffer DEF Other, Peers
<1>3. IInv /\ FifoInv /\ IInv' /\ FifoInv' /\ [Next]_vars => [FromA!Next]_(FromA!vars)
  <2>1. SUFFICES ASSUME IInv, FifoInv, IInv', FifoInv', [Next]_vars
                 PROVE  [FromA!Next]_(FromA!vars)
    OBVIOUS
  <2>2. FifoStep(A)
    BY <1>2, <2>1, DirectionStep
  <2>. QED
    <3>1. Writes(A) => FromA!Write
      BY <1>2 DEF Writes, FromA!Write, IsPrefix, FromA!IsPrefix
    <3>2. HandsUp(A) => FromA!Deliver
      BY <1>2 DEF HandsUp, FromA!Deliver
    <3>3. Notifies(A) => FromA!Confirm
      BY <1>2 DEF Notifies, FromA!Confirm
    <3>4. LeavesAlone(A) => UNCHANGED FromA!vars
      BY <1>2 DEF LeavesAlone, FromA!vars
    <3>. QED
      BY <2>2, <3>1, <3>2, <3>3, <3>4 DEF FifoStep, FromA!Next
<1>4. IInv /\ FifoInv /\ IInv' /\ FifoInv' /\ [Next]_vars => [FromB!Next]_(FromB!vars)
  <2>1. SUFFICES ASSUME IInv, FifoInv, IInv', FifoInv', [Next]_vars
                 PROVE  [FromB!Next]_(FromB!vars)
    OBVIOUS
  <2>2. FifoStep(B)
    BY <1>2, <2>1, DirectionStep
  <2>. QED
    <3>1. Writes(B) => FromB!Write
      BY <1>2 DEF Writes, FromB!Write, IsPrefix, FromB!IsPrefix
    <3>2. HandsUp(B) => FromB!Deliver
      BY <1>2 DEF HandsUp, FromB!Deliver
    <3>3. Notifies(B) => FromB!Confirm
      BY <1>2 DEF Notifies, FromB!Confirm
    <3>4. LeavesAlone(B) => UNCHANGED FromB!vars
      BY <1>2 DEF LeavesAlone, FromB!vars
    <3>. QED
      BY <2>2, <3>1, <3>2, <3>3, <3>4 DEF FifoStep, FromB!Next
<1>. QED
  BY <1>1, <1>3, <1>4, Invariance, FifoInvariance, PTL
     DEF Spec, BothWaysFifo, FromA!Spec, FromB!Spec
=============================================================================
