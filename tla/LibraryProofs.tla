--------------------------- MODULE LibraryProofs ---------------------------
(***************************************************************************)
(* Nine parts of the base library, each for all values of its constants:   *)
(* the log has what was queued, once each, whole and in order; an object   *)
(* of a pool has one owner, and an open socket one holder; the cache gives *)
(* what was put into it; no renaming of the log's files loses a line; the  *)
(* arithmetic of time values is exact; packets come out of a TCP stream    *)
(* whole, from buffers that never hold more than their size; the choice of *)
(* a node follows the loads; and a packed stream gives what was packed.    *)
(***************************************************************************)
EXTENDS LogThread, LogFiles, ObjectPools, CacheBuffer, Sockets, TimeValue, PacketBuffers, NodeLoad, BinStream,
        Integers, FiniteSetTheorems, SequenceTheorems, WellFoundedInduction, TLAPS

-----------------------------------------------------------------------------
(* The log thread: for any writers, any capacities of the queue and the    *)
(* pool, and any interleaving of the threads between two unlocks.          *)

\* The log thread is not one of the writers.
ReaderIsNoWriter == Reader \notin Writers

\* No value is twice in a sequence.
Distinct(s) == \A i, j \in 1 .. Len(s) : s[i] = s[j] => i = j

Steps == {"none", "put", "get", "write", "release"}

LogShape ==
  /\ made \in Nat /\ popped = made - Len(pool) /\ logged \in Nat /\ ended \in BOOLEAN
  /\ pool \in Seq(1 .. made) /\ line \in [1 .. made -> Nat]
  /\ data \in [0 .. Capacity - 1 -> Nat]
  /\ rindex \in 0 .. Capacity - 1 /\ windex \in 0 .. Capacity - 1
  /\ hand \in [Threads -> [step : Steps, entry : 0 .. made]]
  /\ queued \in Seq(Nat) /\ written \in Seq(Nat)

\* Who does what: a writer puts or releases, the log thread gets, writes and releases.
HandsFit ==
  /\ \A t \in Threads : hand[t].entry = 0 <=> hand[t].step \in {"none", "get"}
  /\ \A t \in Threads : hand[t].step \in {"get", "write"} => t = Reader
  /\ hand[Reader].step # "put"

Holders == {t \in Threads : hand[t].entry # 0}

\* Every entry is somewhere, and nowhere twice.
EntriesPlaced ==
  /\ Distinct(pool) /\ Distinct(Queued)
  /\ \A t, u \in Holders : hand[t].entry = hand[u].entry => t = u
  /\ ToSet(pool) \cap ToSet(Queued) = {}
  /\ \A t \in Holders : hand[t].entry \notin ToSet(pool) \cup ToSet(Queued)
  /\ ToSet(Queued) \subseteq 1 .. made
  /\ \A e \in 1 .. made : e \in ToSet(pool) \cup ToSet(Queued) \cup Held

\* The entries are counted by where they are.
EntriesCounted ==
  /\ IsFiniteSet(Holders)
  /\ Len(pool) + Len(Queued) + Cardinality(Holders) = made

\* While the log thread may still get entries, the log, the line in its hands and those
\* in the queue are what was queued; afterwards the log is a part of that.
LinesWritten == \A i \in 1 .. Len(written) : written[i] = queued[i]

InHand == IF hand[Reader].step = "write" THEN 1 ELSE 0

LinesToCome ==
  /\ Len(queued) = Len(written) + InHand + Len(Queued)
  /\ hand[Reader].step = "write" => queued[Len(written) + 1] = line[hand[Reader].entry]
  /\ \A i \in 1 .. Len(Queued) : queued[Len(written) + InHand + i] = line[Queued[i]]

LinesKept ==
  /\ LinesWritten /\ Len(written) <= Len(queued)
  /\ LinesToCome \/ (ended /\ hand[Reader].step \in {"none", "release"})

LInv == LogShape /\ HandsFit /\ EntriesPlaced /\ EntriesCounted /\ LinesKept

-----------------------------------------------------------------------------
(* Sequences without a value twice.                                        *)

\* A value is appended; a new one leaves the sequence distinct.
LEMMA AppendFacts ==
  ASSUME NEW S, NEW s \in Seq(S), NEW e \in S
  PROVE  /\ Append(s, e) \in Seq(S) /\ Len(Append(s, e)) = Len(s) + 1 /\ Len(s) \in Nat
         /\ \A i \in 1 .. Len(s) : Append(s, e)[i] = s[i]
         /\ Append(s, e)[Len(s) + 1] = e
         /\ ToSet(Append(s, e)) = ToSet(s) \cup {e}
         /\ Distinct(s) /\ e \notin ToSet(s) => Distinct(Append(s, e))
<1>1. PICK q : q = Append(s, e)
  OBVIOUS
<1>2. /\ q \in Seq(S) /\ Len(q) = Len(s) + 1 /\ Len(s) \in Nat /\ q[Len(s) + 1] = e
      /\ DOMAIN q = 1 .. Len(s) + 1 /\ DOMAIN s = 1 .. Len(s)
      /\ \A i \in 1 .. Len(s) : q[i] = s[i]
  BY <1>1
<1>3. \A i \in 1 .. Len(s) + 1 : i \in 1 .. Len(s) \/ i = Len(s) + 1
  BY <1>2
<1>4. ToSet(q) = ToSet(s) \cup {e}
  <2>1. \A x \in ToSet(q) : x \in ToSet(s) \cup {e}
    BY <1>2, <1>3 DEF ToSet
  <2>2. \A x \in ToSet(s) : x \in ToSet(q)
    BY <1>2 DEF ToSet
  <2>3. e \in ToSet(q)
    BY <1>2 DEF ToSet
  <2> QED
    BY <2>1, <2>2, <2>3
<1>5. ASSUME Distinct(s), e \notin ToSet(s) PROVE Distinct(q)
  <2>1. \A i \in 1 .. Len(s) : s[i] # e
    BY <1>2, <1>5 DEF ToSet
  <2> QED
    BY <1>2, <1>3, <1>5, <2>1 DEF Distinct
<1> QED
  BY <1>1, <1>2, <1>4, <1>5

\* The head is taken; of a distinct sequence the tail has all values but that one.
LEMMA TailFacts ==
  ASSUME NEW S, NEW s \in Seq(S), s # <<>>
  PROVE  /\ Len(s) \in Nat \ {0} /\ Head(s) = s[1] /\ Head(s) \in ToSet(s) /\ Head(s) \in S
         /\ Tail(s) \in Seq(S) /\ Len(Tail(s)) = Len(s) - 1
         /\ \A i \in 1 .. Len(s) - 1 : Tail(s)[i] = s[i + 1]
         /\ Distinct(s) => Distinct(Tail(s)) /\ ToSet(Tail(s)) = ToSet(s) \ {Head(s)}
<1>1. PICK q : q = Tail(s)
  OBVIOUS
<1>2. /\ q \in Seq(S) /\ Len(q) = Len(s) - 1 /\ Len(s) \in Nat \ {0}
      /\ DOMAIN q = 1 .. Len(s) - 1 /\ DOMAIN s = 1 .. Len(s)
      /\ \A i \in 1 .. Len(s) - 1 : q[i] = s[i + 1]
      /\ Head(s) = s[1] /\ Head(s) \in S
  BY <1>1
<1>3. Head(s) \in ToSet(s)
  BY <1>2 DEF ToSet
<1>4. ASSUME Distinct(s) PROVE Distinct(q) /\ ToSet(q) = ToSet(s) \ {Head(s)}
  <2>1. \A i \in 1 .. Len(s) - 1 : i + 1 \in 1 .. Len(s) /\ i + 1 # 1
    BY <1>2
  <2>2. Distinct(q)
    <3> SUFFICES ASSUME NEW i \in 1 .. Len(s) - 1, NEW j \in 1 .. Len(s) - 1, q[i] = q[j]
                 PROVE  i = j
      BY <1>2 DEF Distinct
    <3>1. i + 1 = j + 1
      BY <1>2, <1>4, <2>1 DEF Distinct
    <3> QED
      BY <3>1
  <2>3. \A x \in ToSet(q) : x \in ToSet(s) /\ x # Head(s)
    BY <1>2, <1>4, <2>1 DEF ToSet, Distinct
  <2>4. ASSUME NEW x \in ToSet(s), x # Head(s) PROVE x \in ToSet(q)
    <3>1. PICK i \in 1 .. Len(s) : x = s[i]
      BY <1>2 DEF ToSet
    <3>2. i - 1 \in 1 .. Len(s) - 1 /\ (i - 1) + 1 = i
      BY <1>2, <2>4, <3>1
    <3> QED
      BY <1>2, <3>1, <3>2 DEF ToSet
  <2> QED
    BY <2>2, <2>3, <2>4
<1> QED
  BY <1>1, <1>2, <1>3, <1>4

-----------------------------------------------------------------------------
(* The queue, a ring.                                                      *)

\* The remainder of a number below two turns.
LEMMA OneTurn ==
  ASSUME NEW x \in 0 .. 2 * Capacity - 1
  PROVE  x % Capacity = IF x < Capacity THEN x ELSE x - Capacity
<1>1. Capacity \in Nat \ {0, 1}
  BY QueueHasRoom
<1>2. CASE x < Capacity
  BY <1>1, <1>2
<1>3. CASE ~(x < Capacity)
  <2>1. PICK y \in 0 .. Capacity - 1 : x = y + Capacity
    <3>1. x - Capacity \in 0 .. Capacity - 1 /\ x = (x - Capacity) + Capacity
      BY <1>1, <1>3
    <3> QED
      BY <3>1
  <2>2. y % Capacity = y /\ (y + Capacity) % Capacity = y
    BY <1>1
  <2> QED
    BY <1>1, <1>3, <2>1, <2>2
<1> QED
  BY <1>2, <1>3

\* The entries of array d from index r to index w.
QueueOf(d, r, w) ==
  LET n == (w + Capacity - r) % Capacity
  IN  [i \in 1 .. n |-> d[(r + i - 1) % Capacity]]

Ring == [0 .. Capacity - 1 -> Nat]

\* Where the queue's i-th entry is, and how many there are.
Place(r, i) == IF r + i - 1 < Capacity THEN r + i - 1 ELSE r + i - 1 - Capacity
Between(r, w) == IF r <= w THEN w - r ELSE w + Capacity - r

\* The queue as a sequence: its length and its entries.
LEMMA QueueOfFacts ==
  ASSUME NEW d \in Ring, NEW r \in 0 .. Capacity - 1, NEW w \in 0 .. Capacity - 1
  PROVE  /\ QueueOf(d, r, w) \in Seq(Nat) /\ Len(QueueOf(d, r, w)) = Between(r, w)
         /\ Between(r, w) \in 0 .. Capacity - 1
         /\ \A i \in 1 .. Between(r, w) : QueueOf(d, r, w)[i] = d[Place(r, i)]
<1>1. Capacity \in Nat \ {0, 1}
  BY QueueHasRoom
<1>2. PICK n : n = Between(r, w)
  OBVIOUS
<1>3. n \in 0 .. Capacity - 1
  BY <1>1, <1>2 DEF Between
<1>4. (w + Capacity - r) % Capacity = n
  <2>1. w + Capacity - r \in 0 .. 2 * Capacity - 1
    BY <1>1
  <2> QED
    BY <1>1, <1>2, <2>1, OneTurn DEF Between
<1>5. \A i \in 1 .. n : (r + i - 1) % Capacity = Place(r, i) /\ Place(r, i) \in 0 .. Capacity - 1
  <2>1. \A i \in 1 .. n : r + i - 1 \in 0 .. 2 * Capacity - 1
    BY <1>1, <1>3
  <2> QED
    BY <1>1, <1>3, <2>1, OneTurn DEF Place
<1>6. QueueOf(d, r, w) = [i \in 1 .. n |-> d[(r + i - 1) % Capacity]]
  BY <1>4 DEF QueueOf
<1>7. \A i \in 1 .. n : d[(r + i - 1) % Capacity] \in Nat
  BY <1>5 DEF Ring
<1>8. QueueOf(d, r, w) \in Seq(Nat) /\ Len(QueueOf(d, r, w)) = n
  BY <1>3, <1>6, <1>7
<1>9. \A i \in 1 .. n : QueueOf(d, r, w)[i] = d[Place(r, i)]
  BY <1>5, <1>6
<1> QED
  BY <1>2, <1>3, <1>8, <1>9

\* An entry that is put comes last.
LEMMA QueuePuts ==
  ASSUME NEW d \in Ring, NEW r \in 0 .. Capacity - 1, NEW w \in 0 .. Capacity - 1,
         Between(r, w) # Capacity - 1, NEW e \in Nat
  PROVE  /\ [d EXCEPT ![w] = e] \in Ring /\ Following(w) \in 0 .. Capacity - 1
         /\ QueueOf([d EXCEPT ![w] = e], r, Following(w)) = Append(QueueOf(d, r, w), e)
<1>1. Capacity \in Nat \ {0, 1}
  BY QueueHasRoom
<1>2. PICK n, v : n = Between(r, w) /\ v = Following(w)
  OBVIOUS
<1>3. n \in 0 .. Capacity - 1 /\ v \in 0 .. Capacity - 1 /\ Between(r, v) = n + 1
  BY <1>1, <1>2 DEF Between, Following
<1>4. PICK c : c = [d EXCEPT ![w] = e]
  OBVIOUS
<1>5. c \in Ring /\ c[w] = e /\ \A j \in 0 .. Capacity - 1 : j # w => c[j] = d[j]
  BY <1>4 DEF Ring
<1>6. Place(r, n + 1) = w
  BY <1>1, <1>2 DEF Between, Place
<1>7. \A i \in 1 .. n : Place(r, i) # w /\ Place(r, i) \in 0 .. Capacity - 1
  BY <1>1, <1>2, <1>3 DEF Between, Place
<1>8. PICK p, q : p = QueueOf(c, r, v) /\ q = QueueOf(d, r, w)
  OBVIOUS
<1>9. /\ p \in Seq(Nat) /\ Len(p) = n + 1 /\ \A i \in 1 .. n + 1 : p[i] = c[Place(r, i)]
      /\ q \in Seq(Nat) /\ Len(q) = n /\ \A i \in 1 .. n : q[i] = d[Place(r, i)]
  <2>1. p \in Seq(Nat) /\ Len(p) = n + 1 /\ \A i \in 1 .. n + 1 : p[i] = c[Place(r, i)]
    <3>1. c \in Ring /\ v \in 0 .. Capacity - 1 /\ p = QueueOf(c, r, v)
      BY <1>3, <1>5, <1>8
    <3>2. /\ QueueOf(c, r, v) \in Seq(Nat) /\ Len(QueueOf(c, r, v)) = Between(r, v)
          /\ \A i \in 1 .. Between(r, v) : QueueOf(c, r, v)[i] = c[Place(r, i)]
      BY <3>1, QueueOfFacts, Zenon
    <3> QED
      BY <1>3, <3>1, <3>2
  <2>2. q \in Seq(Nat) /\ Len(q) = n /\ \A i \in 1 .. n : q[i] = d[Place(r, i)]
    BY <1>2, <1>8, QueueOfFacts
  <2> QED
    BY <2>1, <2>2
<1>10. p = Append(q, e)
  <2>1. PICK a : a = Append(q, e)
    OBVIOUS
  <2>2. /\ a \in Seq(Nat) /\ Len(a) = n + 1 /\ a[n + 1] = e
        /\ \A i \in 1 .. n : a[i] = q[i]
    BY <1>9, <2>1
  <2>3. \A i \in 1 .. n + 1 : p[i] = a[i]
    <3>1. \A i \in 1 .. n + 1 : i \in 1 .. n \/ i = n + 1
      BY <1>3
    <3>2. p[n + 1] = a[n + 1]
      <4>1. n + 1 \in 1 .. n + 1
        BY <1>3
      <4> QED
        BY <1>5, <1>6, <1>9, <2>2, <4>1
    <3>3. ASSUME NEW i \in 1 .. n PROVE p[i] = a[i]
      <4>1. i \in 1 .. n + 1
        BY <1>3
      <4> QED
        BY <1>5, <1>7, <1>9, <2>2, <4>1
    <3> QED
      BY <3>1, <3>2, <3>3
  <2>4. p = a
    BY <1>9, <2>2, <2>3, SeqEqual
  <2> QED
    BY <2>1, <2>4
<1> QED
  BY <1>2, <1>3, <1>4, <1>5, <1>8, <1>10

\* The entry that is got is the first.
LEMMA QueueGets ==
  ASSUME NEW d \in Ring, NEW r \in 0 .. Capacity - 1, NEW w \in 0 .. Capacity - 1, r # w
  PROVE  /\ Following(r) \in 0 .. Capacity - 1
         /\ QueueOf(d, r, w) # <<>> /\ d[r] = Head(QueueOf(d, r, w))
         /\ QueueOf(d, Following(r), w) = Tail(QueueOf(d, r, w))
<1>1. Capacity \in Nat \ {0, 1}
  BY QueueHasRoom
<1>2. PICK n, v : n = Between(r, w) /\ v = Following(r)
  OBVIOUS
<1>3. n \in 1 .. Capacity - 1 /\ v \in 0 .. Capacity - 1 /\ Between(v, w) = n - 1
  BY <1>1, <1>2 DEF Between, Following
<1>4. Place(r, 1) = r /\ \A i \in 1 .. n - 1 : Place(v, i) = Place(r, i + 1)
  BY <1>1, <1>2, <1>3 DEF Following, Place
<1>5. PICK p, q : p = QueueOf(d, v, w) /\ q = QueueOf(d, r, w)
  OBVIOUS
<1>6. q \in Seq(Nat) /\ Len(q) = n /\ \A i \in 1 .. n : q[i] = d[Place(r, i)]
  BY <1>2, <1>5, QueueOfFacts
<1>7. p \in Seq(Nat) /\ Len(p) = n - 1 /\ \A i \in 1 .. n - 1 : p[i] = d[Place(v, i)]
  <2>1. /\ p \in Seq(Nat) /\ Len(p) = Between(v, w)
        /\ \A i \in 1 .. Between(v, w) : p[i] = d[Place(v, i)]
    BY <1>3, <1>5, QueueOfFacts, ZenonT(30)
  <2> QED
    BY <1>3, <2>1
<1>8. q # <<>> /\ Head(q) = d[r]
  BY <1>3, <1>4, <1>6
<1>9. p = Tail(q)
  <2>1. PICK t : t = Tail(q)
    OBVIOUS
  <2>2. t \in Seq(Nat) /\ Len(t) = n - 1 /\ \A i \in 1 .. n - 1 : t[i] = q[i + 1]
    BY <1>6, <1>8, <2>1
  <2>3. \A i \in 1 .. n - 1 : i + 1 \in 1 .. n
    BY <1>3
  <2>4. \A i \in 1 .. n - 1 : p[i] = t[i]
    BY <1>4, <1>6, <1>7, <2>2, <2>3
  <2>5. p = t
    BY <1>7, <2>2, <2>4, SeqEqual
  <2> QED
    BY <2>1, <2>5
<1> QED
  BY <1>2, <1>3, <1>5, <1>8, <1>9

\* What the variables make of it.
LEMMA QueuedFacts ==
  ASSUME LogShape
  PROVE  /\ Queued = QueueOf(data, rindex, windex) /\ data \in Ring
         /\ Queued \in Seq(Nat) /\ Len(Queued) \in Nat
         /\ Full <=> Between(rindex, windex) = Capacity - 1
<1>1. Queued = QueueOf(data, rindex, windex)
  BY DEF Queued, QueueOf
<1>2. data \in Ring /\ rindex \in 0 .. Capacity - 1 /\ windex \in 0 .. Capacity - 1
  BY DEF LogShape, Ring
<1>3. Queued \in Seq(Nat)
  BY <1>1, <1>2, QueueOfFacts
<1>4. Full <=> Between(rindex, windex) = Capacity - 1
  BY <1>2, QueueHasRoom DEF Full, Between
<1> QED
  BY <1>1, <1>2, <1>3, <1>4

-----------------------------------------------------------------------------
(* Who holds what.                                                         *)

\* Somebody takes an entry into their hands.
LEMMA OneMoreHolds ==
  ASSUME LInv, NEW t \in Threads, t \notin Holders, Holders' = Holders \cup {t}
  PROVE  IsFiniteSet(Holders') /\ Cardinality(Holders') = Cardinality(Holders) + 1
         /\ Cardinality(Holders) \in Nat
BY FS_AddElement, FS_CardinalityType DEF LInv, EntriesCounted

\* Somebody puts an entry down.
LEMMA OneLessHolds ==
  ASSUME LInv, NEW t \in Holders, Holders' = Holders \ {t}
  PROVE  IsFiniteSet(Holders') /\ Cardinality(Holders') = Cardinality(Holders) - 1
         /\ Cardinality(Holders) \in Nat
BY FS_RemoveElement, FS_CardinalityType DEF LInv, EntriesCounted

\* A thread's hand changes, and nobody else's.
LEMMA HandChanges ==
  ASSUME LogShape, NEW t \in Threads, NEW step \in Steps, NEW entry \in Nat, entry <= made',
         made' \in Nat, made <= made', Step(t, step, entry)
  PROVE  /\ hand' \in [Threads -> [step : Steps, entry : 0 .. made']]
         /\ hand'[t].step = step /\ hand'[t].entry = entry
         /\ \A u \in Threads : u # t => hand'[u] = hand[u]
         /\ Holders' = IF entry = 0 THEN Holders \ {t} ELSE Holders \cup {t}
<1>1. hand' = [hand EXCEPT ![t] = [step |-> step, entry |-> entry]] /\ made \in Nat
  BY DEF Step, LogShape
<1>2. [step |-> step, entry |-> entry] \in [step : Steps, entry : 0 .. made']
  OBVIOUS
<1>3. \A u \in Threads : hand[u] \in [step : Steps, entry : 0 .. made']
  <2>1. ASSUME NEW u \in Threads PROVE hand[u] \in [step : Steps, entry : 0 .. made']
    <3>1. hand[u] \in [step : Steps, entry : 0 .. made]
      BY DEF LogShape
    <3>2. hand[u].entry \in 0 .. made'
      BY <1>1, <3>1
    <3> QED
      BY <3>1, <3>2
  <2> QED
    BY <2>1
<1>4. hand \in [Threads -> [step : Steps, entry : 0 .. made]]
  BY DEF LogShape
<1>5. hand' \in [Threads -> [step : Steps, entry : 0 .. made']]
  BY <1>1, <1>2, <1>3, <1>4
<1>6. /\ hand'[t].step = step /\ hand'[t].entry = entry
      /\ \A u \in Threads : u # t => hand'[u] = hand[u]
  BY <1>1, <1>4
<1>7. Holders' = IF entry = 0 THEN Holders \ {t} ELSE Holders \cup {t}
  BY <1>6 DEF Holders
<1> QED
  BY <1>5, <1>6, <1>7

\* Where the log thread stands and what is written stays; the queue and its lines stay.
LEMMA LinesStay ==
  ASSUME LInv, UNCHANGED <<queued, written>>, Queued' = Queued, ended => ended',
         hand'[Reader].step = "write" <=> hand[Reader].step = "write",
         hand[Reader].step = "write" => hand'[Reader].entry = hand[Reader].entry,
         ended /\ hand[Reader].step \in {"none", "release"} =>
           hand'[Reader].step \in {"none", "release"},
         \A e \in ToSet(Queued) : line'[e] = line[e],
         hand[Reader].step = "write" => line'[hand[Reader].entry] = line[hand[Reader].entry]
  PROVE  LinesKept'
<1>1. InHand' = InHand
  BY DEF InHand
<1>2. \A i \in 1 .. Len(Queued) : Queued[i] \in ToSet(Queued)
  BY QueuedFacts DEF LInv, ToSet
<1>3. LinesToCome => LinesToCome'
  BY <1>1, <1>2 DEF LinesToCome
<1>4. LinesWritten' /\ Len(written') <= Len(queued')
  BY DEF LInv, LinesKept, LinesWritten
<1> QED
  BY <1>3, <1>4 DEF LInv, LinesKept

-----------------------------------------------------------------------------
(* The threads' steps.                                                     *)

\* What the pool has when an entry is taken from it.
LEMMA EntriesFacts ==
  ASSUME LInv, NEW entries, entries = pool \o NewEntries, NEW size, size = made + Len(NewEntries)
  PROVE  /\ size \in Nat /\ made <= size /\ entries \in Seq(1 .. size) /\ entries # <<>>
         /\ Len(entries) = Len(pool) + (size - made)
         /\ Distinct(entries) /\ ToSet(entries) = ToSet(pool) \cup (made + 1 .. size)
<1>1. made \in Nat /\ PoolCapacity \in Nat /\ pool \in Seq(1 .. made)
  BY PoolHasEntries DEF LInv, LogShape
<1>2. CASE pool = <<>>
  <2>1. PICK m : m = PoolCapacity \div 2 + 1
    OBVIOUS
  <2>2. m \in Nat /\ m >= 1
    BY <1>1, <2>1
  <2>3. NewEntries = [i \in 1 .. m |-> made + i]
    BY <1>2, <2>1 DEF NewEntries
  <2>4. PICK q : q = NewEntries
    OBVIOUS
  <2>5. /\ q \in Seq(1 .. made + m) /\ Len(q) = m /\ DOMAIN q = 1 .. m
        /\ \A i \in 1 .. m : q[i] = made + i
    <3>1. \A i \in 1 .. m : made + i \in 1 .. made + m
      BY <1>1, <2>2
    <3> QED
      BY <2>2, <2>3, <2>4, <3>1
  <2>6. entries = q /\ size = made + m
    BY <1>2, <2>4, <2>5, ConcatEmptySeq
  <2>7. Distinct(q)
    BY <1>1, <2>2, <2>5 DEF Distinct
  <2>8. ToSet(q) = made + 1 .. made + m
    <3>1. \A x \in ToSet(q) : x \in made + 1 .. made + m
      BY <1>1, <2>2, <2>5 DEF ToSet
    <3>2. ASSUME NEW x \in made + 1 .. made + m PROVE x \in ToSet(q)
      <4>1. x - made \in 1 .. m /\ made + (x - made) = x
        BY <1>1, <2>2
      <4> QED
        BY <2>5, <4>1 DEF ToSet
    <3> QED
      BY <3>1, <3>2
  <2>9. ToSet(pool) = {} /\ Len(pool) = 0
    BY <1>2 DEF ToSet
  <2> QED
    BY <1>1, <2>2, <2>5, <2>6, <2>7, <2>8, <2>9
<1>3. CASE pool # <<>>
  <2>1. NewEntries = <<>>
    BY <1>3 DEF NewEntries
  <2>2. entries = pool /\ size = made
    BY <1>1, <2>1, ConcatEmptySeq
  <2>3. made + 1 .. size = {}
    BY <1>1, <2>2
  <2> QED
    BY <1>1, <1>3, <2>2, <2>3 DEF LInv, EntriesPlaced
<1> QED
  BY <1>2, <1>3

\* A writer takes an entry: it leaves the pool for the writer's hands.
LEMMA TakeEntryKeeps ==
  ASSUME ReaderIsNoWriter, LInv, NEW w \in Writers, TakeEntry(w)
  PROVE  LInv'
<1>1. PICK entries, size : entries = pool \o NewEntries /\ size = made + Len(NewEntries)
  OBVIOUS
<1>2. /\ pool' = Tail(entries) /\ made' = size
      /\ line' = [i \in 1 .. size |-> IF i = Head(entries) THEN logged + 1
                                      ELSE IF i <= made THEN line[i] ELSE 0]
      /\ Step(w, "put", Head(entries))
  BY <1>1, Zenon DEF TakeEntry
<1>3. /\ hand[w].step = "none" /\ popped' = popped + 1 /\ logged' = logged + 1
      /\ UNCHANGED <<data, rindex, windex, ended, queued, written>>
  BY DEF TakeEntry
<1>4. /\ size \in Nat /\ made <= size /\ entries \in Seq(1 .. size) /\ entries # <<>>
      /\ Len(entries) = Len(pool) + (size - made)
      /\ Distinct(entries) /\ ToSet(entries) = ToSet(pool) \cup (made + 1 .. size)
  BY <1>1, EntriesFacts
<1>5. PICK e : e = Head(entries)
  OBVIOUS
<1>6. /\ e \in 1 .. size /\ e \in ToSet(entries) /\ pool' \in Seq(1 .. size)
      /\ Len(pool') = Len(entries) - 1 /\ Distinct(pool')
      /\ ToSet(pool') = ToSet(entries) \ {e}
  BY <1>2, <1>4, <1>5, TailFacts
<1>7. w \in Threads /\ w # Reader /\ hand[w].entry = 0 /\ w \notin Holders
  BY <1>3 DEF ReaderIsNoWriter, Threads, LInv, HandsFit, Holders
<1>8. /\ hand' \in [Threads -> [step : Steps, entry : 0 .. size]]
      /\ hand'[w].step = "put" /\ hand'[w].entry = e /\ e # 0
      /\ \A u \in Threads : u # w => hand'[u] = hand[u]
      /\ Holders' = Holders \cup {w}
  <2>1. "put" \in Steps /\ e \in Nat /\ e <= size /\ e # 0
    BY <1>6 DEF Steps
  <2> QED
    BY <1>2, <1>4, <1>5, <1>7, <2>1, HandChanges DEF LInv
<1>9. Queued' = Queued /\ Queued \in Seq(Nat)
  BY <1>3, QueuedFacts DEF LInv, Queued
<1>10. e \notin ToSet(Queued) /\ \A t \in Holders : hand[t].entry # e
  <2>1. made \in Nat /\ ToSet(Queued) \subseteq 1 .. made
    BY DEF LInv, LogShape, EntriesPlaced
  <2>2. \A t \in Holders : hand[t].entry \in 0 .. made
    BY DEF Holders, LInv, LogShape
  <2>3. \A t \in Holders : hand[t].entry \notin ToSet(pool)
    BY DEF LInv, EntriesPlaced
  <2>4. ToSet(pool) \cap ToSet(Queued) = {}
    BY DEF LInv, EntriesPlaced
  <2>5. e \in ToSet(pool) \/ e \in made + 1 .. size
    BY <1>4, <1>6
  <2> QED
    BY <1>4, <2>1, <2>2, <2>3, <2>4, <2>5
<1>11. LogShape'
  <2>1. line' \in [1 .. size -> Nat]
    BY <1>2, <1>4 DEF LInv, LogShape
  <2>2. made \in Nat /\ Len(pool) \in Nat /\ popped' = size - Len(pool')
    BY <1>3, <1>4, <1>6 DEF LInv, LogShape
  <2>3. made' \in Nat /\ popped' = made' - Len(pool') /\ logged' \in Nat
    <3>1. made' \in Nat /\ popped' = made' - Len(pool')
      BY <1>2, <1>4, <2>2
    <3>2. logged \in Nat
      BY DEF LInv, LogShape
    <3> QED
      BY <1>3, <3>1, <3>2
  <2>4. pool' \in Seq(1 .. made') /\ line' \in [1 .. made' -> Nat]
    BY <1>2, <1>6, <2>1
  <2>5. hand' \in [Threads -> [step : Steps, entry : 0 .. made']]
    BY <1>2, <1>8
  <2> QED
    BY <1>3, <2>3, <2>4, <2>5 DEF LInv, LogShape
<1>12. HandsFit'
  BY <1>7, <1>8 DEF LInv, HandsFit, Threads
<1>13. EntriesPlaced'
  <2>1. \A t, u \in Holders' : hand'[t].entry = hand'[u].entry => t = u
    BY <1>7, <1>8, <1>10 DEF LInv, EntriesPlaced, Holders
  <2>2. ToSet(pool') \cap ToSet(Queued) = {} /\ ToSet(Queued) \subseteq 1 .. size
    <3>1. ToSet(Queued) \subseteq 1 .. made /\ made \in Nat /\ ToSet(pool) \cap ToSet(Queued) = {}
      BY DEF LInv, EntriesPlaced, LogShape
    <3> QED
      BY <1>4, <1>6, <3>1
  <2>3. \A t \in Holders' : hand'[t].entry \notin ToSet(pool') \cup ToSet(Queued)
    <3>1. ASSUME NEW t \in Holders PROVE hand[t].entry \notin ToSet(pool') \cup ToSet(Queued)
      <4>1. hand[t].entry \in 0 .. made /\ made \in Nat
        BY DEF Holders, LInv, LogShape
      <4>2. hand[t].entry \notin ToSet(pool) \cup ToSet(Queued)
        BY DEF LInv, EntriesPlaced
      <4>3. hand[t].entry \notin made + 1 .. size
        BY <1>4, <4>1
      <4>4. ToSet(pool') \subseteq ToSet(pool) \cup (made + 1 .. size)
        BY <1>4, <1>6, ZenonT(30)
      <4> QED
        BY <4>2, <4>3, <4>4, ZenonT(30)
    <3>2. hand'[w].entry \notin ToSet(pool') \cup ToSet(Queued)
      BY <1>6, <1>8, <1>10
    <3> QED
      BY <1>7, <1>8, <3>1, <3>2 DEF Holders
  <2>4. ASSUME NEW x \in 1 .. size PROVE x \in ToSet(pool') \cup ToSet(Queued) \cup Held'
    <3>1. CASE x = e
      BY <1>6, <1>7, <1>8, <3>1 DEF Held
    <3>2. CASE x # e /\ x \in ToSet(entries)
      BY <1>6, <3>2
    <3>3. CASE x # e /\ x \notin ToSet(entries)
      <4>1. x \in 1 .. made
        BY <1>4, <3>3 DEF LInv, LogShape
      <4>2. x \in ToSet(Queued) \cup Held
        BY <1>4, <3>3, <4>1 DEF LInv, EntriesPlaced
      <4>3. x \in Held => x \in Held'
        BY <1>7, <1>8 DEF Held
      <4> QED
        BY <4>2, <4>3
    <3> QED
      BY <3>1, <3>2, <3>3
  <2> QED
    BY <1>2, <1>6, <1>9, <2>1, <2>2, <2>3, <2>4 DEF LInv, EntriesPlaced
<1>14. EntriesCounted'
  <2>1. IsFiniteSet(Holders') /\ Cardinality(Holders') = Cardinality(Holders) + 1
        /\ Cardinality(Holders) \in Nat
    BY <1>7, <1>8, OneMoreHolds
  <2>2. made \in Nat /\ Len(pool) \in Nat /\ Len(Queued) \in Nat
    BY QueuedFacts DEF LInv, LogShape
  <2>3. Len(pool) + Len(Queued) + Cardinality(Holders) = made
    BY DEF LInv, EntriesCounted
  <2>4. Len(pool') + Len(Queued) + Cardinality(Holders') = size
    <3>1. Len(pool') = Len(pool) + (size - made) - 1 /\ size \in Nat
      BY <1>4, <1>6, <2>2
    <3> QED
      BY <2>1, <2>2, <2>3, <3>1
  <2> QED
    BY <1>2, <1>9, <2>1, <2>4 DEF EntriesCounted
<1>15. LinesKept'
  <2>1. ASSUME NEW x \in 1 .. made, x # e PROVE line'[x] = line[x]
    BY <1>2, <1>4, <1>5, <2>1 DEF LInv, LogShape
  <2>2. \A x \in ToSet(Queued) : x \in 1 .. made /\ x # e
    BY <1>10 DEF LInv, EntriesPlaced
  <2>3. ASSUME hand[Reader].step = "write"
       PROVE  hand[Reader].entry \in 1 .. made /\ hand[Reader].entry # e
    <3>1. Reader \in Holders /\ Reader \in Threads
      BY <2>3 DEF Threads, Holders, LInv, HandsFit
    <3>2. hand[Reader].entry \in 0 .. made /\ hand[Reader].entry # 0 /\ made \in Nat
      BY <3>1 DEF Holders, LInv, LogShape
    <3> QED
      BY <1>10, <3>1, <3>2
  <2>4. hand'[Reader] = hand[Reader]
    BY <1>7, <1>8 DEF Threads
  <2> QED
    BY <1>3, <1>9, <2>1, <2>2, <2>3, <2>4, LinesStay
<1> QED
  BY <1>11, <1>12, <1>13, <1>14, <1>15 DEF LInv

\* A step that leaves the pool and the entries' number: the shapes that stay.
LEMMA ShapeStays ==
  ASSUME LInv, UNCHANGED <<pool, made, popped, logged>>,
         line' \in [1 .. made -> Nat], data' \in Ring,
         rindex' \in 0 .. Capacity - 1, windex' \in 0 .. Capacity - 1,
         hand' \in [Threads -> [step : Steps, entry : 0 .. made]],
         queued' \in Seq(Nat), written' \in Seq(Nat), ended' \in BOOLEAN
  PROVE  LogShape'
BY DEF LInv, LogShape, Ring

\* An entry goes from a thread's hands to the end of the queue.
LEMMA PutKeeps ==
  ASSUME ReaderIsNoWriter, LInv, NEW w \in Writers, Put(w)
  PROVE  LInv'
<1>1. /\ hand[w].step = "put"
      /\ UNCHANGED <<pool, made, popped, line, rindex, ended, logged, written>>
  BY DEF Put
<1>2. PICK e : e = hand[w].entry
  OBVIOUS
<1>3. /\ w \in Threads /\ w # Reader /\ w \in Holders /\ made \in Nat
      /\ e \in 1 .. made /\ e # 0 /\ e \in Nat
  <2>1. w \in Threads /\ w # Reader
    BY DEF Threads, ReaderIsNoWriter
  <2>2. hand[w] \in [step : Steps, entry : 0 .. made] /\ made \in Nat /\ hand[w].entry # 0
    BY <1>1, <2>1 DEF LInv, LogShape, HandsFit
  <2> QED
    BY <1>2, <2>1, <2>2 DEF Holders
<1>4. ASSUME NEW step \in {"none", "release"}, NEW x \in {0, e}, Step(w, step, x)
      PROVE  /\ hand' \in [Threads -> [step : Steps, entry : 0 .. made]]
             /\ hand'[w].step = step /\ hand'[w].entry = x
             /\ \A u \in Threads : u # w => hand'[u] = hand[u]
             /\ Holders' = IF x = 0 THEN Holders \ {w} ELSE Holders \cup {w}
  <2>1. step \in Steps /\ x \in Nat /\ x <= made'
    BY <1>1, <1>3 DEF Steps
  <2>2. made' \in Nat /\ made <= made' /\ made' = made
    BY <1>1, <1>3
  <2> QED
    BY <1>3, <1>4, <2>1, <2>2, HandChanges DEF LInv
<1>5. CASE Full /\ Step(w, "release", hand[w].entry) /\ UNCHANGED <<data, windex, queued>>
  <2>1. /\ hand' \in [Threads -> [step : Steps, entry : 0 .. made]]
        /\ hand'[w].step = "release" /\ hand'[w].entry = e
        /\ \A u \in Threads : u # w => hand'[u] = hand[u]
        /\ Holders' = Holders
    BY <1>2, <1>3, <1>4, <1>5
  <2>2. LogShape'
    BY <1>1, <1>5, <2>1, QueuedFacts, ShapeStays DEF LInv, LogShape
  <2>3. HandsFit'
    BY <1>3, <2>1 DEF LInv, HandsFit, Threads
  <2>4. Queued' = Queued
    BY <1>1, <1>5 DEF Queued
  <2>5. \A t \in Threads : hand'[t].entry = hand[t].entry
    BY <1>2, <2>1
  <2>6. EntriesPlaced'
    BY <1>1, <2>1, <2>4, <2>5 DEF LInv, EntriesPlaced, Holders, Held
  <2>7. EntriesCounted'
    BY <1>1, <2>1, <2>4 DEF LInv, EntriesCounted
  <2>8. LinesKept'
    BY <1>1, <1>3, <1>5, <2>1, <2>4, LinesStay DEF Threads
  <2> QED
    BY <2>2, <2>3, <2>6, <2>7, <2>8 DEF LInv
<1>6. CASE /\ ~Full /\ Step(w, "none", 0)
           /\ data' = [data EXCEPT ![windex] = hand[w].entry] /\ windex' = Following(windex)
           /\ queued' = Append(queued, line[hand[w].entry])
  <2>1. /\ hand' \in [Threads -> [step : Steps, entry : 0 .. made]]
        /\ hand'[w].step = "none" /\ hand'[w].entry = 0
        /\ \A u \in Threads : u # w => hand'[u] = hand[u]
        /\ Holders' = Holders \ {w}
    BY <1>4, <1>6
  <2>2. PICK q, p : q = Queued /\ p = Queued'
    OBVIOUS
  <2>3. data' \in Ring /\ windex' \in 0 .. Capacity - 1 /\ p = Append(q, e)
    <3>1. /\ q = QueueOf(data, rindex, windex) /\ data \in Ring
          /\ Between(rindex, windex) # Capacity - 1
      BY <1>6, <2>2, QueuedFacts DEF LInv
    <3>2. rindex \in 0 .. Capacity - 1 /\ windex \in 0 .. Capacity - 1
      BY DEF LInv, LogShape
    <3>3. /\ data' \in Ring /\ windex' \in 0 .. Capacity - 1
          /\ QueueOf(data', rindex, windex') = Append(q, e)
      BY <1>2, <1>3, <1>6, <3>1, <3>2, QueuePuts, ZenonT(30)
    <3>4. p = QueueOf(data', rindex', windex')
      BY <2>2 DEF Queued, QueueOf
    <3> QED
      BY <1>1, <3>3, <3>4
  <2>4. e \notin ToSet(q) /\ e \notin ToSet(pool) /\ \A t \in Holders : hand[t].entry = e => t = w
    BY <1>2, <1>3, <2>2 DEF LInv, EntriesPlaced
  <2>5. /\ q \in Seq(Nat) /\ Len(q) \in Nat /\ Len(p) = Len(q) + 1 /\ p[Len(q) + 1] = e
        /\ \A i \in 1 .. Len(q) : p[i] = q[i]
        /\ ToSet(p) = ToSet(q) \cup {e} /\ Distinct(p)
    <3>1. q \in Seq(Nat) /\ Distinct(q)
      BY <2>2, QueuedFacts DEF LInv, EntriesPlaced
    <3> QED
      BY <1>3, <2>3, <2>4, <3>1, AppendFacts
  <2>6. PICK l : l = line[e] /\ l \in Nat
    BY <1>3 DEF LInv, LogShape
  <2>7. /\ queued \in Seq(Nat) /\ Len(queued) \in Nat /\ queued' \in Seq(Nat)
        /\ Len(queued') = Len(queued) + 1 /\ queued'[Len(queued) + 1] = l
        /\ \A i \in 1 .. Len(queued) : queued'[i] = queued[i]
    <3>1. queued \in Seq(Nat) /\ queued' = Append(queued, l)
      BY <1>2, <1>6, <2>6 DEF LInv, LogShape
    <3> QED
      BY <2>6, <3>1, AppendFacts
  <2>8. LogShape'
    BY <1>1, <2>1, <2>3, <2>7, ShapeStays DEF LInv, LogShape
  <2>9. HandsFit'
    BY <1>3, <2>1 DEF LInv, HandsFit, Threads
  <2>10. EntriesPlaced'
    <3>1. \A t, u \in Holders' : hand'[t].entry = hand'[u].entry => t = u
      BY <2>1 DEF LInv, EntriesPlaced, Holders
    <3>2. ToSet(pool) \cap ToSet(p) = {} /\ ToSet(p) \subseteq 1 .. made
      BY <1>3, <2>2, <2>4, <2>5 DEF LInv, EntriesPlaced
    <3>3. ASSUME NEW t \in Holders' PROVE hand'[t].entry \notin ToSet(pool) \cup ToSet(p)
      <4>1. t \in Holders /\ t # w /\ hand'[t] = hand[t]
        BY <2>1 DEF Holders
      <4>2. hand[t].entry # e /\ hand[t].entry \notin ToSet(pool) \cup ToSet(q)
        BY <2>2, <2>4, <4>1 DEF LInv, EntriesPlaced
      <4> QED
        BY <2>5, <4>1, <4>2
    <3>4. ASSUME NEW x \in 1 .. made PROVE x \in ToSet(pool) \cup ToSet(p) \cup Held'
      <4>1. x \in ToSet(pool) \cup ToSet(q) \cup Held
        BY <2>2 DEF LInv, EntriesPlaced
      <4>2. x \in Held => x = e \/ x \in Held'
        BY <1>2, <2>1 DEF Held
      <4> QED
        BY <2>5, <4>1, <4>2
    <3> QED
      BY <1>1, <2>2, <2>5, <3>1, <3>2, <3>3, <3>4 DEF LInv, EntriesPlaced
  <2>11. EntriesCounted'
    <3>1. IsFiniteSet(Holders') /\ Cardinality(Holders') = Cardinality(Holders) - 1
          /\ Cardinality(Holders) \in Nat
      BY <1>3, <2>1, OneLessHolds
    <3>2. Len(pool) \in Nat /\ Len(pool) + Len(q) + Cardinality(Holders) = made
      BY <2>2 DEF LInv, EntriesCounted, LogShape
    <3>3. Len(pool) + Len(p) + Cardinality(Holders') = made
      BY <1>3, <2>5, <3>1, <3>2
    <3> QED
      BY <1>1, <2>2, <3>1, <3>3 DEF EntriesCounted
  <2>12. LinesKept'
    <3>1. PICK k : k = Len(written) /\ k \in Nat /\ k <= Len(queued)
      <4>1. written \in Seq(Nat) /\ Len(written) <= Len(queued)
        BY DEF LInv, LinesKept, LogShape
      <4> QED
        BY <4>1
    <3>2. hand'[Reader] = hand[Reader] /\ Reader \in Threads
      BY <1>3, <2>1 DEF Threads
    <3>3. PICK h : h = InHand /\ h \in {0, 1} /\ InHand' = h
      BY <3>2 DEF InHand
    <3>4. LinesWritten' /\ Len(written') <= Len(queued')
      <4>1. \A i \in 1 .. k : i \in 1 .. Len(queued)
        BY <2>7, <3>1
      <4> QED
        BY <1>1, <2>7, <3>1, <4>1, SMTT(60) DEF LInv, LinesKept, LinesWritten
    <3>5. ASSUME LinesToCome PROVE LinesToCome'
      <4>1. Len(queued) = k + h + Len(q)
        BY <2>2, <3>1, <3>3, <3>5 DEF LinesToCome
      <4>2. Len(queued') = k + h + Len(p)
        <5>1. PICK n : n = Len(q) /\ n \in Nat /\ Len(p) = n + 1
          BY <2>5
        <5>2. Len(queued) = k + h + n /\ Len(queued') = k + h + n + 1
          BY <2>7, <3>1, <3>3, <4>1, <5>1
        <5> QED
          BY <3>1, <3>3, <5>1, <5>2
      <4>3. hand[Reader].step = "write" => queued'[k + 1] = line[hand[Reader].entry]
        <5>1. hand[Reader].step = "write" => k + 1 \in 1 .. Len(queued)
          BY <2>5, <3>1, <3>3, <4>1 DEF InHand
        <5> QED
          BY <2>7, <3>1, <3>5, <5>1 DEF LinesToCome
      <4>4. ASSUME NEW i \in 1 .. Len(p) PROVE queued'[k + h + i] = line[p[i]]
        <5>1. CASE i = Len(q) + 1
          <6>1. k + h + i = Len(queued) + 1
            BY <2>5, <3>1, <3>3, <4>1, <5>1
          <6> QED
            BY <2>5, <2>6, <2>7, <5>1, <6>1
        <5>2. CASE i # Len(q) + 1
          <6>1. i \in 1 .. Len(q) /\ k + h + i \in 1 .. Len(queued)
            BY <2>5, <3>1, <3>3, <4>1, <5>2
          <6>2. queued[k + h + i] = line[q[i]]
            BY <2>2, <3>1, <3>3, <3>5, <6>1 DEF LinesToCome
          <6> QED
            BY <2>5, <2>7, <6>1, <6>2
        <5> QED
          BY <5>1, <5>2
      <4> QED
        BY <1>1, <2>2, <3>1, <3>2, <3>3, <4>2, <4>3, <4>4 DEF LinesToCome
    <3> QED
      BY <1>1, <3>2, <3>4, <3>5 DEF LInv, LinesKept
  <2> QED
    BY <2>8, <2>9, <2>10, <2>11, <2>12 DEF LInv
<1> QED
  BY <1>5, <1>6 DEF Put

\* An entry goes from a thread's hands back to the pool.
LEMMA ReleaseKeeps ==
  ASSUME ReaderIsNoWriter, LInv, NEW t \in Threads, Release(t)
  PROVE  LInv'
<1>1. /\ hand[t].step = "release" /\ Step(t, "none", 0)
      /\ popped' = IF popped > 0 THEN popped - 1 ELSE 0
      /\ UNCHANGED <<made, data, rindex, windex, ended, logged, queued, written>>
  BY DEF Release
<1>2. PICK e : e = hand[t].entry
  OBVIOUS
<1>3. pool' = Append(pool, e) /\ line' = [line EXCEPT ![e] = 0]
  BY <1>2 DEF Release
<1>4. t \in Holders /\ made \in Nat /\ e \in 1 .. made /\ e # 0
  <2>1. hand[t] \in [step : Steps, entry : 0 .. made] /\ made \in Nat /\ hand[t].entry # 0
    BY <1>1 DEF LInv, LogShape, HandsFit
  <2> QED
    BY <1>2, <2>1 DEF Holders
<1>5. /\ hand' \in [Threads -> [step : Steps, entry : 0 .. made]]
      /\ hand'[t].step = "none" /\ hand'[t].entry = 0
      /\ \A u \in Threads : u # t => hand'[u] = hand[u]
      /\ Holders' = Holders \ {t}
  <2>1. /\ "none" \in Steps /\ 0 \in Nat
        /\ 0 <= made' /\ made' \in Nat /\ made <= made' /\ made' = made
    BY <1>1, <1>4 DEF Steps
  <2> QED
    BY <1>1, <2>1, HandChanges DEF LInv
<1>6. Queued' = Queued /\ Queued \in Seq(Nat) /\ Len(Queued) \in Nat
  BY <1>1, QueuedFacts DEF LInv, Queued
<1>7. /\ e \notin ToSet(Queued) /\ e \notin ToSet(pool)
      /\ \A u \in Holders : hand[u].entry = e => u = t
  BY <1>2, <1>4 DEF LInv, EntriesPlaced
<1>8. /\ pool' \in Seq(1 .. made) /\ Len(pool) \in Nat /\ Len(pool') = Len(pool) + 1
      /\ ToSet(pool') = ToSet(pool) \cup {e} /\ Distinct(pool')
  <2>1. pool \in Seq(1 .. made) /\ Distinct(pool)
    BY DEF LInv, LogShape, EntriesPlaced
  <2> QED
    BY <1>3, <1>4, <1>7, <2>1, AppendFacts
<1>9. /\ IsFiniteSet(Holders') /\ Cardinality(Holders') = Cardinality(Holders) - 1
      /\ Cardinality(Holders) \in Nat /\ Cardinality(Holders) # 0
  <2>1. IsFiniteSet(Holders') /\ Cardinality(Holders') = Cardinality(Holders) - 1
        /\ Cardinality(Holders) \in Nat
    BY <1>4, <1>5, OneLessHolds
  <2>2. Cardinality(Holders) # 0
    BY <1>4, FS_EmptySet DEF LInv, EntriesCounted
  <2> QED
    BY <2>1, <2>2
<1>10. Len(pool) + Len(Queued) + Cardinality(Holders) = made
  BY DEF LInv, EntriesCounted
<1>11. LogShape'
  <2>1. line' \in [1 .. made -> Nat]
    BY <1>3 DEF LInv, LogShape
  <2>2. popped' = made - Len(pool')
    <3>1. popped = made - Len(pool)
      BY DEF LInv, LogShape
    <3> QED
      BY <1>1, <1>4, <1>6, <1>8, <1>9, <1>10, <3>1, SMTT(30)
  <2> QED
    BY <1>1, <1>5, <1>8, <2>1, <2>2 DEF LInv, LogShape
<1>12. HandsFit'
  BY <1>5 DEF LInv, HandsFit, Threads
<1>13. EntriesPlaced'
  <2>1. \A u, v \in Holders' : hand'[u].entry = hand'[v].entry => u = v
    BY <1>5 DEF LInv, EntriesPlaced, Holders
  <2>2. ToSet(pool') \cap ToSet(Queued) = {}
    BY <1>7, <1>8 DEF LInv, EntriesPlaced
  <2>3. ASSUME NEW u \in Holders' PROVE hand'[u].entry \notin ToSet(pool') \cup ToSet(Queued)
    <3>1. u \in Holders /\ u # t /\ hand'[u] = hand[u]
      BY <1>5 DEF Holders
    <3>2. hand[u].entry # e /\ hand[u].entry \notin ToSet(pool) \cup ToSet(Queued)
      BY <1>7, <3>1 DEF LInv, EntriesPlaced
    <3> QED
      BY <1>8, <3>1, <3>2
  <2>4. ASSUME NEW x \in 1 .. made PROVE x \in ToSet(pool') \cup ToSet(Queued) \cup Held'
    <3>1. x \in ToSet(pool) \cup ToSet(Queued) \cup Held
      BY DEF LInv, EntriesPlaced
    <3>2. x \in Held => x = e \/ x \in Held'
      BY <1>2, <1>5 DEF Held
    <3> QED
      BY <1>8, <3>1, <3>2
  <2> QED
    BY <1>1, <1>6, <1>8, <2>1, <2>2, <2>3, <2>4 DEF LInv, EntriesPlaced
<1>14. EntriesCounted'
  <2>1. Len(pool') + Len(Queued) + Cardinality(Holders') = made
    BY <1>4, <1>6, <1>8, <1>9, <1>10
  <2> QED
    BY <1>1, <1>6, <1>9, <2>1 DEF EntriesCounted
<1>15. LinesKept'
  <2>1. \A x \in 1 .. made : x # e => line'[x] = line[x]
    BY <1>3 DEF LInv, LogShape
  <2>2. \A x \in ToSet(Queued) : x \in 1 .. made /\ x # e
    BY <1>7 DEF LInv, EntriesPlaced
  <2>3. ASSUME hand[Reader].step = "write"
        PROVE  Reader # t /\ hand[Reader].entry \in 1 .. made /\ hand[Reader].entry # e
    <3>1. Reader \in Holders /\ Reader \in Threads /\ Reader # t
      BY <1>1, <2>3 DEF Threads, Holders, LInv, HandsFit
    <3>2. hand[Reader].entry \in 0 .. made /\ hand[Reader].entry # 0
      BY <3>1 DEF Holders, LInv, LogShape
    <3> QED
      BY <1>4, <1>7, <3>1, <3>2
  <2>4. /\ Reader \in Threads
        /\ \/ t # Reader /\ hand'[Reader] = hand[Reader]
           \/ hand'[Reader].step = "none" /\ hand[Reader].step = "release"
    BY <1>1, <1>5 DEF Threads
  <2> QED
    BY <1>1, <1>6, <2>1, <2>2, <2>3, <2>4, LinesStay
<1> QED
  BY <1>11, <1>12, <1>13, <1>14, <1>15 DEF LInv

-----------------------------------------------------------------------------
(* The log thread's steps.                                                 *)

\* The log thread moves, or is told to end, and touches no entry.
LEMMA EntriesStay ==
  ASSUME LInv, UNCHANGED <<pool, made, popped, line, data, rindex, windex, logged>>,
         hand' \in [Threads -> [step : Steps, entry : 0 .. made]], HandsFit',
         \A t \in Threads : hand'[t].entry = hand[t].entry,
         queued' = queued, written' \in Seq(Nat), ended' \in BOOLEAN
  PROVE  LogShape' /\ EntriesPlaced' /\ EntriesCounted' /\ Queued' = Queued
<1>1. Queued' = Queued /\ Holders' = Holders /\ Held' = Held
  BY DEF Queued, Holders, Held
<1>2. LogShape'
  BY ShapeStays DEF LInv, LogShape, Ring
<1>3. EntriesPlaced'
  <2>1. \A t, u \in Holders : hand'[t].entry = hand'[u].entry => t = u
    BY DEF LInv, EntriesPlaced, Holders
  <2>2. \A t \in Holders : hand'[t].entry \notin ToSet(pool) \cup ToSet(Queued)
    BY DEF LInv, EntriesPlaced, Holders
  <2> QED
    BY <1>1, <2>1, <2>2 DEF LInv, EntriesPlaced
<1>4. EntriesCounted'
  BY <1>1 DEF LInv, EntriesCounted
<1> QED
  BY <1>1, <1>2, <1>3, <1>4

\* A round begins; the thread is told to end.
LEMMA TurnsKeep ==
  ASSUME ReaderIsNoWriter, LInv, BeginRound \/ Terminate
  PROVE  LInv'
<1>1. Reader \in Threads
  BY DEF Threads
<1>2. CASE BeginRound
  <2>1. /\ hand[Reader].step = "none" /\ ~ended /\ Step(Reader, "get", 0)
        /\ UNCHANGED <<pool, made, popped, line, data,
                       rindex, windex, ended, logged, queued, written>>
    BY <1>2 DEF BeginRound
  <2>2. /\ hand' \in [Threads -> [step : Steps, entry : 0 .. made]]
        /\ hand'[Reader].step = "get" /\ hand'[Reader].entry = 0
        /\ \A u \in Threads : u # Reader => hand'[u] = hand[u]
    <3>1. /\ "get" \in Steps /\ 0 \in Nat
          /\ made' \in Nat /\ 0 <= made' /\ made <= made' /\ made' = made
      BY <2>1 DEF Steps, LInv, LogShape
    <3> QED
      BY <1>1, <2>1, <3>1, HandChanges DEF LInv
  <2>3. HandsFit'
    BY <1>1, <2>2 DEF LInv, HandsFit
  <2>4. \A t \in Threads : hand'[t].entry = hand[t].entry
    BY <1>1, <2>1, <2>2 DEF LInv, HandsFit
  <2>5. written' \in Seq(Nat) /\ ended' \in BOOLEAN
    BY <2>1 DEF LInv, LogShape
  <2>6. LogShape' /\ EntriesPlaced' /\ EntriesCounted' /\ Queued' = Queued
    BY <2>1, <2>2, <2>3, <2>4, <2>5, EntriesStay
  <2>7. LinesKept'
    BY <2>1, <2>2, <2>6, LinesStay
  <2> QED
    BY <2>3, <2>6, <2>7 DEF LInv
<1>3. CASE Terminate
  <2>1. /\ ended'
        /\ UNCHANGED <<pool, made, popped, line, data,
                       rindex, windex, hand, logged, queued, written>>
    BY <1>3 DEF Terminate
  <2>2. /\ HandsFit' /\ written' \in Seq(Nat)
        /\ hand' \in [Threads -> [step : Steps, entry : 0 .. made]]
    BY <2>1 DEF LInv, HandsFit, LogShape
  <2>3. ended' \in BOOLEAN
    BY <1>3 DEF Terminate
  <2>4. LogShape' /\ EntriesPlaced' /\ EntriesCounted' /\ Queued' = Queued
    BY <2>1, <2>2, <2>3, EntriesStay
  <2>5. LinesKept'
    BY <2>1, <2>4, LinesStay
  <2> QED
    BY <2>2, <2>4, <2>5 DEF LInv
<1> QED
  BY <1>2, <1>3

\* The line in the log thread's hands is written.
LEMMA WriteLogKeeps ==
  ASSUME ReaderIsNoWriter, LInv, WriteLog
  PROVE  LInv'
<1>1. PICK e : e = hand[Reader].entry
  OBVIOUS
<1>2. /\ hand[Reader].step = "write" /\ Step(Reader, "release", e)
      /\ written' = Append(written, line[e])
      /\ UNCHANGED <<pool, made, popped, line, data, rindex, windex, ended, logged, queued>>
  BY <1>1 DEF WriteLog
<1>3. Reader \in Threads /\ e \in 1 .. made /\ made \in Nat /\ e \in Nat /\ e # 0
  <2>1. Reader \in Threads
    BY DEF Threads
  <2>2. hand[Reader] \in [step : Steps, entry : 0 .. made] /\ hand[Reader].entry # 0 /\ made \in Nat
    BY <1>2, <2>1 DEF LInv, LogShape, HandsFit
  <2> QED
    BY <1>1, <2>1, <2>2
<1>4. /\ hand' \in [Threads -> [step : Steps, entry : 0 .. made]]
      /\ hand'[Reader].step = "release" /\ hand'[Reader].entry = e
      /\ \A u \in Threads : u # Reader => hand'[u] = hand[u]
  <2>1. "release" \in Steps /\ made' \in Nat /\ e <= made' /\ made <= made' /\ made' = made
    BY <1>2, <1>3 DEF Steps
  <2> QED
    BY <1>2, <1>3, <2>1, HandChanges DEF LInv
<1>5. HandsFit'
  BY <1>3, <1>4 DEF LInv, HandsFit
<1>6. \A t \in Threads : hand'[t].entry = hand[t].entry
  BY <1>1, <1>4
<1>7. PICK l : l = line[e] /\ l \in Nat
  BY <1>3 DEF LInv, LogShape
<1>8. PICK k : k = Len(written) /\ k \in Nat
  <2>1. written \in Seq(Nat)
    BY DEF LInv, LogShape
  <2> QED
    BY <2>1
<1>9. /\ written' \in Seq(Nat) /\ Len(written') = k + 1 /\ written'[k + 1] = l
      /\ \A i \in 1 .. k : written'[i] = written[i]
  <2>1. written \in Seq(Nat) /\ written' = Append(written, l)
    BY <1>2, <1>7 DEF LInv, LogShape
  <2> QED
    BY <1>7, <1>8, <2>1, AppendFacts
<1>10. ended' \in BOOLEAN
  BY <1>2 DEF LInv, LogShape
<1>11. LogShape' /\ EntriesPlaced' /\ EntriesCounted' /\ Queued' = Queued
  BY <1>2, <1>4, <1>5, <1>6, <1>9, <1>10, EntriesStay
<1>12. LinesKept'
  <2>1. PICK q : q = Queued /\ Len(q) \in Nat
    BY QueuedFacts DEF LInv
  <2>2. LinesToCome
    BY <1>2 DEF LInv, LinesKept
  <2>3. InHand = 1 /\ InHand' = 0
    BY <1>2, <1>4 DEF InHand
  <2>4. /\ Len(queued) = k + 1 + Len(q) /\ queued[k + 1] = l
        /\ \A i \in 1 .. Len(q) : queued[k + 1 + i] = line[q[i]]
    BY <1>1, <1>2, <1>7, <1>8, <2>1, <2>2, <2>3 DEF LinesToCome
  <2>5. Len(queued') = k + 1 + 0 + Len(q) /\ Len(written') <= Len(queued')
    BY <1>2, <1>8, <1>9, <2>1, <2>4
  <2>6. \A i \in 1 .. Len(q) : queued'[Len(written') + InHand' + i] = line'[q[i]]
    <3>1. \A i \in 1 .. Len(q) : Len(written') + InHand' + i = k + 1 + i
      BY <1>8, <1>9, <2>3
    <3> QED
      BY <1>2, <2>4, <3>1
  <2>7. LinesToCome'
    <3>1. Len(queued') = Len(written') + InHand' + Len(q)
      BY <1>8, <1>9, <2>1, <2>3, <2>5
    <3>2. Queued' = q /\ hand'[Reader].step # "write"
      BY <1>4, <1>11, <2>1
    <3> QED
      BY <2>6, <3>1, <3>2 DEF LinesToCome
  <2>8. LinesWritten'
    <3>1. \A i \in 1 .. k + 1 : i \in 1 .. k \/ i = k + 1
      BY <1>8
    <3> QED
      BY <1>2, <1>8, <1>9, <2>4, <3>1 DEF LInv, LinesKept, LinesWritten
  <2> QED
    BY <2>5, <2>7, <2>8 DEF LinesKept
<1> QED
  BY <1>5, <1>11, <1>12 DEF LInv

\* An entry leaves the queue for the log thread's hands, to be written or, at the end, released.
LEMMA TakeKeeps ==
  ASSUME ReaderIsNoWriter, LInv, NEW step \in {"write", "release"}, Take(step),
         hand[Reader].step \in {"none", "get"},
         step = "write" => LinesToCome, step = "release" => ended,
         UNCHANGED <<pool, made, popped, line, data, windex, ended, logged, queued, written>>
  PROVE  LInv'
<1>1. /\ Reader \in Threads /\ made \in Nat /\ hand[Reader].entry = 0 /\ Reader \notin Holders
      /\ LinesWritten' /\ Len(written') <= Len(queued')
  BY DEF Threads, LInv, LogShape, HandsFit, Holders, LinesKept, LinesWritten
<1>2. CASE rindex = windex /\ Step(Reader, "none", 0) /\ rindex' = rindex
  <2>1. /\ hand' \in [Threads -> [step : Steps, entry : 0 .. made]]
        /\ hand'[Reader].step = "none" /\ hand'[Reader].entry = 0
        /\ \A u \in Threads : u # Reader => hand'[u] = hand[u]
    <3>1. /\ "none" \in Steps /\ 0 \in Nat
          /\ made' \in Nat /\ 0 <= made' /\ made <= made' /\ made' = made
      BY <1>1 DEF Steps
    <3> QED
      BY <1>1, <1>2, <3>1, HandChanges DEF LInv
  <2>2. HandsFit'
    BY <1>1, <2>1 DEF LInv, HandsFit
  <2>3. \A t \in Threads : hand'[t].entry = hand[t].entry
    BY <1>1, <2>1
  <2>4. written' \in Seq(Nat) /\ ended' \in BOOLEAN
    BY DEF LInv, LogShape
  <2>5. LogShape' /\ EntriesPlaced' /\ EntriesCounted' /\ Queued' = Queued
    BY <1>2, <2>1, <2>2, <2>3, <2>4, EntriesStay
  <2>6. LinesKept'
    BY <2>1, <2>5, LinesStay
  <2> QED
    BY <2>2, <2>5, <2>6 DEF LInv
<1>3. CASE rindex # windex /\ Step(Reader, step, data[rindex]) /\ rindex' = Following(rindex)
  <2>1. PICK q, p, e : q = Queued /\ p = Queued' /\ e = data[rindex]
    OBVIOUS
  <2>2. /\ rindex' \in 0 .. Capacity - 1 /\ windex' \in 0 .. Capacity - 1 /\ data' \in Ring
        /\ q # <<>> /\ e = Head(q) /\ p = Tail(q)
    <3>1. /\ data \in Ring /\ rindex \in 0 .. Capacity - 1 /\ windex \in 0 .. Capacity - 1
      BY DEF LInv, LogShape, Ring
    <3>2. /\ rindex' \in 0 .. Capacity - 1
          /\ QueueOf(data, rindex, windex) # <<>> /\ e = Head(QueueOf(data, rindex, windex))
          /\ QueueOf(data, rindex', windex) = Tail(QueueOf(data, rindex, windex))
      BY <1>3, <2>1, <3>1, QueueGets
    <3>3. q = QueueOf(data, rindex, windex)
      BY <2>1 DEF Queued, QueueOf
    <3>4. p = QueueOf(data, rindex', windex)
      BY <2>1 DEF Queued, QueueOf
    <3> QED
      BY <3>1, <3>2, <3>3, <3>4
  <2>3. q \in Seq(Nat) /\ Distinct(q) /\ ToSet(q) \subseteq 1 .. made
    BY <2>1, QueuedFacts DEF LInv, EntriesPlaced
  <2>4. /\ Len(q) \in Nat \ {0} /\ e = q[1] /\ e \in ToSet(q) /\ Len(p) = Len(q) - 1
        /\ p \in Seq(Nat) /\ \A i \in 1 .. Len(q) - 1 : p[i] = q[i + 1]
        /\ Distinct(p) /\ ToSet(p) = ToSet(q) \ {e}
    BY <2>2, <2>3, TailFacts
  <2>5. e \in 1 .. made /\ e # 0 /\ e \in Nat /\ step \in Steps
    BY <1>1, <2>3, <2>4 DEF Steps
  <2>6. /\ hand' \in [Threads -> [step : Steps, entry : 0 .. made]]
        /\ hand'[Reader].step = step /\ hand'[Reader].entry = e
        /\ \A u \in Threads : u # Reader => hand'[u] = hand[u]
        /\ Holders' = Holders \cup {Reader}
    <3>1. made' \in Nat /\ e <= made' /\ made <= made' /\ made' = made
      BY <1>1, <2>5
    <3> QED
      BY <1>1, <1>3, <2>1, <2>5, <3>1, HandChanges DEF LInv
  <2>7. e \notin ToSet(pool) /\ \A t \in Holders : hand[t].entry # e
    BY <2>1, <2>4 DEF LInv, EntriesPlaced
  <2>8. LogShape'
    <3>1. line' \in [1 .. made -> Nat] /\ queued' \in Seq(Nat) /\ written' \in Seq(Nat)
      BY DEF LInv, LogShape
    <3>2. ended' \in BOOLEAN
      BY DEF LInv, LogShape
    <3> QED
      BY <2>2, <2>6, <3>1, <3>2, ShapeStays
  <2>9. HandsFit'
    BY <1>1, <2>5, <2>6 DEF LInv, HandsFit
  <2>10. EntriesPlaced'
    <3>1. \A t, u \in Holders' : hand'[t].entry = hand'[u].entry => t = u
      BY <1>1, <2>6, <2>7 DEF LInv, EntriesPlaced, Holders
    <3>2. ToSet(pool) \cap ToSet(p) = {} /\ ToSet(p) \subseteq 1 .. made
      BY <2>1, <2>3, <2>4 DEF LInv, EntriesPlaced
    <3>3. ASSUME NEW t \in Holders' PROVE hand'[t].entry \notin ToSet(pool) \cup ToSet(p)
      <4>1. CASE t = Reader
        BY <2>4, <2>6, <2>7, <4>1
      <4>2. CASE t # Reader
        <5>1. t \in Holders /\ t \in Threads /\ hand'[t] = hand[t]
          BY <2>6, <4>2 DEF Holders
        <5>2. hand[t].entry \notin ToSet(pool) \cup ToSet(q)
          BY <2>1, <5>1 DEF LInv, EntriesPlaced
        <5> QED
          BY <2>4, <5>1, <5>2
      <4> QED
        BY <4>1, <4>2
    <3>4. ASSUME NEW x \in 1 .. made PROVE x \in ToSet(pool) \cup ToSet(p) \cup Held'
      <4>1. x \in ToSet(pool) \cup ToSet(q) \cup Held
        BY <2>1 DEF LInv, EntriesPlaced
      <4>2. x \in Held => x \in Held'
        BY <1>1, <2>6 DEF Held
      <4>3. e \in Held'
        BY <1>1, <2>5, <2>6 DEF Held
      <4> QED
        BY <2>4, <4>1, <4>2, <4>3
    <3> QED
      BY <2>1, <2>4, <3>1, <3>2, <3>3, <3>4 DEF LInv, EntriesPlaced
  <2>11. EntriesCounted'
    <3>1. IsFiniteSet(Holders') /\ Cardinality(Holders') = Cardinality(Holders) + 1
          /\ Cardinality(Holders) \in Nat
      BY <1>1, <2>6, OneMoreHolds
    <3>2. Len(pool) \in Nat /\ Len(pool) + Len(q) + Cardinality(Holders) = made
      BY <2>1 DEF LInv, EntriesCounted, LogShape
    <3>3. Len(pool) + Len(p) + Cardinality(Holders') = made
      BY <1>1, <2>4, <3>1, <3>2
    <3> QED
      BY <2>1, <3>1, <3>3 DEF EntriesCounted
  <2>12. LinesKept'
    <3>1. CASE step = "release"
      BY <1>1, <2>6, <3>1 DEF LinesKept
    <3>2. CASE step = "write"
      <4>1. PICK k : k = Len(written) /\ k \in Nat
        <5>1. written \in Seq(Nat)
          BY DEF LInv, LogShape
        <5> QED
          BY <5>1
      <4>2. InHand = 0 /\ InHand' = 1
        BY <2>6, <3>2 DEF InHand
      <4>3. /\ Len(queued) = k + 0 + Len(q)
            /\ \A i \in 1 .. Len(q) : queued[k + 0 + i] = line[q[i]]
        BY <2>1, <3>2, <4>1, <4>2 DEF LinesToCome
      <4>4. queued[k + 1] = line[e]
        <5>1. 1 \in 1 .. Len(q) /\ k + 0 + 1 = k + 1
          BY <2>4, <4>1
        <5> QED
          BY <2>4, <4>3, <5>1
      <4>5. Len(queued) = k + 1 + Len(p)
        BY <2>4, <4>1, <4>3
      <4>6. ASSUME NEW i \in 1 .. Len(p) PROVE queued[k + 1 + i] = line[p[i]]
        <5>1. PICK n : n = Len(p) /\ n \in Nat /\ Len(q) = n + 1
          BY <2>4
        <5>2. i \in 1 .. n /\ n = Len(q) - 1
          BY <5>1
        <5>3. i + 1 \in 1 .. Len(q) /\ k + 0 + (i + 1) = k + 1 + i /\ i \in 1 .. Len(q) - 1
          BY <4>1, <5>1, <5>2
        <5> QED
          BY <2>4, <4>3, <5>3
      <4>7. LinesToCome'
        BY <2>1, <2>6, <3>2, <4>1, <4>2, <4>4, <4>5, <4>6 DEF LinesToCome
      <4> QED
        BY <1>1, <4>7 DEF LinesKept
    <3> QED
      BY <3>1, <3>2
  <2> QED
    BY <2>8, <2>9, <2>10, <2>11, <2>12 DEF LInv
<1> QED
  BY <1>2, <1>3 DEF Take

\* The log thread gets the next entry; at its end it clears the queue.
LEMMA GetsKeep ==
  ASSUME ReaderIsNoWriter, LInv, Get \/ Clear
  PROVE  LInv'
<1>1. CASE Get
  <2>1. /\ hand[Reader].step = "get" /\ Take("write")
        /\ UNCHANGED <<pool, made, popped, line, data, windex, ended, logged, queued, written>>
    BY <1>1 DEF Get
  <2>2. LinesToCome
    BY <2>1 DEF LInv, LinesKept
  <2> QED
    BY <2>1, <2>2, TakeKeeps
<1>2. CASE Clear
  <2>1. /\ hand[Reader].step = "none" /\ ended /\ Take("release")
        /\ UNCHANGED <<pool, made, popped, line, data, windex, ended, logged, queued, written>>
    BY <1>2 DEF Clear
  <2> QED
    BY <2>1, TakeKeeps
<1> QED
  BY <1>1, <1>2

-----------------------------------------------------------------------------
(* The theorems.                                                           *)

\* At the start the pool has all entries, and the queue none.
LEMMA LogInitHolds == LogInit => LInv
<1> SUFFICES ASSUME LogInit PROVE LInv
  OBVIOUS
<1>1. /\ PoolCapacity \in Nat /\ Capacity \in Nat \ {0, 1}
      /\ made = PoolCapacity /\ popped = 0 /\ rindex = 0 /\ windex = 0 /\ ~ended /\ logged = 0
      /\ queued = <<>> /\ written = <<>>
      /\ pool = [i \in 1 .. PoolCapacity |-> i] /\ line = [i \in 1 .. PoolCapacity |-> 0]
      /\ data = [i \in 0 .. Capacity - 1 |-> 0] /\ hand = [t \in Threads |-> EmptyHand]
  BY PoolHasEntries, QueueHasRoom DEF LogInit
<1>2. \A t \in Threads : hand[t].step = "none" /\ hand[t].entry = 0
  BY <1>1 DEF EmptyHand
<1>3. /\ pool \in Seq(1 .. made) /\ Len(pool) = made /\ DOMAIN pool = 1 .. made
      /\ \A i \in 1 .. made : pool[i] = i
  BY <1>1
<1>4. LogShape
  <2>1. EmptyHand \in [step : Steps, entry : 0 .. made]
    BY <1>1 DEF EmptyHand, Steps
  <2>2. hand \in [Threads -> [step : Steps, entry : 0 .. made]]
    BY <1>1, <2>1
  <2>3. line \in [1 .. made -> Nat] /\ data \in [0 .. Capacity - 1 -> Nat]
    BY <1>1
  <2>4. rindex \in 0 .. Capacity - 1 /\ windex \in 0 .. Capacity - 1 /\ popped = made - Len(pool)
    BY <1>1, <1>3
  <2>5. ended \in BOOLEAN
    BY DEF LogInit
  <2> QED
    BY <1>1, <1>3, <2>2, <2>3, <2>4, <2>5 DEF LogShape
<1>5. HandsFit
  BY <1>2 DEF HandsFit, Threads
<1>6. Holders = {} /\ Held = {}
  BY <1>2 DEF Holders, Held
<1>7. Len(Queued) = 0 /\ ToSet(Queued) = {} /\ Distinct(Queued)
  <2>1. Queued \in Seq(Nat) /\ Len(Queued) = Between(0, 0)
    BY <1>1, <1>4, QueuedFacts, QueueOfFacts DEF LogShape
  <2>2. Len(Queued) = 0 /\ DOMAIN Queued = {}
    BY <1>1, <2>1 DEF Between
  <2> QED
    BY <2>2 DEF ToSet, Distinct
<1>8. EntriesPlaced
  <2>1. Distinct(pool) /\ ToSet(pool) = 1 .. made
    BY <1>3 DEF Distinct, ToSet
  <2> QED
    BY <1>6, <1>7, <2>1 DEF EntriesPlaced
<1>9. EntriesCounted
  BY <1>1, <1>3, <1>6, <1>7, FS_EmptySet DEF EntriesCounted
<1>10. LinesKept
  <2>1. Len(written) = 0 /\ Len(queued) = 0
    BY <1>1
  <2>2. InHand = 0 /\ hand[Reader].step = "none"
    BY <1>2 DEF InHand, Threads
  <2> QED
    BY <1>7, <2>1, <2>2 DEF LinesKept, LinesWritten, LinesToCome
<1> QED
  BY <1>4, <1>5, <1>8, <1>9, <1>10 DEF LInv

\* Every step of a thread keeps the invariant.
LEMMA LogNextHolds ==
  ASSUME ReaderIsNoWriter, LInv, [LogNext]_logVars
  PROVE  LInv'
<1>1. CASE UNCHANGED logVars
  <2>1. /\ UNCHANGED <<pool, made, popped, line, data,
                       rindex, windex, hand, logged, queued, written>>
        /\ ended' = ended
    BY <1>1 DEF logVars
  <2>2. /\ HandsFit' /\ written' \in Seq(Nat)
        /\ hand' \in [Threads -> [step : Steps, entry : 0 .. made]]
    BY <2>1 DEF LInv, HandsFit, LogShape
  <2>3. ended' \in BOOLEAN
    BY <2>1 DEF LInv, LogShape
  <2>4. LogShape' /\ EntriesPlaced' /\ EntriesCounted' /\ Queued' = Queued
    BY <2>1, <2>2, <2>3, EntriesStay
  <2>5. LinesKept'
    BY <2>1, <2>4, LinesStay
  <2> QED
    BY <2>2, <2>4, <2>5 DEF LInv
<1>2. ASSUME NEW w \in Writers, TakeEntry(w) \/ Put(w) PROVE LInv'
  BY <1>2, TakeEntryKeeps, PutKeeps
<1>3. ASSUME NEW t \in Threads, Release(t) PROVE LInv'
  BY <1>3, ReleaseKeeps
<1> QED
  BY <1>1, <1>2, <1>3, TurnsKeep, GetsKeep, WriteLogKeeps DEF LogNext

\* What the counts and the lines of the invariant say is what the run checks.
LEMMA InvGivesOrder == LInv => LinesInOrder
<1> SUFFICES ASSUME LInv PROVE LinesInOrder
  OBVIOUS
<1>1. PICK q : q = Queued /\ q \in Seq(Nat) /\ Len(q) \in Nat
  BY QueuedFacts DEF LInv
<1>2. /\ written \in Seq(Nat) /\ queued \in Seq(Nat)
      /\ Len(written) \in Nat /\ Len(queued) \in Nat
  <2>1. written \in Seq(Nat) /\ queued \in Seq(Nat)
    BY DEF LInv, LogShape
  <2> QED
    BY <2>1
<1>3. EntryInOnePlace
  <2>1. ToSet(pool) \subseteq 1 .. made
    BY DEF LInv, LogShape, ToSet
  <2>2. Held \subseteq 1 .. made
    BY DEF LInv, LogShape, Held
  <2>3. ToSet(pool) \cup ToSet(Queued) \cup Held = 1 .. made
    BY <2>1, <2>2 DEF LInv, EntriesPlaced
  <2>4. Len(pool) + Len(Queued) + Cardinality({t \in Threads : hand[t].entry # 0}) = made
    BY DEF LInv, EntriesCounted, Holders
  <2> QED
    BY <2>3, <2>4 DEF LInv, LogShape, EntryInOnePlace
<1>4. PICK inHand : inHand = IF hand[Reader].step = "write" THEN <<hand[Reader].entry>> ELSE <<>>
  OBVIOUS
<1>5. PICK all : all = inHand \o q
  OBVIOUS
<1>6. PICK toCome : toCome = [i \in 1 .. Len(all) |-> line[all[i]]]
  OBVIOUS
<1>7. CASE ended
  <2>1. SubSeq(written, 1, Len(written)) = SubSeq(queued, 1, Len(written))
    BY <1>2 DEF LInv, LinesKept, LinesWritten
  <2>2. IsPrefix(written, queued)
    BY <2>1 DEF IsPrefix, LInv, LinesKept
  <2> QED
    BY <1>3, <1>7, <2>2 DEF LinesInOrder
<1>8. CASE ~ended
  <2>1. LinesToCome
    BY <1>8 DEF LInv, LinesKept
  <2>2. Reader \in Threads
    BY DEF Threads
  <2>3. /\ all \in Seq(Nat) /\ Len(all) = InHand + Len(q) /\ InHand \in {0, 1}
        /\ \A i \in 1 .. Len(q) : all[InHand + i] = q[i]
        /\ hand[Reader].step = "write" => all[1] = hand[Reader].entry /\ InHand = 1
        /\ hand[Reader].step # "write" => InHand = 0
    <3>1. CASE hand[Reader].step = "write"
      <4>1. PICK e : e = hand[Reader].entry
        OBVIOUS
      <4>2. inHand = <<e>> /\ InHand = 1 /\ e \in Nat
        <5>1. hand[Reader] \in [step : Steps, entry : 0 .. made] /\ made \in Nat
          BY <2>2 DEF LInv, LogShape
        <5> QED
          BY <1>4, <3>1, <4>1, <5>1 DEF InHand
      <4>3. /\ all \in Seq(Nat) /\ Len(all) = 1 + Len(q) /\ all[1] = e
            /\ \A i \in 1 .. Len(q) : all[1 + i] = q[i]
        BY <1>1, <1>5, <4>2
      <4> QED
        BY <3>1, <4>1, <4>2, <4>3
    <3>2. CASE hand[Reader].step # "write"
      <4>1. inHand = <<>> /\ InHand = 0
        BY <1>4, <3>2 DEF InHand
      <4>2. all \in Seq(Nat) /\ Len(all) = Len(q) /\ \A i \in 1 .. Len(q) : all[i] = q[i]
        BY <1>1, <1>5, <4>1
      <4> QED
        BY <1>1, <3>2, <4>1, <4>2
    <3> QED
      BY <3>1, <3>2
  <2>4. \A i \in 1 .. Len(all) : line[all[i]] = queued[Len(written) + i]
    <3> SUFFICES ASSUME NEW i \in 1 .. Len(all)
                 PROVE  line[all[i]] = queued[Len(written) + i]
      OBVIOUS
    <3>1. CASE i > InHand
      <4>1. PICK j \in 1 .. Len(q) : i = InHand + j
        <5>1. i - InHand \in 1 .. Len(q) /\ i = InHand + (i - InHand)
          BY <1>1, <2>3, <3>1
        <5> QED
          BY <5>1
      <4>2. queued[Len(written) + InHand + j] = line[q[j]]
        BY <1>1, <2>1 DEF LinesToCome
      <4>3. Len(written) + InHand + j = Len(written) + i
        BY <1>2, <2>3, <4>1
      <4> QED
        BY <2>3, <4>1, <4>2, <4>3
    <3>2. CASE ~(i > InHand)
      <4>1. hand[Reader].step = "write" /\ i = 1
        BY <1>1, <2>3, <3>2
      <4> QED
        BY <2>1, <2>3, <4>1 DEF LinesToCome
    <3> QED
      BY <3>1, <3>2
  <2>5. \A i \in 1 .. Len(all) : queued[Len(written) + i] \in Nat
    <3>1. Len(queued) = Len(written) + Len(all)
      BY <1>1, <1>2, <2>1, <2>3 DEF LinesToCome
    <3> QED
      BY <1>2, <2>3, <3>1, SMTT(30)
  <2>6. /\ toCome \in Seq(Nat) /\ Len(toCome) = Len(all)
        /\ \A i \in 1 .. Len(all) : toCome[i] = queued[Len(written) + i]
    BY <1>1, <1>6, <2>3, <2>4, <2>5, SMTT(30)
  <2>7. written \o toCome = queued
    <3>1. PICK log : log = written \o toCome
      OBVIOUS
    <3>2. /\ log \in Seq(Nat) /\ Len(log) = Len(written) + Len(all)
          /\ \A i \in 1 .. Len(written) : log[i] = written[i]
          /\ \A i \in 1 .. Len(all) : log[Len(written) + i] = toCome[i]
      <4>1. PICK n : n = Len(all) /\ n \in Nat
        BY <1>1, <2>3
      <4>2. written \in Seq(Nat) /\ toCome \in Seq(Nat) /\ Len(toCome) = n /\ Len(written) \in Nat
        BY <1>2, <2>6, <4>1
      <4>3. /\ log \in Seq(Nat) /\ Len(log) = Len(written) + n
            /\ \A i \in 1 .. Len(written) + n :
                 log[i] = IF i <= Len(written) THEN written[i] ELSE toCome[i - Len(written)]
        <5>1. /\ written \o toCome \in Seq(Nat)
              /\ Len(written \o toCome) = Len(written) + Len(toCome)
              /\ \A i \in 1 .. Len(written) + Len(toCome) : (written \o toCome)[i] =
                   IF i <= Len(written) THEN written[i] ELSE toCome[i - Len(written)]
          BY <4>2, ConcatProperties, Zenon
        <5> QED
          BY <3>1, <4>2, <5>1
      <4>4. \A i \in 1 .. Len(written) : i \in 1 .. Len(written) + n /\ i <= Len(written)
        BY <4>1, <4>2
      <4>5. ASSUME NEW i \in 1 .. n PROVE log[Len(written) + i] = toCome[i]
        <5>1. /\ Len(written) + i \in 1 .. Len(written) + n /\ ~(Len(written) + i <= Len(written))
              /\ Len(written) + i - Len(written) = i
          BY <4>1, <4>2
        <5> QED
          BY <4>3, <5>1
      <4> QED
        BY <4>1, <4>3, <4>4, <4>5
    <3>3. Len(queued) = Len(log)
      BY <1>1, <1>2, <2>1, <2>3, <3>2 DEF LinesToCome
    <3>4. ASSUME NEW i \in 1 .. Len(log) PROVE log[i] = queued[i]
      <4>1. CASE i <= Len(written)
        <5>1. i \in 1 .. Len(written)
          BY <1>2, <4>1, <3>2
        <5> QED
          BY <3>2, <5>1 DEF LInv, LinesKept, LinesWritten
      <4>2. CASE ~(i <= Len(written))
        <5>1. i - Len(written) \in 1 .. Len(all) /\ i = Len(written) + (i - Len(written))
          BY <1>2, <2>3, <3>2, <4>2
        <5> QED
          BY <2>6, <3>2, <5>1
      <4> QED
        BY <4>1, <4>2
    <3> QED
      BY <1>2, <3>1, <3>2, <3>3, <3>4, SeqEqual
  <2> QED
    BY <1>1, <1>3, <1>4, <1>5, <1>6, <1>8, <2>7 DEF LinesInOrder
<1> QED
  BY <1>7, <1>8

\* The log has the lines that were queued, each once, whole and in order, whatever the threads
\* do between two calls of the pool and the queue: every entry is in the pool, in the queue or
\* in one thread's hands (put_log, LogThread::doMsg, BaseQueue_T, ObjectMutexPool).
THEOREM LogIsWhole ==
  ASSUME ReaderIsNoWriter
  PROVE  LogSpec => []LinesInOrder
<1>1. LInv /\ [LogNext]_logVars => LInv'
  BY LogNextHolds
<1> QED
  BY <1>1, LogInitHolds, InvGivesOrder, PTL DEF LogSpec

-----------------------------------------------------------------------------
(* Object pools.                                                           *)

\* Every object is in the list, once, or with one thread.
PoolInv ==
  /\ total \in Nat /\ spare \in Seq(1 .. total) /\ taken \in [PoolUsers -> SUBSET (1 .. total)]
  /\ numbers \in [obj : Nat, pop : Nat]
  /\ Distinct(spare)
  /\ \A t \in PoolUsers : taken[t] \cap ToSet(spare) = {}
  /\ \A t, u \in PoolUsers : t # u => taken[t] \cap taken[u] = {}
  /\ \A o \in 1 .. total : o \in ToSet(spare) \/ \E t \in PoolUsers : o \in taken[t]
  /\ numbers.pop + Len(spare) = total /\ numbers.obj + InitialObjects = total

\* Objects that are made have the next numbers.
LEMMA NewObjectsFacts ==
  ASSUME NEW from \in Nat, NEW number \in Nat
  PROVE  LET s == NewObjects(from, number)
         IN  /\ s \in Seq(1 .. from + number) /\ Len(s) = number /\ Distinct(s)
             /\ \A i \in 1 .. number : s[i] = from + i
             /\ ToSet(s) = from + 1 .. from + number
<1>1. PICK s : s = NewObjects(from, number)
  OBVIOUS
<1>2. /\ s = [i \in 1 .. number |-> from + i] /\ DOMAIN s = 1 .. number
      /\ \A i \in 1 .. number : s[i] = from + i /\ from + i \in 1 .. from + number
  BY <1>1 DEF NewObjects
<1>3. s \in Seq(1 .. from + number) /\ Len(s) = number
  <2>1. s \in [1 .. number -> 1 .. from + number]
    BY <1>2
  <2> QED
    BY <2>1, SeqDef
<1>4. Distinct(s)
  BY <1>2, <1>3 DEF Distinct
<1>5. ToSet(s) = from + 1 .. from + number
  <2>1. \A x \in ToSet(s) : x \in from + 1 .. from + number
    BY <1>2 DEF ToSet
  <2>2. ASSUME NEW x \in from + 1 .. from + number PROVE x \in ToSet(s)
    <3>1. x - from \in 1 .. number /\ from + (x - from) = x
      OBVIOUS
    <3> QED
      BY <1>2, <3>1 DEF ToSet
  <2> QED
    BY <2>1, <2>2
<1> QED
  BY <1>1, <1>2, <1>3, <1>4, <1>5

\* A list without an object twice is no longer than there are objects.
LEMMA DistinctIsShort ==
  ASSUME NEW n \in Nat, NEW s \in Seq(1 .. n), Distinct(s)
  PROVE  Len(s) <= n
<1>1. Len(s) \in Nat /\ s \in [1 .. Len(s) -> 1 .. n]
  OBVIOUS
<1>2. SUFFICES ASSUME ~(Len(s) <= n) PROVE FALSE
  OBVIOUS
<1>3. /\ IsFiniteSet(1 .. Len(s)) /\ Cardinality(1 .. Len(s)) = Len(s)
      /\ IsFiniteSet(1 .. n) /\ Cardinality(1 .. n) = n
  <2>1. PICK m \in Nat : m = Len(s)
    BY <1>1
  <2>2. \A k \in Nat : IsFiniteSet(1 .. k) /\ Cardinality(1 .. k) = k
    BY FS_Interval
  <2> QED
    BY <2>1, <2>2
<1>4. Cardinality(1 .. n) < Cardinality(1 .. Len(s))
  BY <1>1, <1>2, <1>3
<1>5. \E i, j \in 1 .. Len(s) : i # j /\ s[i] = s[j]
  BY <1>1, <1>3, <1>4, FS_PigeonHole
<1> QED
  BY <1>5 DEF Distinct

\* When the list is empty, new objects are made, at least one.
LEMMA AvailableFacts ==
  ASSUME PoolInv
  PROVE  /\ Allocated \in Nat /\ Available \in Seq(1 .. total + Allocated) /\ Available # <<>>
         /\ Distinct(Available) /\ Len(Available) = Len(spare) + Allocated
         /\ ToSet(Available) = ToSet(spare) \cup (total + 1 .. total + Allocated)
<1>1. total \in Nat /\ spare \in Seq(1 .. total) /\ Distinct(spare) /\ InitialObjects \in Nat \ {0}
  BY InitialObjectsInNat DEF PoolInv
<1>2. CASE spare = <<>>
  <2>1. PICK n \in Nat : n = Allocated /\ n > 0
    BY <1>1, <1>2 DEF Allocated
  <2>2. PICK s : s = NewObjects(total, n)
    OBVIOUS
  <2>3. /\ s \in Seq(1 .. total + n) /\ Len(s) = n /\ Distinct(s)
        /\ ToSet(s) = total + 1 .. total + n
    BY <1>1, <2>2, NewObjectsFacts
  <2>4. Available = s
    <3>1. <<>> \o s = s
      BY <2>3
    <3> QED
      BY <1>2, <2>1, <2>2, <3>1 DEF Available
  <2>5. ToSet(spare) = {} /\ Len(spare) = 0
    BY <1>2 DEF ToSet
  <2> QED
    BY <2>1, <2>3, <2>4, <2>5
<1>3. CASE spare # <<>>
  <2>1. Allocated = 0
    BY <1>3 DEF Allocated
  <2>2. NewObjects(total, 0) = <<>>
    BY <1>1, NewObjectsFacts
  <2>3. Available = spare
    <3>1. spare \o <<>> = spare
      BY <1>1
    <3> QED
      BY <2>1, <2>2, <3>1 DEF Available
  <2> QED
    BY <1>1, <1>3, <2>1, <2>3
<1> QED
  BY <1>2, <1>3

\* The first objects, made twice over, are all in the list.
LEMMA PoolInitHolds == PoolInit => PoolInv
<1>1. SUFFICES ASSUME PoolInit PROVE PoolInv
  OBVIOUS
<1>2. PICK n \in Nat : n = InitialObjects
  BY InitialObjectsInNat
<1>3. PICK s, t : s = NewObjects(0, n) /\ t = NewObjects(n, n)
  OBVIOUS
<1>4. /\ s \in Seq(1 .. n) /\ Len(s) = n /\ \A i \in 1 .. n : s[i] = i
      /\ t \in Seq(1 .. n + n) /\ Len(t) = n /\ \A i \in 1 .. n : t[i] = n + i
  <2>1. 0 + n = n /\ \A i \in 1 .. n : 0 + i = i
    OBVIOUS
  <2>2. s \in Seq(1 .. 0 + n) /\ Len(s) = n /\ \A i \in 1 .. n : s[i] = 0 + i
    BY <1>3, NewObjectsFacts
  <2>3. t \in Seq(1 .. n + n) /\ Len(t) = n /\ \A i \in 1 .. n : t[i] = n + i
    BY <1>3, NewObjectsFacts
  <2> QED
    BY <2>1, <2>2, <2>3
<1>5. /\ spare = s \o t /\ total = n + n /\ taken = [u \in PoolUsers |-> {}]
      /\ numbers = [obj |-> n, pop |-> 0]
  BY <1>1, <1>2, <1>3 DEF PoolInit
<1>6. /\ Len(spare) = n + n /\ spare \in Seq(1 .. n + n) /\ DOMAIN spare = 1 .. n + n
      /\ \A i \in 1 .. n + n : spare[i] = i
  <2>1. s \in Seq(1 .. n + n)
    BY <1>4, SeqDef
  <2>2. /\ s \o t \in Seq(1 .. n + n) /\ Len(s \o t) = n + n
        /\ \A i \in 1 .. n + n : (s \o t)[i] = IF i <= n THEN s[i] ELSE t[i - n]
    <3>1. s \o t \in Seq(1 .. n + n)
      BY <1>4, <2>1
    <3>2. Len(s \o t) = Len(s) + Len(t)
          /\ \A i \in 1 .. Len(s) + Len(t) :
                (s \o t)[i] = IF i <= Len(s) THEN s[i] ELSE t[i - Len(s)]
      BY <1>4, <2>1, ConcatProperties
    <3> QED
      BY <1>4, <3>1, <3>2
  <2>3. ASSUME NEW i \in 1 .. n + n PROVE (s \o t)[i] = i
    <3>1. CASE i <= n
      BY <1>4, <2>2, <3>1
    <3>2. CASE ~(i <= n)
      <4>1. i - n \in 1 .. n /\ n + (i - n) = i
        BY <3>2
      <4> QED
        BY <1>4, <2>2, <3>2, <4>1
    <3> QED
      BY <3>1, <3>2
  <2> QED
    BY <1>5, <2>2, <2>3
<1>7. Distinct(spare) /\ \A o \in 1 .. total : o \in ToSet(spare)
  BY <1>5, <1>6 DEF Distinct, ToSet
<1>8. taken \in [PoolUsers -> SUBSET (1 .. total)] /\ \A u \in PoolUsers : taken[u] = {}
  BY <1>5
<1>9. /\ numbers \in [obj : Nat, pop : Nat] /\ numbers.pop + Len(spare) = total
      /\ numbers.obj + InitialObjects = total
  BY <1>2, <1>5, <1>6
<1> QED
  BY <1>5, <1>6, <1>7, <1>8, <1>9 DEF PoolInv

\* An object is taken, from new ones if none is left.
LEMMA PopObjKeeps ==
  ASSUME PoolInv, NEW t \in PoolUsers, PopObj(t)
  PROVE  PoolInv'
<1>1. PICK n, s, T : n = Allocated /\ s = Available /\ T = total + n
  OBVIOUS
<1>2. /\ total \in Nat /\ n \in Nat /\ T \in Nat /\ s \in Seq(1 .. T) /\ s # <<>> /\ Distinct(s)
      /\ Len(s) = Len(spare) + n /\ Len(spare) \in Nat
      /\ ToSet(s) = ToSet(spare) \cup (total + 1 .. T)
  BY <1>1, AvailableFacts DEF PoolInv
<1>3. /\ Head(s) \in ToSet(s) /\ Head(s) \in 1 .. T /\ Tail(s) \in Seq(1 .. T)
      /\ Len(Tail(s)) = Len(s) - 1 /\ Distinct(Tail(s)) /\ ToSet(Tail(s)) = ToSet(s) \ {Head(s)}
  BY <1>2, TailFacts
<1>4. /\ spare' = Tail(s) /\ total' = T /\ taken' = [taken EXCEPT ![t] = @ \cup {Head(s)}]
      /\ numbers' = [obj |-> numbers.obj + n, pop |-> numbers.pop + 1]
  BY <1>1 DEF PopObj
<1>5. /\ \A u \in PoolUsers : taken[u] \in SUBSET (1 .. total) /\ taken[u] \cap ToSet(spare) = {}
      /\ \A u, v \in PoolUsers : u # v => taken[u] \cap taken[v] = {}
      /\ \A o \in 1 .. total : o \in ToSet(spare) \/ \E u \in PoolUsers : o \in taken[u]
      /\ numbers \in [obj : Nat, pop : Nat]
      /\ numbers.pop + Len(spare) = total /\ numbers.obj + InitialObjects = total
      /\ taken \in [PoolUsers -> SUBSET (1 .. total)] /\ InitialObjects \in Nat
  BY InitialObjectsInNat DEF PoolInv
<1>6. \A u \in PoolUsers : taken[u] \cap ToSet(s) = {} /\ taken[u] \in SUBSET (1 .. T)
  <2>1. \A o \in 1 .. total : o \notin total + 1 .. T /\ o \in 1 .. T
    BY <1>1, <1>2
  <2> QED
    BY <1>2, <1>5, <2>1
<1>7. \A u \in PoolUsers : taken'[u] = IF u = t THEN taken[t] \cup {Head(s)} ELSE taken[u]
  BY <1>4, <1>5
<1>8. taken' \in [PoolUsers -> SUBSET (1 .. T)]
  BY <1>3, <1>4, <1>5, <1>6
<1>9. \A u \in PoolUsers : taken'[u] \cap ToSet(spare') = {}
  BY <1>3, <1>4, <1>6, <1>7
<1>10. \A u, v \in PoolUsers : u # v => taken'[u] \cap taken'[v] = {}
  BY <1>3, <1>5, <1>6, <1>7
<1>11. ASSUME NEW o \in 1 .. T
       PROVE  o \in ToSet(spare') \/ \E u \in PoolUsers : o \in taken'[u]
  <2>1. CASE o \in ToSet(s)
    BY <1>3, <1>4, <1>7, <2>1
  <2>2. CASE o \notin ToSet(s)
    <3>1. o \in 1 .. total /\ o \notin ToSet(spare)
      BY <1>1, <1>2, <2>2
    <3> QED
      BY <1>5, <1>7, <3>1
  <2> QED
    BY <2>1, <2>2
<1>12. /\ numbers' \in [obj : Nat, pop : Nat] /\ numbers'.pop + Len(spare') = total'
       /\ numbers'.obj + InitialObjects = total'
  <2>1. PICK o \in Nat, p \in Nat, l \in Nat : o = numbers.obj /\ p = numbers.pop /\ l = Len(spare)
    BY <1>2, <1>5
  <2>2. numbers'.obj = o + n /\ numbers'.pop = p + 1 /\ numbers' \in [obj : Nat, pop : Nat]
    <3>1. PICK x \in Nat, y \in Nat : x = o + n /\ y = p + 1
      BY <1>2
    <3>2. numbers' = [obj |-> x, pop |-> y]
      BY <1>4, <2>1, <3>1
    <3> QED
      BY <3>1, <3>2
  <2>3. Len(spare') = l + n - 1 /\ total' = total + n
    BY <1>1, <1>2, <1>3, <1>4, <2>1
  <2>4. o + n + InitialObjects = total + n /\ p + 1 + (l + n - 1) = total + n
    <3>1. p + l = total /\ o + InitialObjects = total
      BY <1>5, <2>1, Zenon
    <3>2. total \in Nat /\ InitialObjects \in Nat
      BY <1>2, <1>5, Zenon
    <3> QED
      BY <1>2, <3>1, <3>2
  <2> QED
    BY <2>2, <2>3, <2>4
<1> QED
  BY <1>2, <1>3, <1>4, <1>8, <1>9, <1>10, <1>11, <1>12 DEF PoolInv

\* An object that is given back is not in the list yet.
LEMMA PushObjKeeps ==
  ASSUME PoolInv, NEW t \in PoolUsers, NEW object \in taken[t], PushObj(t, object)
  PROVE  PoolInv'
<1>1. /\ \A u \in PoolUsers : taken[u] \in SUBSET (1 .. total) /\ taken[u] \cap ToSet(spare) = {}
      /\ \A u, v \in PoolUsers : u # v => taken[u] \cap taken[v] = {}
      /\ \A o \in 1 .. total : o \in ToSet(spare) \/ \E u \in PoolUsers : o \in taken[u]
      /\ numbers \in [obj : Nat, pop : Nat] /\ total \in Nat
      /\ numbers.pop + Len(spare) = total /\ numbers.obj + InitialObjects = total
      /\ taken \in [PoolUsers -> SUBSET (1 .. total)]
      /\ Distinct(spare) /\ spare \in Seq(1 .. total)
  BY DEF PoolInv
<1>2. PICK s : s = Append(spare, object)
  OBVIOUS
<1>3. object \in 1 .. total /\ object \notin ToSet(spare)
  BY <1>1
<1>4. /\ s \in Seq(1 .. total) /\ Len(s) = Len(spare) + 1 /\ Len(spare) \in Nat /\ Distinct(s)
      /\ ToSet(s) = ToSet(spare) \cup {object}
  BY <1>1, <1>2, <1>3, AppendFacts
<1>5. Len(s) <= total
  BY <1>1, <1>4, DistinctIsShort
<1>6. /\ spare' = s /\ total' = total /\ taken' = [taken EXCEPT ![t] = @ \ {object}]
      /\ numbers' = [numbers EXCEPT !.pop = IF @ > 0 THEN @ - 1 ELSE 0]
  BY <1>2 DEF PushObj
<1>7. \A u \in PoolUsers : taken'[u] = IF u = t THEN taken[t] \ {object} ELSE taken[u]
  BY <1>1, <1>6
<1>8. taken' \in [PoolUsers -> SUBSET (1 .. total)]
  BY <1>1, <1>6
<1>9. \A u \in PoolUsers : taken'[u] \cap ToSet(s) = {}
  BY <1>1, <1>4, <1>7, SMTT(30)
<1>10. \A u, v \in PoolUsers : u # v => taken'[u] \cap taken'[v] = {}
  BY <1>1, <1>7
<1>11. \A o \in 1 .. total : o \in ToSet(s) \/ \E u \in PoolUsers : o \in taken'[u]
  BY <1>1, <1>4, <1>7
<1>12. /\ numbers' \in [obj : Nat, pop : Nat] /\ numbers'.pop + Len(s) = total
       /\ numbers'.obj = numbers.obj
  <2>1. numbers.pop \in Nat /\ numbers.pop > 0
    BY <1>1, <1>4, <1>5
  <2>2. PICK p \in Nat : p = numbers.pop - 1 /\ numbers' = [numbers EXCEPT !.pop = p]
    <3>1. PICK p \in Nat : p = numbers.pop - 1
      BY <2>1
    <3>2. numbers' = [numbers EXCEPT !.pop = p]
      BY <1>6, <2>1, <3>1
    <3> QED
      BY <3>1, <3>2
  <2>3. numbers'.pop = p /\ numbers'.obj = numbers.obj /\ numbers' \in [obj : Nat, pop : Nat]
    BY <1>1, <2>2
  <2> QED
    BY <1>1, <1>4, <2>1, <2>2, <2>3
<1> QED
  BY <1>1, <1>4, <1>6, <1>8, <1>9, <1>10, <1>11, <1>12 DEF PoolInv

\* An object that is handed over has one owner still.
LEMMA HandOverKeeps ==
  ASSUME PoolInv, NEW t \in PoolUsers, NEW u \in PoolUsers, t # u,
         NEW object \in taken[t], HandOver(t, u, object)
  PROVE  PoolInv'
<1>1. /\ \A v \in PoolUsers : taken[v] \in SUBSET (1 .. total) /\ taken[v] \cap ToSet(spare) = {}
      /\ \A v, w \in PoolUsers : v # w => taken[v] \cap taken[w] = {}
      /\ \A o \in 1 .. total : o \in ToSet(spare) \/ \E v \in PoolUsers : o \in taken[v]
      /\ taken \in [PoolUsers -> SUBSET (1 .. total)]
  BY DEF PoolInv
<1>2. /\ taken' = [taken EXCEPT ![t] = @ \ {object}, ![u] = @ \cup {object}]
      /\ UNCHANGED <<spare, numbers, total>>
  BY DEF HandOver
<1>3. \A v \in PoolUsers : taken'[v] = IF v = t THEN taken[t] \ {object}
                                      ELSE IF v = u THEN taken[u] \cup {object} ELSE taken[v]
  BY <1>1, <1>2
<1>4. taken' \in [PoolUsers -> SUBSET (1 .. total)]
  BY <1>1, <1>2
<1>5. \A v \in PoolUsers : taken'[v] \cap ToSet(spare) = {}
  BY <1>1, <1>3
<1>6. \A v, w \in PoolUsers : v # w => taken'[v] \cap taken'[w] = {}
  BY <1>1, <1>3
<1>7. \A o \in 1 .. total : o \in ToSet(spare) \/ \E v \in PoolUsers : o \in taken'[v]
  BY <1>1, <1>3
<1> QED
  BY <1>2, <1>4, <1>5, <1>6, <1>7 DEF PoolInv

\* For any threads and capacity, and any order of taking, handing over and giving back, each
\* object that a pool made is in its list, once, or with one thread, and the counters agree.
THEOREM ObjectsAreOwned == PoolSpec => []ObjectsHaveOneOwner
<1>1. PoolInv /\ [PoolNext]_poolVars => PoolInv'
  <2>1. SUFFICES ASSUME PoolInv, [PoolNext]_poolVars PROVE PoolInv'
    OBVIOUS
  <2>2. CASE UNCHANGED poolVars
    BY <2>1, <2>2 DEF poolVars, PoolInv
  <2> QED
    BY <2>1, <2>2, PopObjKeeps, PushObjKeeps, HandOverKeeps DEF PoolNext
<1>2. PoolInv => ObjectsHaveOneOwner
  <2>1. SUFFICES ASSUME PoolInv PROVE ObjectsHaveOneOwner
    OBVIOUS
  <2>2. ASSUME NEW o \in 1 .. total
        PROVE  Cardinality({i \in DOMAIN spare : spare[i] = o})
                 + Cardinality({t \in PoolUsers : o \in taken[t]}) = 1
    <3>1. PICK I, H : /\ I = {i \in DOMAIN spare : spare[i] = o}
                      /\ H = {t \in PoolUsers : o \in taken[t]}
      OBVIOUS
    <3>2. DOMAIN spare = 1 .. Len(spare)
      BY <2>1 DEF PoolInv
    <3>3. CASE o \in ToSet(spare)
      <4>1. PICK i \in DOMAIN spare : spare[i] = o
        BY <3>3 DEF ToSet
      <4>2. I = {i}
        BY <2>1, <3>1, <3>2, <4>1 DEF PoolInv, Distinct
      <4>3. H = {}
        BY <2>1, <3>1, <3>3 DEF PoolInv
      <4>4. Cardinality(I) = 1 /\ Cardinality(H) = 0
        BY <4>2, <4>3, FS_Singleton, FS_EmptySet, ZenonT(30)
      <4> QED
        BY <3>1, <4>4
    <3>4. CASE o \notin ToSet(spare)
      <4>1. PICK t \in PoolUsers : o \in taken[t]
        BY <2>1, <3>4 DEF PoolInv
      <4>2. H = {t}
        BY <2>1, <3>1, <4>1 DEF PoolInv
      <4>3. I = {}
        BY <3>1, <3>4 DEF ToSet
      <4>4. Cardinality(H) = 1 /\ Cardinality(I) = 0
        BY <4>2, <4>3, FS_Singleton, FS_EmptySet, ZenonT(30)
      <4> QED
        BY <3>1, <4>4
    <3> QED
      BY <3>3, <3>4
  <2> QED
    BY <2>1, <2>2 DEF ObjectsHaveOneOwner, PoolInv
<1> QED
  BY <1>1, <1>2, PoolInitHolds, PTL DEF PoolSpec

-----------------------------------------------------------------------------
(* What stands for induction: a set of numbers has a smallest one.         *)

\* A set of numbers that is not empty has a smallest one.
LEMMA Smallest ==
  ASSUME NEW S \in SUBSET Nat, S # {}
  PROVE  \E i \in S : \A j \in S : i <= j
<1> DEFINE T == {0 .. n : n \in S}
<1>1. T \subseteq FiniteSubsetsOf(Nat) /\ T # {}
  <2>1. ASSUME NEW n \in S PROVE 0 .. n \in FiniteSubsetsOf(Nat)
    <3>1. IsFiniteSet(0 .. n)
      BY FS_Interval
    <3>2. 0 .. n \in SUBSET Nat
      OBVIOUS
    <3> QED
      BY <3>1, <3>2 DEF FiniteSubsetsOf
  <2> QED
    BY <2>1
<1>2. \E t \in T : \A u \in T : ~ (<<u, t>> \in StrictSubsetOrdering(Nat))
  <2> HIDE DEF T
  <2> QED
    BY <1>1, FS_StrictSubsetOrderingWellFounded, WFMin
<1>3. PICK n \in S : \A x \in S : ~ (<<0 .. x, 0 .. n>> \in StrictSubsetOrdering(Nat))
  BY <1>2
<1>4. ASSUME NEW x \in S, ~ (n <= x) PROVE FALSE
  <2>1. 0 .. x \subseteq 0 .. n /\ 0 .. x # 0 .. n
    BY <1>4
  <2>2. 0 .. x \in SUBSET Nat /\ 0 .. n \in SUBSET Nat
    OBVIOUS
  <2> QED
    BY <1>3, <2>1, <2>2 DEF StrictSubsetOrdering
<1> QED
  BY <1>4

\* Induction, for a set of numbers.
LEMMA AllUpTo ==
  ASSUME NEW m \in Nat, NEW T \in SUBSET Nat, 0 \in T, \A n \in T : n < m => n + 1 \in T
  PROVE  \A n \in 0 .. m : n \in T
<1> DEFINE Bad == {n \in 0 .. m : n \notin T}
<1>1. SUFFICES ASSUME Bad # {} PROVE FALSE
  OBVIOUS
<1>2. Bad \in SUBSET Nat
  OBVIOUS
<1>3. PICK n \in Bad : \A j \in Bad : n <= j
  BY <1>1, <1>2, Smallest
<1>4. n # 0 /\ n \in Nat /\ n <= m
  BY <1>3
<1>5. n - 1 \in 0 .. m /\ n - 1 \in T
  BY <1>3, <1>4
<1>6. n \in T
  <2>1. (n - 1) + 1 = n /\ n - 1 < m
    BY <1>4
  <2> QED
    BY <1>5, <2>1
<1> QED
  BY <1>3, <1>6

\* Steps that are taken one after another lead somewhere.
IsPath(f, a, g, n) == f = [k \in 0 .. n |-> IF k = 0 THEN a ELSE g[k][f[k - 1]]]

LEMMA StepsExist ==
  ASSUME NEW T, NEW a \in T, NEW n \in Nat, NEW g \in [1 .. n -> [T -> T]]
  PROVE  \E f \in [0 .. n -> T] : IsPath(f, a, g, n)
<1> DEFINE Leads(f, m) == f \in [0 .. m -> T] /\ f[0] = a /\ \A k \in 1 .. m : f[k] = g[k][f[k - 1]]
           M == {m \in Nat : m <= n => \E f : Leads(f, m)}
<1>1. 0 \in M
  <2>1. Leads([k \in 0 .. 0 |-> a], 0)
    OBVIOUS
  <2> QED
    BY <2>1
<1>2. ASSUME NEW m \in M, m < n PROVE m + 1 \in M
  <2>1. m \in Nat /\ (m <= n => \E f : Leads(f, m))
    OBVIOUS
  <2>2. PICK f : Leads(f, m)
    BY <1>2, <2>1
  <2>3. f \in [0 .. m -> T] /\ f[0] = a /\ \A k \in 1 .. m : f[k] = g[k][f[k - 1]]
    BY <2>2
  <2> DEFINE e == [k \in 0 .. m + 1 |-> IF k = m + 1 THEN g[k][f[m]] ELSE f[k]]
  <2>4. e[m + 1] = g[m + 1][f[m]] /\ \A k \in 0 .. m : e[k] = f[k]
    BY <2>1
  <2>5. g[m + 1] \in [T -> T] /\ f[m] \in T
    BY <1>2, <2>1, <2>3
  <2>6. e \in [0 .. m + 1 -> T]
    <3>1. ASSUME NEW k \in 0 .. m + 1 PROVE e[k] \in T
      <4>1. CASE k = m + 1
        BY <2>4, <2>5, <4>1
      <4>2. CASE k # m + 1
        <5>1. k \in 0 .. m
          BY <2>1, <4>2
        <5> QED
          BY <2>3, <2>4, <5>1
      <4> QED
        BY <4>1, <4>2
    <3> QED
      BY <3>1
  <2>7. ASSUME NEW k \in 1 .. m + 1 PROVE e[k] = g[k][e[k - 1]]
    <3>1. k - 1 \in 0 .. m /\ e[k - 1] = f[k - 1]
      BY <2>1, <2>4
    <3>2. CASE k = m + 1
      <4>1. k - 1 = m
        BY <2>1, <3>2
      <4> QED
        BY <2>4, <3>1, <3>2, <4>1
    <3>3. CASE k # m + 1
      <4>1. k \in 1 .. m /\ k \in 0 .. m
        BY <2>1, <3>3
      <4> QED
        BY <2>3, <2>4, <3>1, <4>1
    <3> QED
      BY <3>2, <3>3
  <2>8. e[0] = a
    BY <2>1, <2>3, <2>4
  <2> HIDE DEF e
  <2>9. Leads(e, m + 1)
    BY <2>6, <2>7, <2>8
  <2> HIDE DEF Leads
  <2> QED
    BY <2>1, <2>9
<1>3. M \in SUBSET Nat
  OBVIOUS
<1>4. n \in M
  <2> HIDE DEF M
  <2>1. \A k \in 0 .. n : k \in M
    BY <1>1, <1>2, <1>3, AllUpTo
  <2> QED
    BY <2>1
<1>5. PICK f : Leads(f, n)
  BY <1>4
<1>6. f \in [0 .. n -> T] /\ f[0] = a /\ \A k \in 1 .. n : f[k] = g[k][f[k - 1]]
  BY <1>5
<1>7. ASSUME NEW k \in 0 .. n PROVE f[k] = IF k = 0 THEN a ELSE g[k][f[k - 1]]
  <2>1. k # 0 => k \in 1 .. n
    OBVIOUS
  <2> QED
    BY <1>6, <2>1
<1>8. f = [k \in 0 .. n |-> f[k]]
  BY <1>6
<1>9. IsPath(f, a, g, n)
  BY <1>7, <1>8 DEF IsPath
<1> QED
  BY <1>6, <1>9

-----------------------------------------------------------------------------
(* The cache, a ring of keys.                                              *)

\* The key that has place i, if key m has place p.
KeyFrom(m, p, i) == m + i - p + (IF i < p THEN CacheCapacity ELSE 0)

\* The key whose place is i.
KeyAt(i) == KeyFrom(keys.min, places.min, i)

\* What the cache is made of.
CacheShape ==
  /\ ring \in [Places -> Nat]
  /\ places \in [min : Places, max : Places] /\ keys \in [min : Nat, max : Nat]
  /\ kept \in SUBSET (Nat \ {0})

\* The keys are fewer than the places, and every place has the unit of its key, or nothing.
CacheInv ==
  /\ CacheShape
  /\ keys.min <= keys.max /\ keys.max < keys.min + CacheCapacity
  /\ KeyAt(places.max) = keys.max
  /\ \A k \in kept : keys.min <= k /\ k <= keys.max
  /\ keys.min # 0 => \A i \in Places : ring[i] = IF KeyAt(i) \in kept THEN KeyAt(i) ELSE 0
  /\ keys.min = 0 => keys.max = 0 /\ kept = {} /\ places = [min |-> 0, max |-> 0]
  /\ erased.unit = erased.due

\* The remainder is the number in a window of w, by its quotient.
LEMMA RemainderIs ==
  ASSUME NEW w \in Nat \ {0}, NEW q \in Nat, NEW r \in 0 .. w - 1
  PROVE  (w * q + r) % w = r
<1> DEFINE x == w * q + r
<1>1. w * q \in Nat /\ x \in Nat
  OBVIOUS
<1>2. PICK p, s : p = x \div w /\ s = x % w
  OBVIOUS
<1>3. p \in Nat /\ s \in 0 .. w - 1 /\ x = w * p + s
  BY <1>1, <1>2
<1>4. w * p \in Nat
  BY <1>3
<1>5. ASSUME p >= q + 1 PROVE FALSE
  <2>1. w * p >= w * (q + 1) /\ w * (q + 1) = w * q + w
    BY <1>3, <1>5
  <2> QED
    BY <1>1, <1>3, <1>4, <2>1
<1>6. ASSUME q >= p + 1 PROVE FALSE
  <2>1. w * q >= w * (p + 1) /\ w * (p + 1) = w * p + w
    BY <1>3, <1>6
  <2> QED
    BY <1>1, <1>3, <1>4, <2>1
<1>7. p = q
  BY <1>3, <1>5, <1>6
<1> QED
  BY <1>1, <1>2, <1>3, <1>7

\* A ring of w places goes round once.
LEMMA RoundTheRing ==
  ASSUME NEW w \in Nat \ {0}, NEW a \in 0 .. w - 1, NEW d \in 0 .. w
  PROVE  (a + d) % w = IF a + d < w THEN a + d ELSE a + d - w
<1>1. w * 0 = 0 /\ w * 1 = w
  OBVIOUS
<1>2. CASE a + d < w
  <2>1. (w * 0 + (a + d)) % w = a + d
    BY <1>2, RemainderIs
  <2> QED
    BY <1>1, <1>2, <2>1
<1>3. CASE ~ (a + d < w)
  <2>1. PICK r \in 0 .. w - 1 : r = a + d - w
    BY <1>3
  <2>2. (w * 1 + r) % w = r
    BY RemainderIs
  <2>3. w * 1 + r = a + d
    BY <1>1, <2>1
  <2> QED
    BY <1>3, <2>1, <2>2, <2>3
<1> QED
  BY <1>2, <1>3

\* A place is its own remainder.
LEMMA InTheRing ==
  ASSUME NEW w \in Nat \ {0}, NEW a \in 0 .. w - 1
  PROVE  a % w = a
<1>1. (w * 0 + a) % w = a
  BY RemainderIs
<1>2. w * 0 + a = a
  OBVIOUS
<1> QED
  BY <1>1, <1>2

\* Different places have different keys, all less than a turn apart.
LEMMA KeysDiffer ==
  ASSUME NEW m \in Nat, NEW p \in Places, NEW i \in Places, NEW j \in Places
  PROVE  /\ KeyFrom(m, p, p) = m
         /\ KeyFrom(m, p, i) \in m .. m + CacheCapacity - 1
         /\ KeyFrom(m, p, i) = KeyFrom(m, p, j) => i = j
<1>1. CacheCapacity \in Nat \ {0}
  BY CacheHasPlaces
<1> QED
  BY <1>1 DEF KeyFrom, Places

\* d places further is the key by d higher.
LEMMA KeysFollow ==
  ASSUME NEW m \in Nat, NEW p \in Places, NEW i \in Places, NEW d \in 0 .. CacheCapacity,
         KeyFrom(m, p, i) + d < m + CacheCapacity
  PROVE  /\ (i + d) % CacheCapacity \in Places
         /\ KeyFrom(m, p, (i + d) % CacheCapacity) = KeyFrom(m, p, i) + d
<1>1. CacheCapacity \in Nat \ {0} /\ i \in 0 .. CacheCapacity - 1
  BY CacheHasPlaces DEF Places
<1>2. (i + d) % CacheCapacity = IF i + d < CacheCapacity THEN i + d ELSE i + d - CacheCapacity
  BY <1>1, RoundTheRing, Zenon
<1>3. PICK j : j = IF i + d < CacheCapacity THEN i + d ELSE i + d - CacheCapacity
  OBVIOUS
<1>4. j \in Places /\ KeyFrom(m, p, j) = KeyFrom(m, p, i) + d
  BY <1>1, <1>3 DEF KeyFrom, Places
<1> QED
  BY <1>2, <1>3, <1>4

\* One place further as the first one, with the next key.
LEMMA KeysMove ==
  ASSUME NEW m \in Nat, NEW p \in Places, NEW i \in Places
  PROVE  /\ (p + 1) % CacheCapacity \in Places
         /\ KeyFrom(m + 1, (p + 1) % CacheCapacity, i) =
              IF i = p THEN m + CacheCapacity ELSE KeyFrom(m, p, i)
<1>1. CacheCapacity \in Nat \ {0} /\ p \in 0 .. CacheCapacity - 1 /\ 1 \in 0 .. CacheCapacity
  BY CacheHasPlaces DEF Places
<1>2. (p + 1) % CacheCapacity = IF p + 1 < CacheCapacity THEN p + 1 ELSE p + 1 - CacheCapacity
  BY <1>1, RoundTheRing, Zenon
<1>3. PICK q : q = IF p + 1 < CacheCapacity THEN p + 1 ELSE p + 1 - CacheCapacity
  OBVIOUS
<1>4. q \in Places /\ KeyFrom(m + 1, q, i) = IF i = p THEN m + CacheCapacity ELSE KeyFrom(m, p, i)
  BY <1>1, <1>3 DEF KeyFrom, Places
<1> QED
  BY <1>2, <1>3, <1>4

\* A key is at its place.
LEMMA PlaceFacts ==
  ASSUME CacheInv, NEW k \in Nat, keys.min <= k, k < keys.min + CacheCapacity
  PROVE  PlaceOf(k) \in Places /\ KeyAt(PlaceOf(k)) = k
<1>1. keys.min \in Nat /\ places.min \in Places /\ CacheCapacity \in Nat \ {0}
  BY CacheHasPlaces DEF CacheInv, CacheShape
<1>2. PICK m, p : m = keys.min /\ p = places.min
  OBVIOUS
<1>3. PICK d \in 0 .. CacheCapacity : d = k - m
  BY <1>1, <1>2
<1>4. p \in Places /\ m \in Nat /\ KeyFrom(m, p, p) + d < m + CacheCapacity
  BY <1>1, <1>2, <1>3, KeysDiffer
<1>5. KeyFrom(m, p, p) + d = k
  BY <1>1, <1>2, <1>3, KeysDiffer
<1>6. PlaceOf(k) = (p + d) % CacheCapacity
  <2>1. k - m + p = p + d
    BY <1>1, <1>2, <1>3 DEF Places
  <2> QED
    BY <1>2, <2>1 DEF PlaceOf
<1> QED
  BY <1>2, <1>4, <1>5, <1>6, KeysFollow DEF KeyAt

\* An empty cache.
LEMMA InitCache == CacheInit => CacheInv
<1>1. SUFFICES ASSUME CacheInit PROVE CacheInv
  OBVIOUS
<1>2. CacheCapacity \in Nat \ {0}
  BY CacheHasPlaces
<1> QED
  BY <1>1, <1>2, CacheHasPlaces DEF CacheInit, CacheInv, CacheShape, Places, KeyAt, KeyFrom, Junk

\* A unit whose key has been passed over.
LEMMA InsertLateKeeps ==
  ASSUME CacheInv, NEW key \in 1 .. LastKey, InsertLate(key)
  PROVE  CacheInv'
<1>1. key \in Nat \ {0} /\ LastKey \in Nat /\ CacheCapacity \in Nat \ {0}
  BY CacheHasPlaces
<1>2. keys \in [min : Nat, max : Nat] /\ keys.min \in Nat /\ keys.max \in Nat
      /\ places.min \in Places
  BY DEF CacheInv, CacheShape
<1>3. key > keys.min /\ key < keys.max /\ key < keys.min + CacheCapacity
  BY <1>1, <1>2 DEF InsertLate, CacheInv
<1>4. PlaceOf(key) \in Places /\ KeyAt(PlaceOf(key)) = key
  BY <1>1, <1>2, <1>3, PlaceFacts
<1>5. /\ ring' = [ring EXCEPT ![PlaceOf(key)] = key] /\ kept' = kept \cup {key}
      /\ UNCHANGED <<places, keys, erased>> /\ keys.min # 0
  BY <1>1, <1>2, <1>3 DEF InsertLate, CacheInv
<1>6. \A i \in Places : KeyAt(i)' = KeyAt(i) /\ (KeyAt(i) = key => i = PlaceOf(key))
  BY <1>2, <1>4, <1>5, KeysDiffer DEF KeyAt
<1>7. CacheShape'
  BY <1>1, <1>4, <1>5 DEF CacheInv, CacheShape
<1>8. \A i \in Places : ring'[i] = IF KeyAt(i)' \in kept' THEN KeyAt(i)' ELSE 0
  BY <1>4, <1>5, <1>6 DEF CacheInv, CacheShape
<1>9. KeyAt(places.max)' = keys'.max
  BY <1>5 DEF CacheInv, KeyAt
<1> QED
  BY <1>1, <1>2, <1>3, <1>5, <1>7, <1>8, <1>9 DEF CacheInv

\* The place after the place at a remainder.
LEMMA NextRemainder ==
  ASSUME NEW w \in Nat \ {0}, NEW x \in Nat
  PROVE  x % w \in 0 .. w - 1 /\ ((x % w) + 1) % w = (x + 1) % w
<1>1. PICK q, s : q = x \div w /\ s = x % w
  OBVIOUS
<1>2. q \in Nat /\ s \in 0 .. w - 1 /\ x = w * q + s
  BY <1>1
<1>3. w * q \in Nat /\ w * 0 = 0 /\ w * 1 = w /\ w * (q + 1) = w * q + w
  BY <1>2
<1>4. CASE s + 1 < w
  <2>1. PICK u \in 0 .. w - 1 : u = s + 1
    BY <1>2, <1>4
  <2>2. (w * 0 + u) % w = u /\ (w * q + u) % w = u
    BY <1>2, RemainderIs
  <2>3. w * 0 + u = s + 1 /\ w * q + u = x + 1
    BY <1>2, <1>3, <2>1
  <2> QED
    BY <1>1, <1>2, <2>2, <2>3
<1>5. CASE ~ (s + 1 < w)
  <2>1. PICK u \in 0 .. w - 1 : u = 0
    OBVIOUS
  <2>2. (w * 1 + u) % w = u /\ (w * (q + 1) + u) % w = u
    BY <1>2, RemainderIs
  <2>3. w * 1 + u = s + 1 /\ w * (q + 1) + u = x + 1
    BY <1>2, <1>3, <1>5, <2>1
  <2> QED
    BY <1>1, <1>2, <2>2, <2>3
<1> QED
  BY <1>4, <1>5

\* As long as insert does not come upon the foremost place, only the last one moves.
LEMMA WalkGoesOn ==
  ASSUME places \in [min : Places, max : Places], NEW steps \in Nat,
         \A d \in 1 .. steps : places.min = 0 \/ (places.max + d) % CacheCapacity # places.min
  PROVE  \A d \in 0 .. steps :
           Walk(steps)[d] = [min |-> places.min, max |-> (places.max + d) % CacheCapacity]
<1> DEFINE T == [min : Places, max : Places]
           Onward(p) == [min |-> IF p.max + 1 = p.min THEN (p.min + 1) % CacheCapacity ELSE p.min,
                         max |-> (p.max + 1) % CacheCapacity]
           g == [n \in 1 .. steps |-> [p \in T |-> Onward(p)]]
           IsWalk(f) == f = [n \in 0 .. steps |-> IF n = 0 THEN places ELSE Onward(f[n - 1])]
<1>1. CacheCapacity \in Nat \ {0}
  BY CacheHasPlaces
<1>2. ASSUME NEW p \in T PROVE Onward(p) \in T
  <2>1. p.min \in Nat /\ p.max \in Nat /\ p.min \in Places
    BY <1>1 DEF Places
  <2>2. (p.min + 1) % CacheCapacity \in Places /\ (p.max + 1) % CacheCapacity \in Places
    <3>1. PICK u \in Nat, v \in Nat : u = p.min + 1 /\ v = p.max + 1
      BY <2>1
    <3>2. u % CacheCapacity \in 0 .. CacheCapacity - 1 /\ v % CacheCapacity \in 0 .. CacheCapacity - 1
      BY <1>1, NextRemainder
    <3> QED
      BY <3>1, <3>2 DEF Places
  <2> QED
    BY <2>1, <2>2
<1> HIDE DEF Onward
<1>3. \E f \in [0 .. steps -> T] : IsPath(f, places, g, steps)
  <2> HIDE DEF T
  <2>1. places \in T
    BY DEF T
  <2>2. g \in [1 .. steps -> [T -> T]]
    BY <1>2
  <2> HIDE DEF g
  <2> QED
    BY <2>1, <2>2, StepsExist, Zenon
<1>4. ASSUME NEW f \in [0 .. steps -> T] PROVE IsPath(f, places, g, steps) <=> IsWalk(f)
  <2> HIDE DEF T
  <2>1. ASSUME NEW k \in 0 .. steps, k # 0 PROVE g[k][f[k - 1]] = Onward(f[k - 1])
    <3>1. k \in 1 .. steps /\ k - 1 \in 0 .. steps
      BY <2>1
    <3>2. f[k - 1] \in T
      BY <3>1
    <3> QED
      BY <3>1, <3>2
  <2> HIDE DEF g
  <2>2. [k \in 0 .. steps |-> IF k = 0 THEN places ELSE g[k][f[k - 1]]]
          = [k \in 0 .. steps |-> IF k = 0 THEN places ELSE Onward(f[k - 1])]
    BY <2>1
  <2> QED
    BY <2>2 DEF IsPath
<1>5. PICK f : IsWalk(f)
  <2> HIDE DEF g, IsWalk, T
  <2> QED
    BY <1>3, <1>4
<1> HIDE DEF g
<1> DEFINE at == CHOOSE w : IsWalk(w)
<1>6. IsWalk(at)
  <2> HIDE DEF IsWalk
  <2> QED
    BY <1>5
<1>7. Walk(steps) = at
  BY DEF Walk, Onward
<1> HIDE DEF at
<1>8. at[0] = places /\ \A d \in 1 .. steps : at[d] = Onward(at[d - 1])
  <2>1. \A d \in 0 .. steps : at[d] = IF d = 0 THEN places ELSE Onward(at[d - 1])
    BY <1>6
  <2>2. \A d \in 1 .. steps : d \in 0 .. steps /\ d # 0
    OBVIOUS
  <2> QED
    BY <2>1, <2>2
<1> DEFINE There(d) == at[d] = [min |-> places.min, max |-> (places.max + d) % CacheCapacity]
           M == {d \in Nat : d <= steps => There(d)}
<1>9. places.min \in 0 .. CacheCapacity - 1 /\ places.max \in 0 .. CacheCapacity - 1
      /\ places = [min |-> places.min, max |-> places.max]
  BY <1>1 DEF Places
<1>10. 0 \in M
  <2>1. places.max % CacheCapacity = places.max /\ places.max + 0 = places.max
    BY <1>1, <1>9, InTheRing
  <2> QED
    BY <1>8, <1>9, <2>1
<1>11. ASSUME NEW d \in M, d < steps PROVE d + 1 \in M
  <2>1. d \in Nat /\ d + 1 \in 1 .. steps /\ (d + 1) - 1 = d /\ There(d)
    BY <1>11
  <2>a. PICK x \in Nat : x = places.max + d
    BY <1>9, <2>1
  <2>2. x \in Nat /\ x % CacheCapacity \in 0 .. CacheCapacity - 1
        /\ ((x % CacheCapacity) + 1) % CacheCapacity = (x + 1) % CacheCapacity
    BY <1>1, NextRemainder
  <2>3. (x % CacheCapacity) + 1 # places.min
    <3>1. SUFFICES ASSUME (x % CacheCapacity) + 1 = places.min PROVE FALSE
      OBVIOUS
    <3>2. places.min # 0 /\ places.min \in 0 .. CacheCapacity - 1
      BY <1>9, <2>2, <3>1
    <3>4. places.min % CacheCapacity = places.min
      BY <1>1, <3>2, InTheRing
    <3>6. (x + 1) % CacheCapacity = places.min
      BY <2>2, <3>1, <3>4
    <3>7. x + 1 = places.max + (d + 1)
      BY <1>9, <2>1, <2>a
    <3> QED
      BY <2>1, <3>2, <3>6, <3>7
  <2>4. at[d + 1] = Onward(at[d])
    BY <1>8, <2>1
  <2>5. at[d].min = places.min /\ at[d].max = x % CacheCapacity
    BY <2>1, <2>a
  <2>6. at[d + 1] = [min |-> places.min, max |-> (x + 1) % CacheCapacity]
    BY <2>2, <2>3, <2>4, <2>5 DEF Onward
  <2>7. x + 1 = places.max + (d + 1)
    BY <1>9, <2>1, <2>a
  <2> QED
    BY <2>1, <2>6, <2>7
<1>12. M \in SUBSET Nat
  OBVIOUS
<1>13. \A d \in 0 .. steps : d \in M
  <2> HIDE DEF M
  <2> QED
    BY <1>10, <1>11, <1>12, AllUpTo
<1>14. \A d \in 0 .. steps : d <= steps
  OBVIOUS
<1> QED
  BY <1>7, <1>13, <1>14

\* What insert of a new key does to the places, as long as the walk does not come upon the
\* foremost one.
LEMMA NewUnit ==
  ASSUME CacheInv, NEW key \in 1 .. LastKey, InsertNew(key),
         \A d \in 1 .. key - keys.max :
           places.min = 0 \/ (places.max + d) % CacheCapacity # places.min
  PROVE  LET last == (places.max + (key - keys.max)) % CacheCapacity
             passed == {(places.max + i) % CacheCapacity : i \in 1 .. key - keys.max}
         IN  /\ ring' = [i \in Places |-> IF i = last THEN key
                                         ELSE IF i \in passed THEN 0 ELSE ring[i]]
             /\ places' = [places EXCEPT !.max = last]
<1>1. key \in Nat \ {0} /\ keys.max \in Nat /\ key > keys.max
      /\ places \in [min : Places, max : Places]
  BY CacheHasPlaces DEF CacheInv, CacheShape, InsertNew
<1>2. PICK steps \in Nat : steps = key - keys.max
  BY <1>1
<1>3. \A d \in 0 .. steps :
        Walk(steps)[d] = [min |-> places.min, max |-> (places.max + d) % CacheCapacity]
  BY <1>1, <1>2, WalkGoesOn
<1>4. /\ ring' = [i \in Places |-> IF i = Walk(steps)[steps].max THEN key
                                  ELSE IF \E n \in 1 .. steps : i = Walk(steps)[n].max THEN 0
                                       ELSE ring[i]]
      /\ places' = Walk(steps)[steps]
  BY <1>2, Zenon DEF InsertNew
<1>5. \A n \in 1 .. steps : n \in 0 .. steps
  OBVIOUS
<1>a. Walk(steps)[steps] = [min |-> places.min, max |-> (places.max + steps) % CacheCapacity]
  <2>1. steps \in 0 .. steps
    OBVIOUS
  <2> QED
    BY <1>3, <2>1, Zenon
<1>b. [places EXCEPT !.max = (places.max + steps) % CacheCapacity]
        = [min |-> places.min, max |-> (places.max + steps) % CacheCapacity]
  BY <1>1
<1>c. ASSUME NEW n \in 1 .. steps PROVE Walk(steps)[n].max = (places.max + n) % CacheCapacity
  <2>1. Walk(steps)[n] = [min |-> places.min, max |-> (places.max + n) % CacheCapacity]
    BY <1>3, <1>5, Zenon
  <2> QED
    BY <2>1
<1>6. /\ Walk(steps)[steps] = [places EXCEPT !.max = (places.max + steps) % CacheCapacity]
      /\ Walk(steps)[steps].max = (places.max + steps) % CacheCapacity
      /\ \A n \in 1 .. steps : Walk(steps)[n].max = (places.max + n) % CacheCapacity
  <2>1. Walk(steps)[steps] = [places EXCEPT !.max = (places.max + steps) % CacheCapacity]
    BY <1>a, <1>b, Zenon
  <2>2. Walk(steps)[steps].max = (places.max + steps) % CacheCapacity
    BY <1>a
  <2> QED
    BY <2>1, <2>2, <1>c, Zenon
<1>7. \A i \in Places : (\E n \in 1 .. steps : i = Walk(steps)[n].max)
                          <=> i \in {(places.max + n) % CacheCapacity : n \in 1 .. steps}
  BY <1>6
<1> QED
  BY <1>2, <1>4, <1>6, <1>7

\* A unit whose key is past the last one; the places that it passes are cleared.
LEMMA InsertNewKeeps ==
  ASSUME CacheInv, NEW key \in 1 .. LastKey, InsertNew(key), regular'
  PROVE  CacheInv'
<1>1. key \in Nat \ {0} /\ LastKey \in Nat /\ CacheCapacity \in Nat \ {0}
  BY CacheHasPlaces
<1>2. /\ keys.min \in Nat /\ keys.max \in Nat /\ keys.min <= keys.max
      /\ places.min \in 0 .. CacheCapacity - 1 /\ places.max \in 0 .. CacheCapacity - 1
      /\ keys.max < keys.min + CacheCapacity /\ key > keys.max
      /\ keys \in [min : Nat, max : Nat] /\ places \in [min : Places, max : Places]
  BY DEF CacheInv, CacheShape, Places, InsertNew
<1> DEFINE last == (places.max + (key - keys.max)) % CacheCapacity
           passed == {(places.max + i) % CacheCapacity : i \in 1 .. key - keys.max}
<1>a. /\ keys' = [min |-> IF keys.min = 0 THEN key ELSE keys.min, max |-> key]
      /\ kept' = kept \cup {key} /\ erased' = erased
      /\ IF keys.min = 0 THEN key % CacheCapacity = 0 ELSE key < keys.min + CacheCapacity
  BY DEF InsertNew
<1>b. ASSUME NEW d \in 1 .. key - keys.max, places.min # 0
      PROVE  (places.max + d) % CacheCapacity # places.min
  <2>1. key < keys.min + CacheCapacity
    BY <1>a, <1>b DEF CacheInv
  <2>2. /\ d \in 0 .. CacheCapacity /\ KeyAt(places.max) + d < keys.min + CacheCapacity
        /\ KeyAt(places.max) = keys.max /\ places.min \in Places /\ places.max \in Places
    BY <1>1, <1>2, <2>1 DEF CacheInv, Places
  <2>3. KeyAt((places.max + d) % CacheCapacity) = keys.max + d
    BY <1>2, <2>2, KeysFollow DEF KeyAt
  <2>4. KeyAt(places.min) = keys.min
    BY <1>2, <2>2, KeysDiffer DEF KeyAt
  <2> QED
    BY <1>2, <2>3, <2>4
<1>3. /\ ring' = [i \in Places |-> IF i = last THEN key ELSE IF i \in passed THEN 0 ELSE ring[i]]
      /\ places' = [places EXCEPT !.max = last]
      /\ keys' = [min |-> IF keys.min = 0 THEN key ELSE keys.min, max |-> key]
      /\ kept' = kept \cup {key} /\ erased' = erased
      /\ IF keys.min = 0 THEN key % CacheCapacity = 0 ELSE key < keys.min + CacheCapacity
  BY <1>a, <1>b, NewUnit
<1>4. last \in Places
  BY <1>1, <1>2 DEF Places
<1>5. CacheShape'
  BY <1>1, <1>2, <1>3, <1>4 DEF CacheInv, CacheShape
<1>6. CASE keys.min = 0
  <2>1. keys.max = 0 /\ kept = {} /\ places = [min |-> 0, max |-> 0]
    BY <1>6 DEF CacheInv
  <2>2. last = 0
    <3>1. key % CacheCapacity = 0
      BY <1>3, <1>6
    <3>2. places.max + (key - keys.max) = key
      BY <1>1, <2>1
    <3> QED
      BY <3>1, <3>2
  <2>3. keys'.min = key /\ keys'.max = key /\ kept' = {key}
        /\ places'.min = 0 /\ places'.max = 0
    BY <1>2, <1>3, <1>6, <2>1, <2>2
  <2>4. \A i \in Places : KeyAt(i)' = key + i
    BY <1>1, <2>3 DEF KeyAt, KeyFrom, Places
  <2>5. \A i \in Places : i # 0 => i \in passed
    <3>1. SUFFICES ASSUME NEW i \in Places, i # 0 PROVE i \in passed
      OBVIOUS
    <3>2. i \in 0 .. CacheCapacity - 1 /\ 0 \in 0 .. CacheCapacity /\ i \in Nat
      BY <1>1 DEF Places
    <3>3. i % CacheCapacity = i
      BY <1>1, <3>2, InTheRing
    <3>4. ASSUME key < CacheCapacity PROVE FALSE
      <4>1. key \in 0 .. CacheCapacity - 1
        BY <1>1, <3>4
      <4>2. key % CacheCapacity = key
        BY <1>1, <4>1, InTheRing
      <4> QED
        BY <1>1, <1>3, <1>6, <4>2
    <3>5. i \in 1 .. key - keys.max /\ places.max + i = i
      BY <1>1, <2>1, <3>1, <3>2, <3>4
    <3> QED
      BY <3>3, <3>5
  <2>6. \A i \in Places : ring'[i] = IF i = 0 THEN key ELSE 0
    BY <1>3, <2>2, <2>5
  <2> HIDE DEF last, passed
  <2>7. \A i \in Places : ring'[i] = IF KeyAt(i)' \in kept' THEN KeyAt(i)' ELSE 0
    <3>1. \A i \in Places : KeyAt(i)' \in kept' <=> i = 0
      BY <1>1, <2>3, <2>4 DEF Places
    <3> QED
      BY <1>1, <2>4, <2>6, <3>1
  <2>8. KeyAt(places.max)' = keys'.max
    BY <1>1, <2>3 DEF KeyAt, KeyFrom
  <2> QED
    BY <1>1, <1>3, <1>5, <2>3, <2>7, <2>8 DEF CacheInv
<1>7. CASE keys.min # 0
  <2>1. PICK n \in 1 .. CacheCapacity : n = key - keys.max
    BY <1>1, <1>2, <1>3, <1>7
  <2>3. /\ keys'.min = keys.min /\ keys'.max = key /\ places'.min = places.min
        /\ places'.max = last /\ key < keys.min + CacheCapacity
    BY <1>2, <1>3, <1>7
  <2>4. \A i \in Places : KeyAt(i)' = KeyAt(i)
    BY <2>3 DEF KeyAt
  <2>5. KeyAt(places.max) = keys.max
    BY DEF CacheInv
  <2>6. \A d \in 1 .. n : /\ (places.max + d) % CacheCapacity \in Places
                          /\ KeyAt((places.max + d) % CacheCapacity) = keys.max + d
    <3>1. SUFFICES ASSUME NEW d \in 1 .. n
                   PROVE  /\ (places.max + d) % CacheCapacity \in Places
                          /\ KeyAt((places.max + d) % CacheCapacity) = KeyAt(places.max) + d
      BY <2>5
    <3>2. d \in 0 .. CacheCapacity /\ KeyAt(places.max) + d < keys.min + CacheCapacity
      BY <1>1, <1>2, <2>1, <2>3, <2>5
    <3>3. places.min \in Places /\ places.max \in Places
      BY <1>2 DEF Places
    <3> QED
      BY <1>2, <3>2, <3>3, KeysFollow DEF KeyAt
  <2>7. last = (places.max + n) % CacheCapacity /\ KeyAt(last) = key
    BY <1>1, <1>2, <2>1, <2>6
  <2>8. \A i \in passed : KeyAt(i) > keys.max
    BY <1>2, <2>1, <2>6
  <2>9. \A i \in Places : KeyAt(i) = key => i = last
    BY <1>2, <1>4, <2>7, KeysDiffer DEF KeyAt
  <2> HIDE DEF last, passed
  <2>10. \A i \in Places : ring'[i] = IF KeyAt(i)' \in kept' THEN KeyAt(i)' ELSE 0
    <3>1. SUFFICES ASSUME NEW i \in Places
                   PROVE  ring'[i] = IF KeyAt(i) \in kept' THEN KeyAt(i) ELSE 0
      BY <2>4
    <3>2. CASE i = last
      BY <1>3, <2>7, <3>2
    <3>3. CASE i # last /\ i \in passed
      <4>1. KeyAt(i) \notin kept
        <5>1. \A k \in kept : k \in Nat /\ k <= keys.max
          BY DEF CacheInv, CacheShape
        <5> QED
          BY <1>2, <2>8, <3>3, <5>1
      <4> QED
        BY <1>3, <2>9, <3>3, <4>1
    <3>4. CASE i # last /\ i \notin passed
      BY <1>3, <1>7, <2>9, <3>4 DEF CacheInv
    <3> QED
      BY <3>2, <3>3, <3>4
  <2>11. KeyAt(places.max)' = keys'.max
    BY <2>3, <2>7 DEF KeyAt
  <2>12. \A k \in kept' : keys'.min <= k /\ k <= keys'.max
    <3>1. \A k \in kept : k \in Nat /\ keys.min <= k /\ k <= keys.max
      BY DEF CacheInv, CacheShape
    <3> QED
      BY <1>1, <1>2, <1>3, <2>3, <3>1
  <2> QED
    BY <1>1, <1>2, <1>3, <1>5, <1>7, <2>3, <2>10, <2>11, <2>12 DEF CacheInv
<1> QED
  BY <1>6, <1>7

\* The unit of the first key is erased.
LEMMA EraseKeeps ==
  ASSUME CacheInv, Erase, regular'
  PROVE  CacheInv'
<1>1. CacheCapacity \in Nat \ {0}
  BY CacheHasPlaces
<1>2. /\ keys.min \in Nat /\ keys.max \in Nat /\ keys.min <= keys.max
      /\ places.min \in 0 .. CacheCapacity - 1 /\ places.max \in 0 .. CacheCapacity - 1
      /\ keys.max < keys.min + CacheCapacity
      /\ keys \in [min : Nat, max : Nat] /\ places \in [min : Places, max : Places]
      /\ ring \in [Places -> Nat]
  BY DEF CacheInv, CacheShape, Places
<1>3. /\ \A k \in kept : k \in Nat \ {0} /\ keys.min <= k /\ k <= keys.max
      /\ \A i \in Places : ring[i] = IF KeyAt(i) \in kept THEN KeyAt(i) ELSE 0
      /\ KeyAt(places.max) = keys.max /\ keys.min # 0
  BY DEF CacheInv, CacheShape, Erase
<1>4. /\ ring' = [ring EXCEPT ![places.min] = 0] /\ kept' = kept \ {keys.min}
      /\ erased' = [unit |-> ring[places.min], due |-> IF keys.min \in kept THEN keys.min ELSE 0]
  BY DEF Erase
<1>5. KeyAt(places.min) = keys.min /\ places.min \in Places
  BY <1>2, KeysDiffer DEF KeyAt
<1>6. erased'.unit = erased'.due
  BY <1>3, <1>4, <1>5
<1>7. keys.min # 0
  BY <1>3
<1>8. \A i \in Places : KeyAt(i) = keys.min => i = places.min
  BY <1>2, <1>5, KeysDiffer DEF KeyAt
<1>9. \A k \in kept' : k \in kept /\ k # keys.min
  BY <1>4
<1>10. CASE places.min = places.max
  <2>1. places' = [min |-> 0, max |-> 0] /\ keys' = keys
    BY <1>10 DEF Erase
  <2>2. keys.max = keys.min /\ kept' = {}
    BY <1>2, <1>3, <1>5, <1>9, <1>10
  <2>3. \A i \in Places : ring'[i] = 0
    <3>1. SUFFICES ASSUME NEW i \in Places, i # places.min PROVE ring[i] = 0
      BY <1>2, <1>4
    <3>2. KeyAt(i) \notin kept
      BY <1>2, <1>3, <1>8, <2>2, <3>1
    <3> QED
      BY <1>3, <3>2
  <2>4. KeyAt(places.max)' = keys'.max
    BY <1>2, <2>1, <2>2 DEF KeyAt, KeyFrom
  <2>5. CacheShape'
    BY <1>1, <1>2, <1>4, <2>1, <2>2 DEF CacheShape, Places
  <2> QED
    BY <1>2, <1>6, <1>7, <2>1, <2>2, <2>3, <2>4, <2>5 DEF CacheInv
<1>11. CASE places.min # places.max
  <2>1. /\ places' = [places EXCEPT !.min = (@ + 1) % CacheCapacity]
        /\ keys' = [keys EXCEPT !.min = @ + 1]
    BY <1>11 DEF Erase
  <2>2. PICK m, p, q : m = keys.min /\ p = places.min /\ q = (p + 1) % CacheCapacity
    OBVIOUS
  <2>3. /\ places'.max = places.max /\ keys'.min = m + 1 /\ keys'.max = keys.max
        /\ places'.min = q
    BY <1>2, <2>1, <2>2
  <2>4. keys.min < keys.max
    BY <1>2, <1>3, <1>8, <1>11 DEF Places
  <2>5. /\ q \in Places
        /\ \A i \in Places : KeyAt(i)' = IF i = p THEN m + CacheCapacity ELSE KeyAt(i)
    BY <1>5, <1>2, <2>2, <2>3, KeysMove DEF KeyAt
  <2>6. CacheShape'
    <3>1. ring' \in [Places -> Nat] /\ kept' \in SUBSET (Nat \ {0})
      BY <1>2, <1>3, <1>4, <1>5
    <3>2. places' = [places EXCEPT !.min = q]
      BY <2>1, <2>2
    <3>3. places' \in [min : Places, max : Places]
      BY <1>2, <2>5, <3>2
    <3>4. keys' \in [min : Nat, max : Nat]
      BY <1>2, <2>1
    <3> QED
      BY <3>1, <3>3, <3>4 DEF CacheShape
  <2>7. \A i \in Places : ring'[i] = IF KeyAt(i)' \in kept' THEN KeyAt(i)' ELSE 0
    <3>1. SUFFICES ASSUME NEW i \in Places
                   PROVE  ring'[i] = IF KeyAt(i)' \in kept' THEN KeyAt(i)' ELSE 0
      OBVIOUS
    <3>2. CASE i = places.min
      <4>1. keys.min + CacheCapacity \notin kept
        BY <1>1, <1>2, <1>3
      <4> QED
        BY <1>2, <1>4, <1>9, <2>2, <2>5, <3>2, <4>1
    <3>3. CASE i # places.min
      <4>1. KeyAt(i) \in kept' <=> KeyAt(i) \in kept
        BY <1>4, <1>8, <3>3
      <4> QED
        BY <1>2, <1>3, <1>4, <2>2, <2>5, <3>3, <4>1
    <3> QED
      BY <3>2, <3>3
  <2>8. KeyAt(places.max)' = keys'.max
    <3>1. KeyAt(places.max)' = KeyAt(places.max)
      BY <1>2, <1>11, <2>2, <2>3, <2>5
    <3> QED
      BY <1>3, <2>3, <3>1
  <2>9. \A k \in kept' : keys'.min <= k /\ k <= keys'.max
    BY <1>2, <1>3, <1>9, <2>2, <2>3
  <2> QED
    BY <1>1, <1>2, <1>6, <2>2, <2>3, <2>4, <2>6, <2>7, <2>8, <2>9 DEF CacheInv
<1> QED
  BY <1>10, <1>11

\* For any capacity, any streams and any order of late units, as long as the use of the cache
\* is regular, looking a key up finds its unit if that is in the cache and nothing otherwise,
\* and erase gives the foremost one, whatever the memory held before.
THEOREM CacheIsFaithful == CacheSpec => []CacheGivesWhatWasPut
<1> DEFINE Ind == regular => CacheInv
<1>1. Ind /\ [CacheNext]_cacheVars => Ind'
  <2>1. SUFFICES ASSUME Ind, [CacheNext]_cacheVars, regular' PROVE CacheInv'
    OBVIOUS
  <2>2. CASE UNCHANGED cacheVars
    BY <2>1, <2>2 DEF cacheVars, CacheInv, CacheShape, KeyAt, KeyFrom
  <2>3. ASSUME NEW key \in 1 .. LastKey, InsertLate(key) PROVE CacheInv'
    BY <2>1, <2>3, InsertLateKeeps DEF InsertLate
  <2>4. ASSUME NEW key \in 1 .. LastKey, InsertNew(key) PROVE CacheInv'
    <3>1. regular
      BY <2>1, <2>4 DEF InsertNew
    <3> QED
      BY <2>1, <2>4, <3>1, InsertNewKeeps
  <2>5. CASE Erase
    <3>1. regular
      BY <2>1, <2>5 DEF Erase
    <3> QED
      BY <2>1, <2>5, <3>1, EraseKeeps
  <2> QED
    BY <2>1, <2>2, <2>3, <2>4, <2>5 DEF CacheNext
<1>2. Ind => CacheGivesWhatWasPut
  <2>1. SUFFICES ASSUME CacheInv, NEW key \in 1 .. LastKey
                 PROVE  Found(key) = IF key \in kept THEN key ELSE 0
    BY DEF CacheGivesWhatWasPut, CacheInv
  <2>2. key \in Nat /\ keys.min \in Nat /\ keys.max \in Nat /\ CacheCapacity \in Nat
        /\ keys.max < keys.min + CacheCapacity
    BY <2>1, CacheHasPlaces DEF CacheInv, CacheShape
  <2>3. CASE key \in keys.min .. keys.max
    <3>1. PlaceOf(key) \in Places /\ KeyAt(PlaceOf(key)) = key
      BY <2>1, <2>2, <2>3, PlaceFacts
    <3>2. keys.min # 0
      BY <2>1, <2>2, <2>3 DEF CacheInv
    <3> QED
      BY <2>1, <2>3, <3>1, <3>2 DEF Found, CacheInv
  <2>4. CASE key \notin keys.min .. keys.max
    BY <2>1, <2>2, <2>4 DEF Found, CacheInv
  <2> QED
    BY <2>3, <2>4
<1>3. CacheInit => Ind
  BY InitCache
<1> QED
  BY <1>1, <1>2, <1>3, PTL DEF CacheSpec

-----------------------------------------------------------------------------
(* The log's files.                                                        *)

\* The names of the files that the logs of any days have.
FileNames == [name : LogNames, day : Nat, number : Nat]

\* What a process knows of its log.
BaseLogs == [name : LogNames, day : Nat, count : Nat, files : Nat, renameTo : FileNames]

\* A disk that has lines up to n.
DiskOf(n) == {d \in UNION {[F -> Seq(1 .. n)] : F \in SUBSET FileNames} :
                \A f \in DOMAIN d : f.day = 0 => f = CurrentFile(f.name)}

\* Line k is in file f.
HasLine(d, f, k) == \E i \in DOMAIN d[f] : d[f][i] = k

\* Every line up to n is in just one of the files, which have their lines in order.
LinesSurvive(d, n) ==
  /\ \A k \in 1 .. n : \E f \in DOMAIN d : HasLine(d, f, k)
  /\ \A k \in 1 .. n : \A f, g \in DOMAIN d : HasLine(d, f, k) /\ HasLine(d, g, k) => f = g
  /\ \A f \in DOMAIN d : \A i, j \in DOMAIN d[f] : i < j => d[f][i] < d[f][j]

\* Name r is later than that of any file: a process counts its files, and another process has
\* days of its own.
LaterThan(r, d) == \A f \in DOMAIN d : f.day = 0 \/ f.day < r.day \/ f.number < r.number

\* Every renamed file has the name of a day on which a process made names.
Dated(d, days) == \A f \in DOMAIN d : f.day = 0 \/ f.day \in days

\* Unless two processes made names on the same day, the next renaming is to a new name.
FilesInv ==
  /\ today \in Nat \ {0} /\ lastLine \in Nat /\ begun \in SUBSET (1 .. today) /\ again \in BOOLEAN
  /\ base \in BaseLogs /\ base.renameTo.day \in begun /\ base.renameTo.number < base.files
  /\ disk \in DiskOf(lastLine) /\ Dated(disk, begun) /\ CurrentFile(base.name) \in DOMAIN disk
  /\ ~again => LaterThan(base.renameTo, disk) /\ LinesSurvive(disk, lastLine)

-----------------------------------------------------------------------------
\* A file that is there may be renamed, as long as nothing has its new name.
LEMMA RenamingKeeps ==
  ASSUME NEW d, NEW n \in Nat, LinesSurvive(d, n), NEW c \in DOMAIN d, NEW r, r \notin DOMAIN d,
         NEW e, DOMAIN e = DOMAIN d \cup {r}, e[r] = d[c], e[c] = <<>>,
         \A f \in DOMAIN d : f # c => e[f] = d[f]
  PROVE  LinesSurvive(e, n)
<1>1. c # r /\ DOMAIN e[c] = {}
  OBVIOUS
<1>2. \A f \in DOMAIN e : f = r \/ f = c \/ (f \in DOMAIN d /\ f # c /\ f # r /\ e[f] = d[f])
  OBVIOUS
<1>3. \A k : /\ ~HasLine(e, c, k) /\ (HasLine(e, r, k) <=> HasLine(d, c, k))
                /\ \A f \in DOMAIN d : f # c => (HasLine(e, f, k) <=> HasLine(d, f, k))
  BY <1>1, <1>2 DEF HasLine
<1>4. \A k \in 1 .. n : \E f \in DOMAIN e : HasLine(e, f, k)
  <2>1. SUFFICES ASSUME NEW k \in 1 .. n PROVE \E f \in DOMAIN e : HasLine(e, f, k)
    OBVIOUS
  <2>2. PICK f \in DOMAIN d : HasLine(d, f, k)
    BY DEF LinesSurvive
  <2>3. r \in DOMAIN e /\ f \in DOMAIN e
    OBVIOUS
  <2> QED
    BY <1>3, <2>2, <2>3
<1>5. \A k \in 1 .. n : \A f, g \in DOMAIN e : HasLine(e, f, k) /\ HasLine(e, g, k) => f = g
  <2>1. \A k \in 1 .. n : \A f, g \in DOMAIN d : HasLine(d, f, k) /\ HasLine(d, g, k) => f = g
    BY DEF LinesSurvive
  <2> QED
    BY <1>2, <1>3, <2>1
<1>6. \A f \in DOMAIN e : \A i, j \in DOMAIN e[f] : i < j => e[f][i] < e[f][j]
  BY <1>1, <1>2 DEF LinesSurvive
<1> QED
  BY <1>4, <1>5, <1>6 DEF LinesSurvive

\* So may an empty one be made.
LEMMA NewFileKeeps ==
  ASSUME NEW d, NEW n \in Nat, LinesSurvive(d, n), NEW c, c \notin DOMAIN d,
         NEW e, DOMAIN e = DOMAIN d \cup {c}, e[c] = <<>>, \A f \in DOMAIN d : e[f] = d[f]
  PROVE  LinesSurvive(e, n)
<1>1. \A f \in DOMAIN e : (f = c /\ DOMAIN e[f] = {}) \/ (f \in DOMAIN d /\ e[f] = d[f])
  OBVIOUS
<1>2. \A k : ~HasLine(e, c, k) /\ \A f \in DOMAIN d : HasLine(e, f, k) <=> HasLine(d, f, k)
  BY DEF HasLine
<1>3. \A k \in 1 .. n : \E f \in DOMAIN e : HasLine(e, f, k)
  BY <1>2 DEF LinesSurvive
<1>4. \A k \in 1 .. n : \A f, g \in DOMAIN e : HasLine(e, f, k) /\ HasLine(e, g, k) => f = g
  BY <1>1, <1>2 DEF LinesSurvive
<1>5. \A f \in DOMAIN e : \A i, j \in DOMAIN e[f] : i < j => e[f][i] < e[f][j]
  BY <1>1 DEF LinesSurvive
<1> QED
  BY <1>3, <1>4, <1>5 DEF LinesSurvive

\* And a line may be written at the end of a file.
LEMMA LineAtTheEnd ==
  ASSUME NEW n \in Nat, NEW d \in DiskOf(n), NEW c \in DOMAIN d,
         NEW e, e = [d EXCEPT ![c] = Append(@, n + 1)]
  PROVE  /\ e \in DiskOf(n + 1) /\ DOMAIN e = DOMAIN d
         /\ LinesSurvive(d, n) => LinesSurvive(e, n + 1)
<1>1. /\ DOMAIN d \in SUBSET FileNames /\ d \in [DOMAIN d -> Seq(1 .. n)]
      /\ \A f \in DOMAIN d : f.day = 0 => f = CurrentFile(f.name)
  BY DEF DiskOf
<1>2. /\ DOMAIN e = DOMAIN d /\ e[c] = Append(d[c], n + 1)
      /\ \A f \in DOMAIN d : f # c => e[f] = d[f]
  BY <1>1
<1>3. \A s \in Seq(1 .. n) : s \in Seq(1 .. n + 1)
  <2>1. \A s \in Seq(1 .. n) : Len(s) \in Nat /\ s \in [1 .. Len(s) -> 1 .. n + 1]
    OBVIOUS
  <2> QED
    BY <2>1, SeqDef
<1>4. Append(d[c], n + 1) \in Seq(1 .. n + 1)
  BY <1>1, <1>3
<1>5. e \in [DOMAIN d -> Seq(1 .. n + 1)]
  BY <1>1, <1>3, <1>4
<1>6. e \in DiskOf(n + 1)
  BY <1>1, <1>2, <1>5 DEF DiskOf
<1>7. ASSUME LinesSurvive(d, n) PROVE LinesSurvive(e, n + 1)
  <2>1. PICK s \in Seq(1 .. n), m \in Nat : s = d[c] /\ m = Len(s)
    BY <1>1
  <2>2. /\ DOMAIN e[c] = 1 .. m + 1 /\ e[c][m + 1] = n + 1
        /\ \A i \in 1 .. m : e[c][i] = s[i] /\ s[i] \in 1 .. n
    BY <1>2, <2>1
  <2>3. \A f \in DOMAIN d : \A i \in DOMAIN d[f] : d[f][i] \in 1 .. n
    BY <1>1
  <2>4. \A k \in 1 .. n : \A f \in DOMAIN d : HasLine(e, f, k) <=> HasLine(d, f, k)
    <3>1. SUFFICES ASSUME NEW k \in 1 .. n PROVE HasLine(e, c, k) <=> HasLine(d, c, k)
      <4>1. \A f \in DOMAIN d : \A k \in 1 .. n :
              f # c => (HasLine(e, f, k) <=> HasLine(d, f, k))
        BY <1>2, ZenonT(30) DEF HasLine
      <4> QED
        BY <4>1, ZenonT(30)
    <3>2. HasLine(d, c, k) <=> \E i \in 1 .. m : s[i] = k
      BY <2>1 DEF HasLine
    <3>3. HasLine(e, c, k) <=> \E i \in 1 .. m + 1 : e[c][i] = k
      BY <2>2 DEF HasLine
    <3>4. \A i \in 1 .. m + 1 : i \in 1 .. m \/ i = m + 1
      BY <2>1
    <3>5. e[c][m + 1] # k /\ \A i \in 1 .. m : i \in 1 .. m + 1
      BY <2>1, <2>2
    <3>6. (\E i \in 1 .. m + 1 : e[c][i] = k) <=> \E i \in 1 .. m : s[i] = k
      BY <2>2, <3>4, <3>5, Zenon
    <3> QED
      BY <3>2, <3>3, <3>6
  <2>5. \A f \in DOMAIN d : HasLine(e, f, n + 1) <=> f = c
    <3>1. HasLine(e, c, n + 1)
      BY <2>1, <2>2 DEF HasLine
    <3>2. \A f \in DOMAIN d : f # c => ~HasLine(e, f, n + 1)
      BY <1>2, <2>3 DEF HasLine
    <3> QED
      BY <3>1, <3>2
  <2>6. \A k \in 1 .. n + 1 : k \in 1 .. n \/ k = n + 1
    OBVIOUS
  <2>7. \A k \in 1 .. n + 1 : \E f \in DOMAIN e : HasLine(e, f, k)
    <3>1. \A k \in 1 .. n : \E f \in DOMAIN d : HasLine(e, f, k)
      BY <1>7, <2>4 DEF LinesSurvive
    <3>2. \E f \in DOMAIN e : HasLine(e, f, n + 1)
      BY <1>2, <2>5, Zenon
    <3>3. DOMAIN e = DOMAIN d
      BY <1>2, Zenon
    <3> QED
      BY <2>6, <3>1, <3>2, <3>3, ZenonT(30)
  <2>8. \A k \in 1 .. n + 1 : \A f, g \in DOMAIN e : HasLine(e, f, k) /\ HasLine(e, g, k) => f = g
    <3>1. \A k \in 1 .. n : \A f, g \in DOMAIN d : HasLine(e, f, k) /\ HasLine(e, g, k) => f = g
      BY <1>7, <2>4 DEF LinesSurvive
    <3>2. \A f, g \in DOMAIN d : HasLine(e, f, n + 1) /\ HasLine(e, g, n + 1) => f = g
      BY <2>5
    <3> QED
      BY <1>2, <2>6, <3>1, <3>2, ZenonT(30)
  <2>9. \A f \in DOMAIN e : \A i, j \in DOMAIN e[f] : i < j => e[f][i] < e[f][j]
    <3>1. SUFFICES ASSUME NEW i \in 1 .. m + 1, NEW j \in 1 .. m + 1, i < j
                   PROVE  e[c][i] < e[c][j]
      BY <1>2, <1>7, <2>2 DEF LinesSurvive
    <3>2. i \in 1 .. m
      BY <2>1, <3>1
    <3>3. CASE j = m + 1
      BY <2>2, <3>2, <3>3
    <3>4. CASE j # m + 1
      <4>1. j \in 1 .. m /\ i \in DOMAIN d[c] /\ j \in DOMAIN d[c]
        BY <2>1, <3>2, <3>4
      <4> QED
        BY <1>7, <2>1, <2>2, <3>1, <3>2, <4>1 DEF LinesSurvive
    <3> QED
      BY <3>3, <3>4
  <2> QED
    BY <2>7, <2>8, <2>9 DEF LinesSurvive
<1> QED
  BY <1>2, <1>6, <1>7

-----------------------------------------------------------------------------
\* Log b and disk d as they are before a file is opened, on a disk with lines up to n and
\* names of some days.
Ready(b, d, n, days) ==
  /\ b \in BaseLogs /\ d \in DiskOf(n) /\ n \in Nat /\ today \in Nat \ {0}
  /\ days \in SUBSET (1 .. today) /\ Dated(d, days)

\* A log and a disk when a file for it has been opened.
LogOpens(o, name, n, days) ==
  /\ o.log \in BaseLogs /\ o.log.name = name
  /\ o.log.renameTo.day = today /\ o.log.renameTo.number < o.log.files
  /\ o.files \in DiskOf(n) /\ Dated(o.files, days) /\ CurrentFile(name) \in DOMAIN o.files

\* Nothing is lost on the disk, and nothing will be by the next renaming.
Safe(o, n) == LaterThan(o.log.renameTo, o.files) /\ LinesSurvive(o.files, n)

-----------------------------------------------------------------------------
\* What is opened for log b: whatever is renamed or begun, no line is lost, and the name for
\* the next renaming is later than all names so far.
LEMMA OpeningFacts ==
  ASSUME NEW b, NEW d, NEW n, NEW days, Ready(b, d, n, days),
         b.renameTo.day \in days, b.renameTo.number < b.files
  PROVE  /\ LogOpens(InitTraceFile(b, d), b.name, n, days)
         /\ LaterThan(b.renameTo, d) /\ LinesSurvive(d, n) => Safe(InitTraceFile(b, d), n)
<1> DEFINE c == CurrentFile(b.name)
           r == b.renameTo
           begin == b.count > LinesPerFile \/ b.day # today
           renamed == IF begin /\ c \in DOMAIN d THEN {r} ELSE {}
           stay == IF begin THEN DOMAIN d \ {c} ELSE DOMAIN d
           e == [f \in stay \cup renamed \cup {c} |->
                   IF f \in renamed THEN d[c] ELSE IF f \in stay THEN d[f] ELSE <<>>]
<1> DEFINE o == InitTraceFile(b, d)
<1>1. o.files = e /\ o.log = [b EXCEPT !.renameTo = FileAfter(b), !.files = @ + 1, !.count = 0]
  BY DEF InitTraceFile
<1>2. /\ DOMAIN d \in SUBSET FileNames /\ d \in [DOMAIN d -> Seq(1 .. n)]
      /\ \A f \in DOMAIN d : f.day = 0 => f = CurrentFile(f.name)
      /\ b \in BaseLogs /\ n \in Nat /\ today \in Nat \ {0}
      /\ days \in SUBSET (1 .. today) /\ Dated(d, days)
  BY DEF Ready, DiskOf
<1>3. /\ b.name \in LogNames /\ r \in FileNames /\ b.files \in Nat /\ r.number \in Nat
      /\ r.day \in 1 .. today /\ c \in FileNames /\ c.day = 0 /\ c = CurrentFile(c.name) /\ c # r
  BY <1>2 DEF BaseLogs, FileNames, CurrentFile
<1>4. FileAfter(b) = [name |-> b.name, day |-> today, number |-> b.files]
      /\ FileAfter(b) \in FileNames
  BY <1>2, <1>3 DEF FileAfter, FileNames
<1>5. /\ o.log \in BaseLogs /\ o.log.name = b.name /\ o.log.renameTo = FileAfter(b)
      /\ o.log.files = b.files + 1
  <2>1. PICK F \in FileNames : F = FileAfter(b)
    BY <1>4
  <2>2. o.log = [name |-> b.name, day |-> b.day, count |-> 0, files |-> b.files + 1, renameTo |-> F]
    BY <1>1, <1>2, <2>1 DEF BaseLogs
  <2>3. b.name \in LogNames /\ b.day \in Nat /\ b.files + 1 \in Nat
    BY <1>2 DEF BaseLogs
  <2> HIDE DEF o
  <2> QED
    BY <2>1, <2>2, <2>3 DEF BaseLogs
<1>6. renamed \subseteq {r} /\ stay \subseteq DOMAIN d /\ DOMAIN d \subseteq stay \cup {c}
      /\ (renamed # {} => begin /\ c \in DOMAIN d) /\ <<>> \in Seq(1 .. n)
  OBVIOUS
<1>7. /\ DOMAIN e = stay \cup renamed \cup {c}
      /\ \A f \in DOMAIN e :
            e[f] = IF f \in renamed THEN d[c] ELSE IF f \in stay THEN d[f] ELSE <<>>
  OBVIOUS
<1>8. e \in DiskOf(n) /\ c \in DOMAIN e
  <2>1. DOMAIN e \in SUBSET FileNames
    BY <1>2, <1>3, <1>6, <1>7
  <2>2. e \in [DOMAIN e -> Seq(1 .. n)]
    <3> HIDE DEF renamed, stay
    <3>1. \A f \in DOMAIN e : e[f] \in Seq(1 .. n)
      BY <1>2, <1>6, <1>7
    <3> QED
      BY <3>1
  <2>3. \A f \in DOMAIN e : f.day = 0 => f = CurrentFile(f.name)
    BY <1>2, <1>3, <1>6, <1>7
  <2> HIDE DEF e
  <2> QED
    BY <1>7, <2>1, <2>2, <2>3 DEF DiskOf
<1>9. Dated(e, days)
  BY <1>2, <1>3, <1>6, <1>7 DEF Dated
<1>10. ASSUME LaterThan(r, d), LinesSurvive(d, n)
       PROVE  LaterThan(FileAfter(b), e) /\ LinesSurvive(e, n)
  <2>1. r \notin DOMAIN d
    BY <1>3, <1>10 DEF LaterThan
  <2>2. LaterThan(FileAfter(b), e)
    <3>1. \A f \in DOMAIN d : f.day = 0 \/ f.day < today \/ f.number < b.files
      <4>1. \A f \in DOMAIN d : f.day \in Nat /\ f.number \in Nat
        BY <1>2 DEF FileNames
      <4>2. \A f \in DOMAIN d : f.day = 0 \/ f.day < r.day \/ f.number < r.number
        BY <1>10 DEF LaterThan
      <4>3. r.day \in Nat /\ r.day <= today /\ today \in Nat /\ r.number < b.files
        BY <1>2, <1>3
      <4> HIDE DEF r
      <4> QED
        BY <1>3, <4>1, <4>2, <4>3
    <3>2. \A f \in DOMAIN e : f \in DOMAIN d \/ f = r \/ f = c
      BY <1>6, <1>7
    <3> QED
      BY <1>3, <1>4, <3>1, <3>2 DEF LaterThan
  <2>3. CASE begin /\ c \in DOMAIN d
    <3>1. DOMAIN e = DOMAIN d \cup {r} /\ e[r] = d[c] /\ e[c] = <<>>
          /\ \A f \in DOMAIN d : f # c => e[f] = d[f]
      BY <1>3, <2>1, <2>3
    <3> HIDE DEF e
    <3> QED
      BY <1>2, <1>10, <2>1, <2>2, <2>3, <3>1, RenamingKeeps
  <2>4. CASE c \notin DOMAIN d
    <3>1. DOMAIN e = DOMAIN d \cup {c} /\ e[c] = <<>> /\ \A f \in DOMAIN d : e[f] = d[f]
      BY <2>4
    <3> HIDE DEF e
    <3> QED
      BY <1>2, <1>10, <2>2, <2>4, <3>1, NewFileKeeps
  <2>5. CASE ~begin /\ c \in DOMAIN d
    <3>1. e = d
      BY <1>2, <2>5
    <3> QED
      BY <1>10, <2>2, <3>1
  <2> QED
    BY <2>3, <2>4, <2>5
<1>11. o.log.renameTo.day = today /\ o.log.renameTo.number < o.log.files
  BY <1>3, <1>4, <1>5
<1> HIDE DEF e, o
<1>12. LogOpens(o, b.name, n, days)
  BY <1>1, <1>5, <1>8, <1>9, <1>11 DEF LogOpens
<1>13. LaterThan(r, d) /\ LinesSurvive(d, n) => Safe(o, n)
  BY <1>1, <1>5, <1>10 DEF Safe
<1> QED
  BY <1>12, <1>13 DEF o

\* A process that is started renames nothing, and counts its files from 0: on a day without
\* names that is later than all names.
LEMMA StartingFacts ==
  ASSUME NEW name \in LogNames, NEW d, NEW n, NEW days, d \in DiskOf(n), n \in Nat,
         today \in Nat \ {0}, days \in SUBSET (1 .. today), Dated(d, days)
  PROVE  /\ LogOpens(Constructed(name, d), name, n, days)
         /\ today \notin days /\ LinesSurvive(d, n) => Safe(Constructed(name, d), n)
<1> DEFINE c == CurrentFile(name)
           b == [name |-> name, day |-> today, count |-> 0, files |-> 0, renameTo |-> c]
           e == [f \in DOMAIN d \cup {c} |-> IF f \in DOMAIN d THEN d[f] ELSE <<>>]
           o == Constructed(name, d)
<1>1. /\ DOMAIN d \in SUBSET FileNames /\ d \in [DOMAIN d -> Seq(1 .. n)]
      /\ \A f \in DOMAIN d : f.day = 0 => f = CurrentFile(f.name)
  BY DEF DiskOf
<1>2. c \in FileNames /\ c.day = 0 /\ c = CurrentFile(c.name) /\ b \in BaseLogs
  BY DEF CurrentFile, FileNames, BaseLogs
<1>3. b.name = name /\ b.day = today /\ ~(b.count > LinesPerFile)
  BY LogBounds
<1>4. o = InitTraceFile(b, d)
  BY DEF Constructed
<1>5. o.log = [b EXCEPT !.renameTo = FileAfter(b), !.files = @ + 1, !.count = 0]
  BY <1>4 DEF InitTraceFile
<1>6. o.files = e
  <2> HIDE DEF b
  <2> QED
    BY <1>3, <1>4 DEF InitTraceFile
<1>7. FileAfter(b) = [name |-> name, day |-> today, number |-> 0] /\ FileAfter(b) \in FileNames
  BY DEF FileAfter, FileNames
<1>8. o.log \in BaseLogs /\ o.log.name = name /\ o.log.renameTo = FileAfter(b) /\ o.log.files = 1
  <2>1. PICK F \in FileNames : F = FileAfter(b)
    BY <1>7
  <2>2. o.log = [name |-> name, day |-> today, count |-> 0, files |-> 1, renameTo |-> F]
    <3>1. PICK l : l = b
      OBVIOUS
    <3>2. l = [name |-> name, day |-> today, count |-> 0, files |-> 0, renameTo |-> c]
      BY <3>1
    <3>3. o.log = [l EXCEPT !.renameTo = F, !.files = @ + 1, !.count = 0]
      BY <1>5, <2>1, <3>1
    <3> HIDE DEF o, b, c
    <3>4. o.log = [name |-> name, day |-> today, count |-> 0, files |-> l.files + 1, renameTo |-> F]
      BY <3>2, <3>3
    <3>5. l.files + 1 = 1
      BY <3>2
    <3> QED
      BY <3>4, <3>5
  <2> HIDE DEF o, b, c
  <2> QED
    BY <2>1, <2>2 DEF BaseLogs
<1>9. DOMAIN e = DOMAIN d \cup {c} /\ \A f \in DOMAIN d : e[f] = d[f]
  OBVIOUS
<1>10. e \in [DOMAIN e -> Seq(1 .. n)]
  <2>1. \A f \in DOMAIN d \cup {c} : e[f] = IF f \in DOMAIN d THEN d[f] ELSE <<>>
    OBVIOUS
  <2>2. <<>> \in Seq(1 .. n) /\ \A f \in DOMAIN d : d[f] \in Seq(1 .. n)
    BY <1>1
  <2>3. \A f \in DOMAIN e : e[f] \in Seq(1 .. n)
    BY <1>9, <2>1, <2>2
  <2>4. e = [f \in DOMAIN e |-> e[f]]
    OBVIOUS
  <2> QED
    BY <2>3, <2>4
<1>11. c \notin DOMAIN d => e[c] = <<>>
  OBVIOUS
<1>12. c \in DOMAIN d => e = d
  BY <1>1
<1> HIDE DEF e, b, o
<1>13. e \in DiskOf(n) /\ Dated(e, days)
  <2>1. DOMAIN e \in SUBSET FileNames /\ \A f \in DOMAIN e : f.day = 0 => f = CurrentFile(f.name)
    BY <1>1, <1>2, <1>9
  <2>2. Dated(e, days)
    BY <1>2, <1>9 DEF Dated
  <2> QED
    BY <1>10, <2>1, <2>2 DEF DiskOf
<1>14. LinesSurvive(d, n) => LinesSurvive(e, n)
  BY <1>9, <1>11, <1>12, NewFileKeeps
<1>15. today \notin days => LaterThan(FileAfter(b), e)
  <2>1. \A f \in DOMAIN e : f.day = 0 \/ f.day \in days
    BY <1>13 DEF Dated
  <2>2. today \notin days => \A k \in days : k < today
    OBVIOUS
  <2>3. FileAfter(b).day = today
    BY <1>7
  <2> QED
    BY <2>1, <2>2, <2>3 DEF LaterThan
<1>16. o.log.renameTo.day = today /\ o.log.renameTo.number < o.log.files
  BY <1>7, <1>8
<1>17. LogOpens(o, name, n, days)
  BY <1>6, <1>8, <1>9, <1>13, <1>16 DEF LogOpens
<1>18. today \notin days /\ LinesSurvive(d, n) => Safe(o, n)
  BY <1>6, <1>8, <1>14, <1>15 DEF Safe
<1> QED
  BY <1>17, <1>18 DEF o

-----------------------------------------------------------------------------
\* The first process opens the log.
LEMMA LogFilesInitHolds == LogFilesInit => FilesInv
<1>1. SUFFICES ASSUME LogFilesInit PROVE FilesInv
  OBVIOUS
<1>2. today = 1 /\ lastLine = 0 /\ begun = {1} /\ again = FALSE
  BY <1>1 DEF LogFilesInit
<1>3. PICK d : d = <<>>
  OBVIOUS
<1>4. d \in DiskOf(0) /\ LinesSurvive(d, 0) /\ Dated(d, {})
  <2>1. DOMAIN d = {} /\ d \in [{} -> Seq(1 .. 0)]
    BY <1>3
  <2> QED
    BY <2>1 DEF DiskOf, LinesSurvive, Dated
<1>5. PICK o : o = Constructed(MainLog, d)
  OBVIOUS
<1>6. LogOpens(o, MainLog, 0, {}) /\ Safe(o, 0)
  <2>1. today \in Nat \ {0} /\ MainLog \in LogNames /\ {} \in SUBSET (1 .. today) /\ today \notin {}
    BY <1>2, LogBounds
  <2> QED
    BY <1>4, <1>5, <2>1, StartingFacts
<1>7. base = o.log /\ disk = o.files
  BY <1>1, <1>3, <1>5 DEF LogFilesInit
<1>8. Dated(disk, begun) /\ base.renameTo.day \in begun /\ begun \in SUBSET (1 .. today)
  BY <1>2, <1>6, <1>7 DEF LogOpens, Dated
<1>9. /\ base \in BaseLogs /\ base.renameTo.number < base.files /\ disk \in DiskOf(lastLine)
      /\ CurrentFile(base.name) \in DOMAIN disk
      /\ LaterThan(base.renameTo, disk) /\ LinesSurvive(disk, lastLine)
  BY <1>2, <1>6, <1>7 DEF LogOpens, Safe
<1>10. again \in BOOLEAN
  BY <1>2, Zenon
<1>11. today \in Nat \ {0} /\ lastLine \in Nat
  BY <1>2
<1> QED
  BY <1>8, <1>9, <1>10, <1>11 DEF FilesInv

\* A log that is opened and sound stays so when a line is written to it.
LEMMA LineKeeps ==
  ASSUME NEW b \in BaseLogs, NEW d \in DiskOf(lastLine), LineWritten(b, d),
         today' = today, again' = again, begun' \in SUBSET (1 .. today),
         today \in Nat \ {0}, lastLine \in Nat, again \in BOOLEAN,
         b.renameTo.day \in begun', b.renameTo.number < b.files,
         Dated(d, begun'), CurrentFile(b.name) \in DOMAIN d,
         ~again => LaterThan(b.renameTo, d) /\ LinesSurvive(d, lastLine)
  PROVE  FilesInv'
<1>1. lastLine' = lastLine + 1 /\ base' = b
      /\ disk' = [d EXCEPT ![CurrentFile(b.name)] = Append(@, lastLine + 1)]
  BY DEF LineWritten
<1>2. PICK e : e = [d EXCEPT ![CurrentFile(b.name)] = Append(@, lastLine + 1)]
  OBVIOUS
<1>3. /\ e \in DiskOf(lastLine + 1) /\ DOMAIN e = DOMAIN d
      /\ LinesSurvive(d, lastLine) => LinesSurvive(e, lastLine + 1)
  BY <1>2, LineAtTheEnd
<1>4. Dated(e, begun') /\ CurrentFile(b.name) \in DOMAIN e
      /\ (LaterThan(b.renameTo, d) => LaterThan(b.renameTo, e))
  BY <1>3 DEF Dated, LaterThan
<1> QED
  BY <1>1, <1>2, <1>3, <1>4 DEF FilesInv

\* What a step that only opens a log needs.
LEMMA OpenedKeeps ==
  ASSUME FilesInv, NEW o, NEW name, Opened(o), LogOpens(o, name, lastLine, begun),
         today' = today, lastLine' = lastLine, again' \in BOOLEAN, ~again' => Safe(o, lastLine)
  PROVE  FilesInv'
<1>1. base' = o.log /\ disk' = o.files /\ begun' = begun \cup {today}
  BY DEF Opened
<1>2. begun' \in SUBSET (1 .. today) /\ Dated(o.files, begun') /\ today \in begun'
  <2>1. begun \in SUBSET (1 .. today) /\ today \in 1 .. today
    BY DEF FilesInv
  <2>2. Dated(o.files, begun)
    BY DEF LogOpens
  <2>3. Dated(o.files, begun')
    BY <1>1, <2>2, Zenon DEF Dated
  <2> QED
    BY <1>1, <2>1, <2>3, Zenon
<1>3. today' \in Nat \ {0} /\ lastLine' \in Nat /\ again' \in BOOLEAN
  BY DEF FilesInv
<1> QED
  BY <1>1, <1>2, <1>3 DEF FilesInv, LogOpens, Safe

\* A line is written, after the file was changed if it is full or of another day.
LEMMA WriteLineKeeps ==
  ASSUME FilesInv, WriteLine
  PROVE  FilesInv'
<1> DEFINE counted == [base EXCEPT !.count = @ + 1]
<1>1. PICK b, o : b = counted /\ o = InitTraceFile(b, disk)
  OBVIOUS
<1>2. /\ b \in BaseLogs /\ b.renameTo = base.renameTo /\ b.files = base.files /\ b.name = base.name
      /\ today \in Nat \ {0} /\ lastLine \in Nat /\ again \in BOOLEAN
  BY <1>1 DEF FilesInv, BaseLogs
<1>3. LogOpens(o, b.name, lastLine, begun) /\ (~again => Safe(o, lastLine))
  <2>1. /\ Ready(b, disk, lastLine, begun)
        /\ b.renameTo.day \in begun /\ b.renameTo.number < b.files
        /\ ~again => LaterThan(b.renameTo, disk) /\ LinesSurvive(disk, lastLine)
    BY <1>2 DEF FilesInv, Ready
  <2> QED
    BY <1>1, <2>1, OpeningFacts
<1>4. CASE /\ LineWritten([o.log EXCEPT !.day = today], o.files)
           /\ begun' = begun \cup {today} /\ UNCHANGED <<today, again>>
  <2>1. PICK l : l = [o.log EXCEPT !.day = today]
    OBVIOUS
  <2>2. l \in BaseLogs /\ l.renameTo = o.log.renameTo /\ l.files = o.log.files /\ l.name = b.name
    BY <1>2, <1>3, <2>1 DEF LogOpens, BaseLogs
  <2>3. begun' \in SUBSET (1 .. today) /\ l.renameTo.day \in begun' /\ Dated(o.files, begun')
    BY <1>2, <1>3, <1>4, <2>2 DEF FilesInv, LogOpens, Dated
  <2>4. LineWritten(l, o.files)
    BY <1>4, <2>1
  <2>5. /\ o.files \in DiskOf(lastLine) /\ CurrentFile(l.name) \in DOMAIN o.files
        /\ l.renameTo.number < l.files
        /\ ~again => LaterThan(l.renameTo, o.files) /\ LinesSurvive(o.files, lastLine)
    BY <1>3, <2>2 DEF LogOpens, Safe
  <2> QED
    BY <1>2, <1>4, <2>2, <2>3, <2>4, <2>5, LineKeeps
<1>5. CASE LineWritten(b, disk) /\ UNCHANGED <<begun, today, again>>
  <2>1. /\ disk \in DiskOf(lastLine) /\ begun' \in SUBSET (1 .. today) /\ Dated(disk, begun')
        /\ b.renameTo.day \in begun' /\ b.renameTo.number < b.files
        /\ CurrentFile(b.name) \in DOMAIN disk
        /\ ~again => LaterThan(b.renameTo, disk) /\ LinesSurvive(disk, lastLine)
    BY <1>2, <1>5 DEF FilesInv
  <2> QED
    BY <1>2, <1>5, <2>1, LineKeeps
<1> QED
  BY <1>1, <1>4, <1>5 DEF WriteLine

\* Every step keeps the invariant.
LEMMA LogFilesNextHolds == FilesInv /\ [LogFilesNext]_logFileVars => FilesInv'
<1>1. SUFFICES ASSUME FilesInv, [LogFilesNext]_logFileVars PROVE FilesInv'
  OBVIOUS
<1>2. CASE UNCHANGED logFileVars
  BY <1>1, <1>2 DEF logFileVars, FilesInv
<1>3. CASE WriteLine
  BY <1>1, <1>3, WriteLineKeeps
<1>4. CASE WriteFatal
  <2>1. LineWritten(base, disk) /\ UNCHANGED <<today, begun, again>>
    BY <1>4 DEF WriteFatal
  <2>2. /\ base \in BaseLogs /\ disk \in DiskOf(lastLine)
        /\ begun' \in SUBSET (1 .. today) /\ Dated(disk, begun')
        /\ CurrentFile(base.name) \in DOMAIN disk
        /\ base.renameTo.day \in begun' /\ base.renameTo.number < base.files
        /\ today \in Nat \ {0} /\ lastLine \in Nat /\ again \in BOOLEAN
        /\ ~again => LaterThan(base.renameTo, disk) /\ LinesSurvive(disk, lastLine)
    BY <1>1, <2>1 DEF FilesInv
  <2> QED
    BY <2>1, <2>2, LineKeeps
<1>5. CASE Midnight
  BY <1>1, <1>5 DEF Midnight, FilesInv
<1>6. ASSUME NEW name \in LogNames, ChangeLog(name)
      PROVE  FilesInv'
  <2>1. PICK b, o : b = [base EXCEPT !.name = name] /\ o = InitTraceFile(b, disk)
    OBVIOUS
  <2>2. Opened(o) /\ UNCHANGED <<today, lastLine, again>>
    BY <1>6, <2>1 DEF ChangeLog
  <2>3. b \in BaseLogs /\ b.renameTo = base.renameTo /\ b.files = base.files
    BY <1>1, <2>1 DEF FilesInv, BaseLogs
  <2>4. /\ Ready(b, disk, lastLine, begun)
        /\ b.renameTo.day \in begun /\ b.renameTo.number < b.files
        /\ ~again => LaterThan(b.renameTo, disk) /\ LinesSurvive(disk, lastLine)
        /\ again \in BOOLEAN
    BY <1>1, <2>3 DEF FilesInv, Ready
  <2>5. LogOpens(o, b.name, lastLine, begun) /\ (~again => Safe(o, lastLine))
    BY <2>1, <2>4, OpeningFacts
  <2> QED
    BY <1>1, <2>2, <2>4, <2>5, OpenedKeeps
<1>7. ASSUME NEW name \in LogNames, Restart(name)
      PROVE  FilesInv'
  <2>1. PICK o : o = Constructed(name, disk)
    OBVIOUS
  <2>2. Opened(o) /\ again' = (again \/ today \in begun) /\ UNCHANGED <<today, lastLine>>
    BY <1>7, <2>1 DEF Restart
  <2>3. /\ today \in Nat \ {0} /\ lastLine \in Nat /\ again \in BOOLEAN
        /\ disk \in DiskOf(lastLine) /\ begun \in SUBSET (1 .. today) /\ Dated(disk, begun)
        /\ ~again => LinesSurvive(disk, lastLine)
    BY <1>1 DEF FilesInv
  <2>4. /\ LogOpens(o, name, lastLine, begun)
        /\ today \notin begun /\ LinesSurvive(disk, lastLine) => Safe(o, lastLine)
    BY <2>1, <2>3, StartingFacts
  <2>5. again' \in BOOLEAN /\ (~again' => ~again /\ today \notin begun)
    BY <2>2, <2>3
  <2>6. ~again' => Safe(o, lastLine)
    BY <2>3, <2>4, <2>5
  <2> QED
    BY <1>1, <2>2, <2>4, <2>5, <2>6, OpenedKeeps
<1> QED
  BY <1>1, <1>2, <1>3, <1>4, <1>5, <1>6, <1>7 DEF LogFilesNext

\* For any names, lengths of files and days, and any restarts on days that no other process has
\* made a name for, no renaming runs over a file: each line written is in one file, once.
THEOREM LinesAreNotLost == LogFilesSpec => []LogLinesSurvive
<1>1. FilesInv => LogLinesSurvive
  <2>1. SUFFICES ASSUME FilesInv, ~again PROVE LogLinesSurvive
    BY DEF LogLinesSurvive
  <2>2. LinesSurvive(disk, lastLine)
    BY <2>1 DEF FilesInv
  <2>3. ASSUME NEW k \in 1 .. lastLine
        PROVE  Cardinality({f \in DOMAIN disk : \E i \in DOMAIN disk[f] : disk[f][i] = k}) = 1
    <3>1. PICK g \in DOMAIN disk : HasLine(disk, g, k)
      BY <2>2 DEF LinesSurvive
    <3>2. {f \in DOMAIN disk : \E i \in DOMAIN disk[f] : disk[f][i] = k} = {g}
      BY <2>2, <3>1 DEF LinesSurvive, HasLine
    <3> QED
      BY <3>2, FS_Singleton
  <2> QED
    BY <2>2, <2>3 DEF LogLinesSurvive, LinesSurvive
<1> QED
  BY <1>1, LogFilesInitHolds, LogFilesNextHolds, PTL DEF LogFilesSpec

-----------------------------------------------------------------------------
(* Sockets.                                                                *)

\* A socket of the kernel that is open has a holder, only one, and nobody holds another.
SocketInv ==
  /\ holds \in [SockObjects -> Handles \cup {0}]
  /\ DOMAIN kernel = Handles
  /\ \A h \in Handles : kernel[h].kind # "none" <=> \E o \in SockObjects : holds[o] = h
  /\ \A o, q \in SockObjects : holds[o] = holds[q] /\ holds[o] # 0 => o = q

\* An object that is closed takes a free socket.
LEMMA TakingKeeps ==
  ASSUME SocketInv, NEW o \in SockObjects, NEW h \in FreeHandles, NEW k, holds[o] = 0,
         k.kind # "none", holds' = [holds EXCEPT ![o] = h], kernel' = [kernel EXCEPT ![h] = k]
  PROVE  SocketInv'
<1>1. h \in Handles /\ h # 0 /\ kernel[h].kind = "none"
  BY HandlesAndPorts DEF FreeHandles
<1>2. holds' \in [SockObjects -> Handles \cup {0}] /\ DOMAIN kernel' = Handles
  BY <1>1 DEF SocketInv
<1>3. \A q \in SockObjects : holds'[q] = IF q = o THEN h ELSE holds[q]
  BY DEF SocketInv
<1>4. \A g \in Handles : kernel'[g] = IF g = h THEN k ELSE kernel[g]
  BY DEF SocketInv
<1>5. \A q \in SockObjects : holds[q] # h
  BY <1>1 DEF SocketInv
<1>6. \A g \in Handles : kernel'[g].kind # "none" <=> \E q \in SockObjects : holds'[q] = g
  <2>1. SUFFICES ASSUME NEW g \in Handles
                 PROVE  kernel'[g].kind # "none" <=> \E q \in SockObjects : holds'[q] = g
    OBVIOUS
  <2>2. CASE g = h
    BY <1>3, <1>4, <2>2
  <2>3. CASE g # h
    <3>1. (\E q \in SockObjects : holds'[q] = g) <=> \E q \in SockObjects : holds[q] = g
      <4>1. g # 0
        BY HandlesAndPorts
      <4> QED
        BY <1>3, <2>3, <4>1
    <3> QED
      BY <1>4, <2>3, <3>1 DEF SocketInv
  <2> QED
    BY <2>2, <2>3
<1>7. \A p, q \in SockObjects : holds'[p] = holds'[q] /\ holds'[p] # 0 => p = q
  BY <1>3, <1>5 DEF SocketInv
<1> QED
  BY <1>2, <1>6, <1>7 DEF SocketInv

\* A socket is closed, and its object too.
LEMMA CloseSocketKeeps ==
  ASSUME SocketInv, NEW o \in SockObjects, CloseSocket(o)
  PROVE  SocketInv'
<1>1. PICK h \in Handles : h = holds[o] /\ h # 0
  BY DEF SocketInv, CloseSocket
<1>2. holds' = [holds EXCEPT ![o] = 0] /\ kernel' = [kernel EXCEPT ![h] = NoKernelSocket]
  BY <1>1 DEF CloseSocket
<1>3. \A q \in SockObjects : holds'[q] = IF q = o THEN 0 ELSE holds[q]
  BY <1>2 DEF SocketInv
<1>4. \A g \in Handles : kernel'[g] = IF g = h THEN NoKernelSocket ELSE kernel[g]
  BY <1>2 DEF SocketInv
<1>5. \A q \in SockObjects : q # o => holds[q] # h
  BY <1>1 DEF SocketInv
<1>6. NoKernelSocket.kind = "none"
  BY DEF NoKernelSocket
<1>7. \A g \in Handles : kernel'[g].kind # "none" <=> \E q \in SockObjects : holds'[q] = g
  <2>1. SUFFICES ASSUME NEW g \in Handles
                 PROVE  kernel'[g].kind # "none" <=> \E q \in SockObjects : holds'[q] = g
    OBVIOUS
  <2>2. g # 0
    BY HandlesAndPorts
  <2>3. CASE g = h
    <3>1. kernel'[g].kind = "none"
      BY <1>4, <1>6, <2>3
    <3>2. \A q \in SockObjects : holds'[q] # g
      BY <1>3, <1>5, <2>2, <2>3
    <3> QED
      BY <3>1, <3>2
  <2>4. CASE g # h
    <3>1. (\E q \in SockObjects : holds'[q] = g) <=> \E q \in SockObjects : holds[q] = g
      BY <1>1, <1>3, <2>2, <2>4
    <3> QED
      BY <1>4, <2>4, <3>1 DEF SocketInv
  <2> QED
    BY <2>3, <2>4
<1>8. \A p, q \in SockObjects : holds'[p] = holds'[q] /\ holds'[p] # 0 => p = q
  BY <1>3 DEF SocketInv
<1>9. holds' \in [SockObjects -> Handles \cup {0}] /\ DOMAIN kernel' = Handles
  BY <1>2 DEF SocketInv
<1> QED
  BY <1>7, <1>8, <1>9 DEF SocketInv

\* open, of any kind, takes a free socket.
LEMMA OpensKeeps ==
  ASSUME SocketInv, NEW o \in SockObjects, holds[o] = 0, NEW kind, kind # "none",
         NEW bound, NEW reuse, NEW listens, Opens(o, kind, bound, reuse, listens)
  PROVE  SocketInv'
<1>1. PICK k : k = [kind |-> kind, addr |-> bound, reuse |-> reuse, listens |-> listens]
  OBVIOUS
<1>2. PICK h \in FreeHandles : /\ holds' = [holds EXCEPT ![o] = h]
                               /\ kernel' = [kernel EXCEPT ![h] = k]
  BY <1>1 DEF Opens
<1>3. k.kind # "none"
  BY <1>1
<1> QED
  BY <1>2, <1>3, TakingKeeps

\* An open that fails leaves everything as it was.
LEMMA OpenFailsKeeps ==
  ASSUME SocketInv, NEW o, NEW kind, OpenFails(o, kind)
  PROVE  SocketInv'
BY DEF SocketInv, OpenFails

\* The opens of the classes are one or the other.
LEMMA OpeningKeeps ==
  ASSUME SocketInv, NEW addr, NEW reuse
  PROVE  /\ \A o \in Dgrams : OpenDgram(o, addr, reuse) => SocketInv'
         /\ \A o \in Streams : OpenStream(o, addr, reuse) => SocketInv'
         /\ \A o \in Streams : OpenClient(o, addr, reuse) => SocketInv'
         /\ \A o \in Acceptors : OpenAcceptor(o, addr) => SocketInv'
<1>1. /\ Dgrams \subseteq SockObjects /\ Streams \subseteq SockObjects
      /\ Acceptors \subseteq SockObjects
  BY DEF SockObjects
<1>2. "dgram" # "none" /\ "stream" # "none"
  OBVIOUS
<1>3. \A o \in Dgrams : OpenDgram(o, addr, reuse) => SocketInv'
  BY <1>1, <1>2, OpensKeeps, OpenFailsKeeps DEF OpenDgram
<1>4. \A o \in Streams : OpenStream(o, addr, reuse) => SocketInv'
  BY <1>1, <1>2, OpensKeeps, OpenFailsKeeps DEF OpenStream
<1>5. \A o \in Streams : OpenClient(o, addr, reuse) => SocketInv'
  BY <1>1, <1>2, OpensKeeps, OpenFailsKeeps DEF OpenClient
<1>6. \A o \in Acceptors : OpenAcceptor(o, addr) => SocketInv'
  BY <1>1, <1>2, OpensKeeps, OpenFailsKeeps DEF OpenAcceptor
<1> QED
  BY <1>3, <1>4, <1>5, <1>6

\* accept takes a free socket, for a stream that is closed.
LEMMA AcceptStreamKeeps ==
  ASSUME SocketInv, NEW a \in Acceptors, NEW o \in Streams, AcceptStream(a, o)
  PROVE  SocketInv'
<1>1. a \in SockObjects /\ o \in SockObjects
  BY DEF SockObjects
<1>2. PICK k : k = [kernel[holds[a]] EXCEPT !.listens = FALSE]
  OBVIOUS
<1>3. k.kind # "none"
  <2>1. holds[a] \in Handles /\ kernel[holds[a]].kind # "none"
    BY <1>1 DEF SocketInv, AcceptStream
  <2>2. k.kind = kernel[holds[a]].kind
    BY <1>2
  <2> QED
    BY <2>1, <2>2
<1>4. PICK h \in FreeHandles : /\ holds' = [holds EXCEPT ![o] = h]
                               /\ kernel' = [kernel EXCEPT ![h] = k]
  BY <1>2 DEF AcceptStream
<1> QED
  BY <1>1, <1>3, <1>4, TakingKeeps DEF AcceptStream

\* connect changes only the address of a socket that is held.
LEMMA ConnectStreamKeeps ==
  ASSUME SocketInv, NEW o \in Streams, NEW remote, ConnectStream(o, remote)
  PROVE  SocketInv'
<1>1. PICK b : kernel' = [kernel EXCEPT ![holds[o]].addr = b]
  BY DEF ConnectStream
<1>2. holds' = holds
  BY DEF ConnectStream
<1>3. DOMAIN kernel' = Handles /\ \A g \in Handles : kernel'[g].kind = kernel[g].kind
  BY <1>1 DEF SocketInv
<1> QED
  BY <1>2, <1>3 DEF SocketInv

\* Nothing is open at first.
LEMMA SocketsInitHolds == SocketsInit => SocketInv
<1>1. SUFFICES ASSUME SocketsInit PROVE SocketInv
  OBVIOUS
<1>2. /\ \A o \in SockObjects : holds[o] = 0
      /\ \A h \in Handles : kernel[h].kind = "none" /\ h # 0
  BY <1>1, HandlesAndPorts DEF SocketsInit, NoKernelSocket
<1>3. holds \in [SockObjects -> Handles \cup {0}] /\ DOMAIN kernel = Handles
  BY <1>1 DEF SocketsInit
<1> QED
  BY <1>2, <1>3 DEF SocketInv

\* Every step keeps the invariant.
LEMMA SocketsNextHolds == SocketInv /\ [SocketsNext]_sockVars => SocketInv'
<1>1. SUFFICES ASSUME SocketInv, [SocketsNext]_sockVars PROVE SocketInv'
  OBVIOUS
<1>2. CASE UNCHANGED sockVars
  BY <1>1, <1>2 DEF sockVars, SocketInv
<1>3. ASSUME NEW addr, NEW reuse, NEW o \in Dgrams, OpenDgram(o, addr, reuse)
      PROVE  SocketInv'
  BY <1>1, <1>3, OpeningKeeps
<1>4. ASSUME NEW addr, NEW reuse, NEW o \in Streams,
             OpenStream(o, addr, reuse) \/ OpenClient(o, addr, reuse)
      PROVE  SocketInv'
  BY <1>1, <1>4, OpeningKeeps
<1>5. ASSUME NEW addr, NEW o \in Acceptors, OpenAcceptor(o, addr)
      PROVE  SocketInv'
  BY <1>1, <1>5, OpeningKeeps
<1>6. ASSUME NEW addr, NEW o \in Streams, ConnectStream(o, addr)
      PROVE  SocketInv'
  BY <1>1, <1>6, ConnectStreamKeeps
<1>7. ASSUME NEW o \in SockObjects, CloseSocket(o) PROVE SocketInv'
  BY <1>1, <1>7, CloseSocketKeeps
<1>8. ASSUME NEW a \in Acceptors, NEW o \in Streams, AcceptStream(a, o) PROVE SocketInv'
  BY <1>1, <1>8, AcceptStreamKeeps
<1> QED
  BY <1>1, <1>2, <1>3, <1>4, <1>5, <1>6, <1>7, <1>8 DEF SocketsNext

\* For any objects, sockets, addresses and failures of the system, every socket that the kernel
\* has open is held by one object, and an object that is open holds one.
THEOREM SocketsAreHeld == SocketsSpec => []SocketsHaveHolders
<1>1. SocketInv => SocketsHaveHolders
  <2>1. SUFFICES ASSUME SocketInv, NEW h \in Handles
                 PROVE  Cardinality({o \in SockObjects : holds[o] = h}) =
                          IF kernel[h].kind = "none" THEN 0 ELSE 1
    BY DEF SocketsHaveHolders
  <2>2. h # 0
    BY HandlesAndPorts
  <2>3. CASE kernel[h].kind = "none"
    <3>1. {o \in SockObjects : holds[o] = h} = {}
      BY <2>1, <2>3 DEF SocketInv
    <3> QED
      BY <2>3, <3>1, FS_EmptySet
  <2>4. CASE kernel[h].kind # "none"
    <3>1. PICK o \in SockObjects : holds[o] = h
      BY <2>1, <2>4 DEF SocketInv
    <3>2. {q \in SockObjects : holds[q] = h} = {o}
      BY <2>1, <2>2, <3>1 DEF SocketInv
    <3> QED
      BY <2>4, <3>2, FS_Singleton
  <2> QED
    BY <2>3, <2>4
<1> QED
  BY <1>1, SocketsInitHolds, SocketsNextHolds, PTL DEF SocketsSpec

-----------------------------------------------------------------------------
(* Time values.                                                            *)

\* The values in order, which have a single form each.
OrderedTimes == [sec : Nat, usec : 0 .. SecondUsecs - 1]

\* How the last operation made the value out of the one before.
TimeIsComputed ==
  /\ before.op = "plus"  => ToUsec(time) = ToUsec(before.value) + before.with
  /\ before.op = "minus" => ToUsec(time) = IF ToUsec(before.value) < before.with THEN 0
                                           ELSE ToUsec(before.value) - before.with

\* What is done to a value.
Operations == {"none", "plus", "minus", "increase", "set"}

\* Values in order, and made as the last operation says.
TimeInv ==
  /\ time \in OrderedTimes
  /\ before \in [op : Operations, with : Nat, value : OrderedTimes]
  /\ TimeIsComputed

\* A number is its quotient and its remainder.
LEMMA Divided ==
  ASSUME NEW us \in Nat
  PROVE  /\ us \div SecondUsecs \in Nat /\ us % SecondUsecs \in 0 .. SecondUsecs - 1
         /\ us = (us \div SecondUsecs) * SecondUsecs + (us % SecondUsecs)
<1>1. PICK w \in Nat \ {0} : w = SecondUsecs
  BY TimesArePositive
<1>2. PICK q, r : q = us \div w /\ r = us % w
  OBVIOUS
<1>3. q \in Nat /\ r \in 0 .. w - 1 /\ us = w * q + r
  BY <1>2
<1>4. w * q = q * w
  BY <1>3
<1> QED
  BY <1>1, <1>2, <1>3, <1>4

\* Two values in order that come to the same microseconds are the same.
LEMMA OneForm ==
  ASSUME NEW t \in OrderedTimes, NEW u \in OrderedTimes
  PROVE  ToUsec(t) \in Nat /\ (Same(t, u) \/ Less(t, u) \/ Less(u, t))
<1>1. PICK w \in Nat \ {0} : w = SecondUsecs
  BY TimesArePositive
<1>2. PICK a \in Nat, b \in Nat, x \in 0 .. w - 1, y \in 0 .. w - 1 :
        a = t.sec /\ b = u.sec /\ x = t.usec /\ y = u.usec
  BY <1>1 DEF OrderedTimes
<1>3. ToUsec(t) = a * w + x /\ ToUsec(u) = b * w + y /\ a * w \in Nat /\ b * w \in Nat
  BY <1>1, <1>2 DEF ToUsec
<1>4. ASSUME a >= b + 1 PROVE a * w + x > b * w + y
  <2>1. a * w >= (b + 1) * w /\ (b + 1) * w = b * w + w
    BY <1>4
  <2> QED
    BY <1>3, <2>1
<1>5. ASSUME b >= a + 1 PROVE b * w + y > a * w + x
  <2>1. b * w >= (a + 1) * w /\ (a + 1) * w = a * w + w
    BY <1>5
  <2> QED
    BY <1>3, <2>1
<1>6. ASSUME a = b PROVE x = y \/ a * w + x < b * w + y \/ b * w + y < a * w + x
  BY <1>3, <1>6
<1>7. a = b \/ a >= b + 1 \/ b >= a + 1
  OBVIOUS
<1> QED
  BY <1>2, <1>3, <1>4, <1>5, <1>6, <1>7 DEF Same, Less

\* Made of microseconds, a value is in order and comes to them.
LEMMA MadeOfUsecs ==
  ASSUME NEW us \in Nat
  PROVE  FromUsec(us) \in OrderedTimes /\ ToUsec(FromUsec(us)) = us
<1>1. PICK q \in Nat, r \in 0 .. SecondUsecs - 1 :
        /\ q = us \div SecondUsecs /\ r = us % SecondUsecs
        /\ us = q * SecondUsecs + r
  BY Divided, Zenon
<1>2. FromUsec(us) = [sec |-> q, usec |-> r]
  BY <1>1 DEF FromUsec
<1>3. FromUsec(us) \in OrderedTimes
  BY <1>2 DEF OrderedTimes
<1>4. ToUsec(FromUsec(us)) = q * SecondUsecs + r
  BY <1>2 DEF ToUsec
<1> QED
  BY <1>1, <1>3, <1>4

\* What += makes is in order.
LEMMA IncreaseMakes ==
  ASSUME NEW t \in OrderedTimes, NEW us \in Nat, NEW own, own = t.usec + t.usec, NEW u,
         u = [sec |-> t.sec + us \div SecondUsecs + own \div SecondUsecs,
              usec |-> own % SecondUsecs]
  PROVE  u \in OrderedTimes
<1>1. PICK w \in Nat \ {0} : w = SecondUsecs
  BY TimesArePositive
<1>2. PICK a \in Nat, x \in 0 .. w - 1 : a = t.sec /\ x = t.usec
  BY <1>1 DEF OrderedTimes
<1>3. PICK q \in Nat, r \in 0 .. w - 1 : q = us \div w /\ r = us % w /\ us = q * w + r
  BY <1>1, Divided
<1>4. PICK p \in Nat, s \in 0 .. w - 1 : p = own \div w /\ s = own % w /\ own = p * w + s
  <2>1. own \in Nat
    BY <1>2
  <2> QED
    BY <1>1, <2>1, Divided
<1>5. PICK n \in Nat : n = a + q + p
  OBVIOUS
<1>6. u = [sec |-> n, usec |-> s]
  BY <1>1, <1>2, <1>3, <1>4, <1>5
<1>7. u \in OrderedTimes
  BY <1>1, <1>6 DEF OrderedTimes
<1> QED
  BY <1>7

\* What an operation computes is in order, and made of the value before.
LEMMA ComputedKeeps ==
  ASSUME TimeInv, NEW op \in Operations, NEW us \in Nat,
         NEW u \in OrderedTimes, Computed(op, us, u),
         op = "plus" => ToUsec(u) = ToUsec(time) + us,
         op = "minus" => ToUsec(u) = IF ToUsec(time) < us THEN 0 ELSE ToUsec(time) - us
  PROVE  TimeInv'
<1>1. time' = u /\ before' = [op |-> op, with |-> us, value |-> time]
  BY DEF Computed
<1>2. before'.op = op /\ before'.with = us /\ before'.value = time
  BY <1>1
<1>3. ToUsec(time)' = ToUsec(u) /\ ToUsec(before.value)' = ToUsec(time)
  BY <1>1, <1>2 DEF ToUsec
<1>4. before' \in [op : Operations, with : Nat, value : OrderedTimes]
  BY <1>1 DEF TimeInv
<1>5. TimeIsComputed'
  BY <1>2, <1>3 DEF TimeIsComputed
<1> QED
  BY <1>1, <1>4, <1>5 DEF TimeInv

\* Every operation keeps the invariant.
LEMMA TimeNextHolds == TimeInv /\ [TimeNext]_timeVars => TimeInv'
<1>1. SUFFICES ASSUME TimeInv, [TimeNext]_timeVars PROVE TimeInv'
  OBVIOUS
<1>2. time \in OrderedTimes /\ ToUsec(time) \in Nat
  BY <1>1, OneForm DEF TimeInv
<1>3. CASE UNCHANGED timeVars
  BY <1>1, <1>3 DEF timeVars, TimeInv, TimeIsComputed, ToUsec
<1>4. ASSUME NEW us \in Nat, Subtract(us) PROVE TimeInv'
  <2>1. PICK n \in Nat : n = IF ToUsec(time) < us THEN 0 ELSE ToUsec(time) - us
    BY <1>2
  <2>2. FromUsec(n) \in OrderedTimes /\ ToUsec(FromUsec(n)) = n
    BY MadeOfUsecs
  <2>3. Computed("minus", us, FromUsec(n))
    BY <1>4, <2>1 DEF Subtract
  <2> QED
    BY <1>1, <2>1, <2>2, <2>3, ComputedKeeps DEF Operations
<1>5. ASSUME NEW us \in Nat, Plus(us) PROVE TimeInv'
  <2>1. PICK n \in Nat : n = ToUsec(time) + us
    BY <1>2
  <2>2. FromUsec(n) \in OrderedTimes /\ ToUsec(FromUsec(n)) = n
    BY MadeOfUsecs
  <2>3. Computed("plus", us, FromUsec(n))
    BY <1>5, <2>1 DEF Plus
  <2> QED
    BY <1>1, <2>1, <2>2, <2>3, ComputedKeeps DEF Operations
<1>6. ASSUME NEW us \in Nat, Increase(us) PROVE TimeInv'
  <2>1. PICK own : own = time.usec + time.usec
    OBVIOUS
  <2>2. PICK u : u = [sec |-> time.sec + us \div SecondUsecs + own \div SecondUsecs,
                      usec |-> own % SecondUsecs]
    OBVIOUS
  <2>3. Computed("increase", us, u)
    BY <1>6, <2>1, <2>2 DEF Increase
  <2>4. u \in OrderedTimes
    BY <1>2, <2>1, <2>2, IncreaseMakes
  <2> QED
    BY <1>1, <2>3, <2>4, ComputedKeeps DEF Operations
<1>7. ASSUME NEW us \in Nat, SetNow(us) PROVE TimeInv'
  <2>1. FromUsec(us) \in OrderedTimes
    BY MadeOfUsecs
  <2> QED
    BY <1>1, <1>7, <2>1, ComputedKeeps DEF SetNow, Operations
<1> QED
  BY <1>1, <1>3, <1>4, <1>5, <1>6, <1>7, TimesArePositive DEF TimeNext

\* For any length of a second and any operands, values are in order, after += as well, and what
\* + and - compute is exact.
THEOREM TimesAreExact == TimeSpec => []TimeIsExact
<1>1. TimeInit => TimeInv
  <2>1. SUFFICES ASSUME TimeInit PROVE TimeInv
    OBVIOUS
  <2>2. FromUsec(0) \in OrderedTimes
    BY MadeOfUsecs
  <2>3. before = [op |-> "none", with |-> 0, value |-> FromUsec(0)]
    BY <2>1 DEF TimeInit
  <2>4. before.op = "none"
    BY <2>3
  <2> QED
    BY <2>1, <2>2, <2>3, <2>4 DEF TimeInit, TimeInv, TimeIsComputed, Operations
<1>2. TimeInv => TimeIsExact
  <2>1. SUFFICES ASSUME TimeInv PROVE TimeIsExact
    OBVIOUS
  <2>2. time \in OrderedTimes /\ before.value \in OrderedTimes
    BY <2>1 DEF TimeInv
  <2>3. time.usec < SecondUsecs
    BY <2>2, TimesArePositive DEF OrderedTimes
  <2>4. Same(time, before.value) \/ Less(time, before.value) \/ Less(before.value, time)
    BY <2>2, OneForm
  <2> QED
    BY <2>1, <2>3, <2>4 DEF TimeIsExact, TimeInv, TimeIsComputed
<1> QED
  BY <1>1, <1>2, TimeNextHolds, PTL DEF TimeSpec

-----------------------------------------------------------------------------
(* The socket buffers: for any capacities, packet sizes and number of      *)
(* packets, and any number of bytes that the socket takes or gives.        *)

\* The sizes that realloc_buffer goes through.
IsDoubling(f, first, size) == f = [n \in 0 .. size |-> IF n = 0 THEN first ELSE 2 * f[n - 1]]

LEMMA DoublingExists ==
  ASSUME NEW first \in Nat, NEW size \in Nat
  PROVE  \E f : IsDoubling(f, first, size)
<1> DEFINE Bad == {n \in Nat : ~ \E f : IsDoubling(f, first, n)}
<1>1. SUFFICES Bad = {}
  OBVIOUS
<1>2. SUFFICES ASSUME Bad # {} PROVE FALSE
  OBVIOUS
<1>3. PICK k \in Bad : \A j \in Bad : k <= j
  <2>1. Bad \in SUBSET Nat
    OBVIOUS
  <2> QED
    BY <1>2, <2>1, Smallest
<1>4. k # 0
  <2>1. IsDoubling([n \in 0 .. 0 |-> first], first, 0)
    BY DEF IsDoubling
  <2> QED
    BY <2>1
<1>5. k - 1 \in Nat /\ k - 1 \notin Bad
  BY <1>3, <1>4
<1>6. PICK f : IsDoubling(f, first, k - 1)
  BY <1>5
<1> DEFINE g == [n \in 0 .. k |-> IF n = k THEN 2 * f[k - 1] ELSE f[n]]
<1>7. IsDoubling(g, first, k)
  <2>1. ASSUME NEW n \in 0 .. k PROVE g[n] = IF n = 0 THEN first ELSE 2 * g[n - 1]
    <3>1. CASE n = 0
      BY <3>1, <1>4, <1>5, <1>6 DEF IsDoubling
    <3>2. CASE n # 0 /\ n = k
      BY <3>2, <1>5
    <3>3. CASE n # 0 /\ n # k
      <4>1. n \in 0 .. k - 1 /\ n - 1 \in 0 .. k - 1 /\ n - 1 # k
        BY <3>3
      <4>2. f[n] = 2 * f[n - 1]
        BY <4>1, <3>3, <1>6 DEF IsDoubling
      <4>3. g[n] = f[n] /\ g[n - 1] = f[n - 1]
        BY <4>1, <3>3
      <4> QED
        BY <4>2, <4>3, <3>3
    <3> QED
      BY <3>1, <3>2, <3>3
  <2>2. g = [n \in 0 .. k |-> g[n]]
    OBVIOUS
  <2> HIDE DEF g
  <2> QED
    BY <2>1, <2>2 DEF IsDoubling
<1> QED
  BY <1>7, <1>3

LEMMA DoublingGrows ==
  ASSUME NEW first \in Nat \ {0}, NEW size \in Nat, NEW f, IsDoubling(f, first, size)
  PROVE  \A n \in 0 .. size : f[n] \in Nat /\ f[n] >= first + n /\ (n > 0 => f[n] >= 2 * first)
<1> DEFINE Good(n) == f[n] \in Nat /\ f[n] >= first + n /\ (n > 0 => f[n] >= 2 * first)
<1> DEFINE Bad == {n \in 0 .. size : ~ Good(n)}
<1>1. SUFFICES ASSUME Bad # {} PROVE FALSE
  OBVIOUS
<1>2. PICK k \in Bad : \A j \in Bad : k <= j
  <2>1. Bad \in SUBSET Nat
    OBVIOUS
  <2> QED
    BY <1>1, <2>1, Smallest
<1>3. f[0] = first
  BY DEF IsDoubling
<1>4. k # 0
  BY <1>2, <1>3
<1>5. k - 1 \in 0 .. size /\ Good(k - 1)
  <2>1. k - 1 \in 0 .. size /\ ~ (k <= k - 1)
    BY <1>4, <1>2
  <2> QED
    BY <2>1, <1>2
<1>6. f[k] = 2 * f[k - 1]
  BY <1>4, <1>2 DEF IsDoubling
<1>7. Good(k)
  <2>1. f[k - 1] \in Nat /\ f[k - 1] >= first + (k - 1)
    BY <1>5
  <2>2. k \in Nat /\ k > 0
    BY <1>4, <1>2
  <2> QED
    BY <1>6, <2>1, <2>2
<1> QED
  BY <1>7, <1>2

-----------------------------------------------------------------------------
IsFlattening(f, ss) == f = [i \in 1 .. Len(ss) |-> IF i = 1 THEN ss[i] ELSE f[i - 1] \o ss[i]]

LEMMA FlatteningExists ==
  ASSUME NEW S, NEW ss \in Seq(S)
  PROVE  \E f : IsFlattening(f, ss)
<1> DEFINE Partial(f, n) == f = [i \in 1 .. n |-> IF i = 1 THEN ss[i] ELSE f[i - 1] \o ss[i]]
<1> DEFINE Bad == {n \in Nat : ~ \E f : Partial(f, n)}
<1>1. SUFFICES Bad = {}
  <2>1. Len(ss) \in Nat
    OBVIOUS
  <2> QED
    BY <2>1 DEF IsFlattening
<1>2. SUFFICES ASSUME Bad # {} PROVE FALSE
  OBVIOUS
<1>3. PICK k \in Bad : \A j \in Bad : k <= j
  <2>1. Bad \in SUBSET Nat
    OBVIOUS
  <2> QED
    BY <1>2, <2>1, Smallest
<1>4. k # 0
  <2>1. Partial([i \in 1 .. 0 |-> ss], 0)
    OBVIOUS
  <2> QED
    BY <2>1
<1>5. k - 1 \in Nat /\ k - 1 \notin Bad
  <2>1. k \in Nat /\ k - 1 \in Nat /\ ~ (k <= k - 1)
    BY <1>3, <1>4
  <2> HIDE DEF Bad
  <2> QED
    BY <2>1, <1>3
<1>6. PICK f : Partial(f, k - 1)
  BY <1>5
<1> DEFINE g == [i \in 1 .. k |-> IF i # k THEN f[i]
                                  ELSE IF i = 1 THEN ss[i] ELSE f[i - 1] \o ss[i]]
<1>7. Partial(g, k)
  <2>1. ASSUME NEW i \in 1 .. k PROVE g[i] = IF i = 1 THEN ss[i] ELSE g[i - 1] \o ss[i]
    <3>1. CASE i = k
      <4>1. i # 1 => g[i - 1] = f[i - 1]
        BY <3>1
      <4> QED
        BY <3>1, <4>1
    <3>2. CASE i # k
      <4>1. i \in 1 .. k - 1 /\ g[i] = f[i]
        BY <3>2
      <4>2. f[i] = IF i = 1 THEN ss[i] ELSE f[i - 1] \o ss[i]
        BY <4>1, <1>6
      <4>3. i # 1 => g[i - 1] = f[i - 1]
        BY <4>1
      <4> QED
        BY <4>1, <4>2, <4>3
    <3> QED
      BY <3>1, <3>2
  <2>2. g = [i \in 1 .. k |-> g[i]]
    OBVIOUS
  <2> HIDE DEF g
  <2> QED
    BY <2>1, <2>2
<1> QED
  BY <1>7, <1>3

LEMMA FlattenIs ==
  ASSUME NEW S, NEW ss \in Seq(S), ss # <<>>
  PROVE  \E f : IsFlattening(f, ss) /\ FlattenSeq(ss) = f[Len(ss)]
<1> DEFINE f == CHOOSE f : IsFlattening(f, ss)
<1>1. IsFlattening(f, ss)
  BY FlatteningExists
<1>2. Len(ss) # 0
  BY EmptySeq
<1>3. FlattenSeq(ss) = f[Len(ss)]
  BY <1>2 DEF FlattenSeq, IsFlattening
<1> QED
  BY <1>1, <1>3

LEMMA FlatteningType ==
  ASSUME NEW S, NEW ss \in Seq(Seq(S)), NEW f, IsFlattening(f, ss)
  PROVE  \A i \in 1 .. Len(ss) : f[i] \in Seq(S)
<1> DEFINE Bad == {i \in 1 .. Len(ss) : f[i] \notin Seq(S)}
<1>1. SUFFICES ASSUME Bad # {} PROVE FALSE
  OBVIOUS
<1>2. PICK k \in Bad : \A j \in Bad : k <= j
  <2>1. Bad \in SUBSET Nat
    OBVIOUS
  <2> QED
    BY <1>1, <2>1, Smallest
<1>3. f[k] = IF k = 1 THEN ss[k] ELSE f[k - 1] \o ss[k]
  BY <1>2 DEF IsFlattening
<1>4. ss[k] \in Seq(S)
  BY <1>2
<1>5. k # 1
  BY <1>2, <1>3, <1>4
<1>6. k - 1 \in 1 .. Len(ss) /\ ~ (k <= k - 1)
  BY <1>5, <1>2
<1>7. f[k - 1] \in Seq(S)
  BY <1>6, <1>2
<1>8. f[k - 1] \o ss[k] \in Seq(S)
  BY <1>7, <1>4, ConcatProperties
<1> QED
  BY <1>8, <1>5, <1>3, <1>2

LEMMA FlattenInSeq ==
  ASSUME NEW S, NEW ss \in Seq(Seq(S))
  PROVE  FlattenSeq(ss) \in Seq(S)
<1>1. CASE ss = <<>>
  BY <1>1 DEF FlattenSeq
<1>2. CASE ss # <<>>
  <2>1. PICK f : IsFlattening(f, ss) /\ FlattenSeq(ss) = f[Len(ss)]
    BY <1>2, FlattenIs
  <2>2. Len(ss) \in 1 .. Len(ss)
    BY <1>2
  <2> QED
    BY <2>1, <2>2, FlatteningType
<1> QED
  BY <1>1, <1>2

LEMMA FlattenAppends ==
  ASSUME NEW S, NEW ss \in Seq(Seq(S)), NEW s \in Seq(S)
  PROVE  FlattenSeq(Append(ss, s)) = FlattenSeq(ss) \o s
<1> DEFINE tt == Append(ss, s)
<1>1. /\ tt \in Seq(Seq(S)) /\ tt # <<>> /\ Len(tt) = Len(ss) + 1
      /\ \A i \in 1 .. Len(ss) : tt[i] = ss[i]
      /\ tt[Len(ss) + 1] = s
  BY AppendProperties
<1> HIDE DEF tt
<1>2. PICK f : IsFlattening(f, tt) /\ FlattenSeq(tt) = f[Len(tt)]
  BY <1>1, FlattenIs
<1>3. CASE ss = <<>>
  <2>1. FlattenSeq(tt) = s
    BY <1>1, <1>2, <1>3 DEF IsFlattening
  <2>2. FlattenSeq(ss) = <<>>
    BY <1>3 DEF FlattenSeq
  <2> QED
    BY <2>1, <2>2, ConcatEmptySeq DEF tt
<1>4. CASE ss # <<>>
  <2>1. PICK g : IsFlattening(g, ss) /\ FlattenSeq(ss) = g[Len(ss)]
    BY <1>4, FlattenIs
  <2> DEFINE Bad == {i \in 1 .. Len(ss) : f[i] # g[i]}
  <2>2. Bad = {}
    <3>1. SUFFICES ASSUME Bad # {} PROVE FALSE
      OBVIOUS
    <3>2. PICK k \in Bad : \A j \in Bad : k <= j
      <4>1. Bad \in SUBSET Nat
        OBVIOUS
      <4> QED
        BY <3>1, <4>1, Smallest
    <3>3. k \in 1 .. Len(ss) /\ k \in 1 .. Len(tt)
      BY <3>2, <1>1
    <3>4. f[k] = IF k = 1 THEN ss[k] ELSE f[k - 1] \o ss[k]
      <4>1. f[k] = IF k = 1 THEN tt[k] ELSE f[k - 1] \o tt[k]
        BY <3>3, <1>2 DEF IsFlattening
      <4> QED
        BY <4>1, <3>3, <1>1
    <3>5. g[k] = IF k = 1 THEN ss[k] ELSE g[k - 1] \o ss[k]
      BY <3>3, <2>1 DEF IsFlattening
    <3>6. k # 1
      BY <3>2, <3>4, <3>5
    <3>7. k - 1 \in 1 .. Len(ss) /\ ~ (k <= k - 1)
      BY <3>6, <3>3
    <3>8. f[k - 1] = g[k - 1]
      BY <3>7, <3>2
    <3> QED
      BY <3>2, <3>4, <3>5, <3>8
  <2>3. Len(ss) \in 1 .. Len(ss) /\ Len(tt) \in 1 .. Len(tt) /\ Len(tt) # 1 /\ Len(tt) - 1 = Len(ss)
    BY <1>1, <1>4
  <2>4. f[Len(ss)] = g[Len(ss)]
    BY <2>2, <2>3
  <2>5. f[Len(tt)] = f[Len(ss)] \o s
    BY <2>3, <1>2, <1>1 DEF IsFlattening
  <2> QED
    BY <2>1, <2>4, <2>5, <1>2 DEF tt
<1> QED
  BY <1>3, <1>4

-----------------------------------------------------------------------------
\* The socket buffers.

PacketBytes == [head : Nat, at : Nat] \cup [packet : Nat, at : Nat]

Buffers == [data : Seq(PacketBytes), size : Nat]

\* A buffer that grows keeps its data; when size bytes were missing there is room for them.
LEMMA GrownKeepsData ==
  ASSUME NEW b \in Buffers, NEW size \in Nat, b.size > 0, Len(b.data) <= b.size
  PROVE  /\ Grown(b, size) \in Buffers
         /\ Grown(b, size).data = b.data
         /\ Grown(b, size).size >= 2 * b.size
         /\ Grown(b, size).size - Len(b.data) >= size
<1>0. b.size \in Nat \ {0} /\ b.data \in Seq(PacketBytes) /\ b = [data |-> b.data, size |-> b.size]
      /\ Len(b.data) \in Nat
  BY DEF Buffers
<1> DEFINE f == CHOOSE f : IsDoubling(f, b.size, size)
           Enough(n) == f[n] - Len(b.data) >= size
           times == CHOOSE n \in 1 .. size : Enough(n) /\ \A m \in 1 .. n - 1 : ~Enough(m)
           new == IF size = 0 THEN 2 * b.size ELSE f[times]
<1>1. IsDoubling(f, b.size, size)
  BY <1>0, DoublingExists
<1>2. Grown(b, size) = [b EXCEPT !.size = new]
  BY DEF Grown, IsDoubling
<1> HIDE DEF f
<1>3. \A n \in 0 .. size : f[n] \in Nat /\ f[n] >= b.size + n /\ (n > 0 => f[n] >= 2 * b.size)
  BY <1>0, <1>1, DoublingGrows
<1>4. new \in Nat /\ new >= 2 * b.size /\ new - Len(b.data) >= size
  <2>1. CASE size = 0
    BY <2>1, <1>0
  <2>2. CASE size # 0
    <3>1. \E n \in 1 .. size : Enough(n) /\ \A m \in 1 .. n - 1 : ~Enough(m)
      <4> DEFINE Large == {n \in 1 .. size : Enough(n)}
      <4>1. size \in Large
        <5>1. size \in 1 .. size /\ size \in 0 .. size
          BY <2>2
        <5>2. f[size] \in Nat /\ f[size] >= b.size + size
          BY <5>1, <1>3
        <5> QED
          BY <5>1, <5>2, <1>0
      <4>2. PICK n \in Large : \A j \in Large : n <= j
        <5>1. Large \in SUBSET Nat /\ Large # {}
          BY <4>1
        <5> QED
          BY <5>1, Smallest
      <4>3. ASSUME NEW m \in 1 .. n - 1 PROVE ~Enough(m)
        <5>1. m \in 1 .. size /\ ~ (n <= m)
          BY <4>2
        <5> QED
          BY <5>1, <4>2
      <4>4. n \in 1 .. size /\ Enough(n)
        BY <4>2
      <4> HIDE DEF Enough
      <4> QED
        BY <4>3, <4>4
    <3>2. times \in 1 .. size /\ Enough(times)
      <4> HIDE DEF Enough
      <4> QED
        BY <3>1
    <3> HIDE DEF times
    <3>3. times \in 0 .. size /\ times > 0
      BY <3>2
    <3> QED
      BY <3>2, <3>3, <1>3, <2>2
  <2> QED
    BY <2>1, <2>2
<1> HIDE DEF new
<1>5. Grown(b, size) = [data |-> b.data, size |-> new]
  BY <1>2, <1>0
<1> QED
  BY <1>4, <1>5, <1>0 DEF Buffers

\* A packet with its header, and its first bytes.
LEMMA FramedIs ==
  ASSUME NEW n \in Nat, NEW size \in Nat
  PROVE  /\ Header(size) \in Seq(PacketBytes) /\ Len(Header(size)) = HeaderSize
         /\ Body(n, size) \in Seq(PacketBytes) /\ Len(Body(n, size)) = size
         /\ Framed(n, size) \in Seq(PacketBytes) /\ Len(Framed(n, size)) = HeaderSize + size
         /\ Framed(n, size)[1] = [head |-> size, at |-> 1]
<1>0. HeaderSize \in Nat \ {0}
  BY BuffersGrow
<1>1. Header(size) \in Seq(PacketBytes) /\ Len(Header(size)) = HeaderSize
  BY <1>0 DEF Header, PacketBytes
<1>2. Body(n, size) \in Seq(PacketBytes) /\ Len(Body(n, size)) = size
  BY DEF Body, PacketBytes
<1>3. Header(size)[1] = [head |-> size, at |-> 1]
  BY <1>0 DEF Header
<1>4. /\ Framed(n, size) \in Seq(PacketBytes) /\ Len(Framed(n, size)) = HeaderSize + size
      /\ Framed(n, size)[1] = Header(size)[1]
  <2>1. 1 \in 1 .. HeaderSize + size /\ 1 <= HeaderSize
    BY <1>0
  <2>2. /\ Header(size) \o Body(n, size) \in Seq(PacketBytes)
        /\ Len(Header(size) \o Body(n, size)) = Len(Header(size)) + Len(Body(n, size))
        /\ \A i \in 1 .. Len(Header(size)) + Len(Body(n, size)) :
             (Header(size) \o Body(n, size))[i] =
               IF i <= Len(Header(size)) THEN Header(size)[i]
               ELSE Body(n, size)[i - Len(Header(size))]
    BY <1>1, <1>2, ConcatProperties
  <2> QED
    BY <2>1, <2>2, <1>1, <1>2 DEF Framed
<1> QED
  BY <1>1, <1>2, <1>3, <1>4

\* PacketBytes are put together in any order.
LEMMA ThreeParts ==
  \A s, t, u \in Seq(PacketBytes) : s \o (t \o u) = (s \o t) \o u
<1> TAKE s, t, u \in Seq(PacketBytes)
<1>1. (s \o t) \o u = s \o (t \o u)
  <2>1. s \in Seq(PacketBytes) /\ t \in Seq(PacketBytes) /\ u \in Seq(PacketBytes)
    OBVIOUS
  <2> QED
    BY <2>1, ConcatAssociative, SMTT(30)
<1> QED
  BY <1>1, ZenonT(30)

\* Two sequences are the same when they are so behind a third one.
LEMMA SameBehind ==
  \A a, t, v \in Seq(PacketBytes) : a \o t = a \o v => t = v
<1>1. SUFFICES ASSUME NEW a \in Seq(PacketBytes), NEW t \in Seq(PacketBytes), NEW v \in Seq(PacketBytes),
                      a \o t = a \o v
               PROVE  t = v
  OBVIOUS
<1>2. Len(t) = Len(v)
  <2>1. Len(a \o t) = Len(a) + Len(t) /\ Len(a \o v) = Len(a) + Len(v)
    BY ConcatProperties
  <2> QED
    BY <2>1, <1>1
<1>3. ASSUME NEW i \in 1 .. Len(t) PROVE t[i] = v[i]
  <2>1. Len(a) + i \in 1 .. Len(a) + Len(t) /\ ~ (Len(a) + i <= Len(a))
    OBVIOUS
  <2>2. (a \o t)[Len(a) + i] = t[Len(a) + i - Len(a)]
    BY <2>1, ConcatProperties
  <2>3. (a \o v)[Len(a) + i] = v[Len(a) + i - Len(a)]
    BY <2>1, <1>2, ConcatProperties
  <2> QED
    BY <2>2, <2>3, <1>1
<1> QED
  BY <1>2, <1>3, SeqEqual

\* What a sequence begins with and what is left, when it is a part of another one.
FirstPart(s, n) == SubSeq(s, 1, n)
Behind(s, n)    == SubSeq(s, n + 1, Len(s))

SameBytes(a, s, x, p) == a \o s = x \o p

LEMMA CutInTwo ==
  ASSUME NEW a \in Seq(PacketBytes), NEW s \in Seq(PacketBytes), NEW x \in Seq(PacketBytes), NEW p \in Seq(PacketBytes),
         SameBytes(a, s, x, p), Len(a) <= Len(x)
  PROVE  /\ FirstPart(x, Len(a)) = a
         /\ Behind(x, Len(a)) \in Seq(PacketBytes)
         /\ Behind(x, Len(a)) \o p = s
<1> DEFINE l == SubSeq(x, 1, Len(a))
           r == SubSeq(x, Len(a) + 1, Len(x))
<1>0. Len(a) \in Nat /\ Len(x) \in Nat /\ a \o s = x \o p
  BY DEF SameBytes
<1>1. l \in Seq(PacketBytes) /\ Len(l) = Len(a) /\ \A i \in 1 .. Len(a) : l[i] = x[i]
  BY <1>0
<1>2. r \in Seq(PacketBytes)
  BY <1>0
<1>3. x = l \o r
  <2>1. SubSeq(x, 1, Len(a)) \o SubSeq(x, Len(a) + 1, Len(x)) = SubSeq(x, 1, Len(x))
    <3>1. 1 \in 1 .. Len(x) + 1 /\ Len(a) \in 1 - 1 .. Len(x) /\ Len(x) \in Len(a) .. Len(x)
      BY <1>0
    <3> QED
      BY <3>1, ConcatAdjacentSubSeq
  <2>2. SubSeq(x, 1, Len(x)) = x
    OBVIOUS
  <2> QED
    BY <2>1, <2>2
<1> HIDE DEF r
<1>4. \A i \in 1 .. Len(a) : x[i] = a[i]
  <2>1. TAKE i \in 1 .. Len(a)
  <2>2. (a \o s)[i] = a[i] /\ (x \o p)[i] = x[i]
    <3>1. i \in 1 .. Len(a) + Len(s) /\ i \in 1 .. Len(x) + Len(p) /\ i <= Len(a) /\ i <= Len(x)
      BY <1>0
    <3> QED
      BY <3>1, ConcatProperties
  <2> QED
    BY <1>0, <2>2
<1>5. l = a
  <2> HIDE DEF l
  <2> QED
    BY <1>1, <1>4, SeqEqual
<1> HIDE DEF l
<1>6. a \o s = a \o (r \o p)
  <2>1. a \o s = (a \o r) \o p
    BY <1>0, <1>3, <1>5
  <2>2. (a \o r) \o p = a \o (r \o p)
    BY <1>2, ThreeParts, ZenonT(30)
  <2> QED
    BY <2>1, <2>2, ZenonT(30)
<1>7. r \o p \in Seq(PacketBytes)
  BY <1>2, ConcatProperties
<1>8. s = r \o p
  BY <1>6, <1>7, SameBehind
<1> QED
  BY <1>2, <1>5, <1>8 DEF l, r, FirstPart, Behind

\* The first m packets, as they are on the socket.
Packets(p, m) == [n \in 1 .. m |-> Framed(n, p[n])]
Stream(p, m)  == FlattenSeq(Packets(p, m))

LEMMA StreamOfOneMore ==
  ASSUME NEW p \in Seq(Nat), NEW m \in Nat, m < Len(p)
  PROVE  Stream(p, m + 1) = Stream(p, m) \o Framed(m + 1, p[m + 1])
<1>1. \A n \in 1 .. m + 1 : Framed(n, p[n]) \in Seq(PacketBytes)
  <2>1. TAKE n \in 1 .. m + 1
  <2>2. n \in Nat /\ p[n] \in Nat
    OBVIOUS
  <2> QED
    BY <2>2, FramedIs
<1>2. Packets(p, m) \in Seq(Seq(PacketBytes)) /\ Framed(m + 1, p[m + 1]) \in Seq(PacketBytes)
  BY <1>1 DEF Packets
<1>3. Packets(p, m + 1) = Append(Packets(p, m), Framed(m + 1, p[m + 1]))
  <2> HIDE DEF Framed
  <2>1. Packets(p, m + 1) \in Seq(Seq(PacketBytes)) /\ Len(Packets(p, m + 1)) = m + 1
    BY <1>1 DEF Packets
  <2>2. Len(Packets(p, m)) = m
    BY DEF Packets
  <2>3. ASSUME NEW n \in 1 .. m + 1
        PROVE  Packets(p, m + 1)[n] = Append(Packets(p, m), Framed(m + 1, p[m + 1]))[n]
    <3>1. CASE n = m + 1
      BY <3>1, <1>2, <2>2, AppendProperties DEF Packets
    <3>2. CASE n # m + 1
      <4>1. n \in 1 .. m
        BY <3>2
      <4>2. Append(Packets(p, m), Framed(m + 1, p[m + 1]))[n] = Packets(p, m)[n]
        BY <4>1, <1>2, <2>2, AppendProperties
      <4> QED
        BY <4>1, <4>2 DEF Packets
    <3> QED
      BY <3>1, <3>2
  <2>4. /\ Append(Packets(p, m), Framed(m + 1, p[m + 1])) \in Seq(Seq(PacketBytes))
        /\ Len(Append(Packets(p, m), Framed(m + 1, p[m + 1]))) = m + 1
    BY <1>2, <2>2, AppendProperties
  <2> DEFINE a == Packets(p, m + 1)
             b == Append(Packets(p, m), Framed(m + 1, p[m + 1]))
  <2>5. a \in Seq(Seq(PacketBytes)) /\ b \in Seq(Seq(PacketBytes)) /\ Len(a) = Len(b)
    BY <2>1, <2>4
  <2>6. \A n \in 1 .. Len(a) : a[n] = b[n]
    BY <2>1, <2>3
  <2> HIDE DEF a, b
  <2>7. a = b
    BY <2>5, <2>6, SeqEqual
  <2> QED
    BY <2>7 DEF a, b
<1> QED
  BY <1>2, <1>3, FlattenAppends DEF Stream

LEMMA StreamIsBytes ==
  ASSUME NEW p \in Seq(Nat), NEW m \in Nat, m <= Len(p)
  PROVE  Stream(p, m) \in Seq(PacketBytes)
<1>1. \A n \in 1 .. m : Framed(n, p[n]) \in Seq(PacketBytes)
  <2>1. TAKE n \in 1 .. m
  <2>2. n \in Nat /\ p[n] \in Nat
    OBVIOUS
  <2> QED
    BY <2>2, FramedIs
<1>2. Packets(p, m) \in Seq(Seq(PacketBytes))
  BY <1>1 DEF Packets
<1> QED
  BY <1>2, FlattenInSeq DEF Stream

LEMMA StreamOfNothing == \A p : Stream(p, 0) = <<>>
<1> TAKE p
<1>1. Packets(p, 0) = <<>>
  BY DEF Packets
<1> QED
  BY <1>1 DEF Stream, FlattenSeq

LEMMA StreamStays ==
  ASSUME NEW p \in Seq(Nat), NEW x \in Nat, NEW m \in Nat, m <= Len(p)
  PROVE  Stream(Append(p, x), m) = Stream(p, m)
<1>1. \A n \in 1 .. m : Append(p, x)[n] = p[n]
  BY AppendProperties
<1>2. Packets(Append(p, x), m) = Packets(p, m)
  BY <1>1 DEF Packets
<1> QED
  BY <1>2 DEF Stream

-----------------------------------------------------------------------------
\* The packets split gave are the first ones put, and the bytes behind them, on their way
\* through the receiver, the socket and the sender, are the others.
GotWhatWasPut ==
  /\ Len(got) <= Len(put)
  /\ \A n \in 1 .. Len(got) : got[n] = Body(n, put[n])

OnTheWay == inbuf.data \o (pipe \o outbuf.data)

TheRestIsOnTheWay == Stream(put, Len(got)) \o OnTheWay = Stream(put, Len(put))

\* What the first packets are is what all of them begin with.
StreamBegins ==
  \A m \in 0 .. Len(put) : \E s \in Seq(PacketBytes) : Stream(put, m) \o s = Stream(put, Len(put))

BuffersShape ==
  /\ outbuf \in Buffers /\ inbuf \in Buffers /\ pipe \in Seq(PacketBytes)
  /\ put \in Seq(Nat) /\ got \in Seq(Seq(PacketBytes))
  /\ \A n \in 1 .. Len(put) : FitsABuffer(put[n])

BuffersInv ==
  BuffersShape /\ BuffersTypeOK /\ DataStayInside /\ GotWhatWasPut /\ TheRestIsOnTheWay /\ StreamBegins

LEMMA OnTheWayIsBytes == BuffersShape => OnTheWay \in Seq(PacketBytes)
<1> SUFFICES ASSUME BuffersShape PROVE OnTheWay \in Seq(PacketBytes)
  OBVIOUS
<1>1. inbuf.data \in Seq(PacketBytes) /\ pipe \in Seq(PacketBytes) /\ outbuf.data \in Seq(PacketBytes)
  BY DEF BuffersShape, Buffers
<1>2. pipe \o outbuf.data \in Seq(PacketBytes)
  BY <1>1, ConcatProperties
<1> QED
  BY <1>1, <1>2, ConcatProperties DEF OnTheWay

LEMMA FreshBuffers ==
  /\ FreshBuffer(SendCapacity) \in Buffers /\ FreshBuffer(RecvCapacity) \in Buffers
  /\ FreshBuffer(SendCapacity).data = <<>> /\ FreshBuffer(RecvCapacity).data = <<>>
  /\ FreshBuffer(SendCapacity).size = SendCapacity
  /\ FreshBuffer(RecvCapacity).size = RecvCapacity
BY BuffersGrow DEF FreshBuffer, Buffers

LEMMA NothingOnTheWay ==
  BuffersInit => BuffersInv
<1> SUFFICES ASSUME outbuf = FreshBuffer(SendCapacity), inbuf = FreshBuffer(RecvCapacity),
                    pipe = <<>>, put = <<>>, got = <<>>
             PROVE  BuffersInv
  BY DEF BuffersInit
<1>1. <<>> \in Seq(Nat) /\ <<>> \in Seq(PacketBytes) /\ <<>> \in Seq(Seq(PacketBytes)) /\ Len(<<>>) = 0
  BY EmptySeq
<1>2. BuffersShape
  BY <1>1, FreshBuffers DEF BuffersShape
<1>3. BuffersTypeOK /\ DataStayInside
  BY <1>1, FreshBuffers, BuffersGrow DEF BuffersTypeOK, DataStayInside
<1>4. GotWhatWasPut
  BY <1>1 DEF GotWhatWasPut
<1>5. <<>> \o <<>> = <<>>
  BY <1>1, ConcatEmptySeq
<1>6. OnTheWay = <<>>
  BY <1>5, FreshBuffers DEF OnTheWay
<1>7. TheRestIsOnTheWay
  BY <1>1, <1>5, <1>6, StreamOfNothing DEF TheRestIsOnTheWay
<1>8. StreamBegins
  <2>1. \A m \in 0 .. Len(put) : m = 0
    BY <1>1
  <2> QED
    BY <2>1, <1>1, <1>5, StreamOfNothing DEF StreamBegins
<1> QED
  BY <1>2, <1>3, <1>4, <1>7, <1>8 DEF BuffersInv

\* put: the packet is behind all others, and there was room for it unless it is larger than a
\* buffer is at first.
LEMMA PacketPutKeeps ==
  ASSUME BuffersInv, Len(outbuf.data) <= outbuf.size, NEW size \in PacketSizes, PutPacket(size)
  PROVE  BuffersInv'
<1> DEFINE need == size + HeaderSize
           short == need - Remaining(outbuf)
           room == IF need > Remaining(outbuf) THEN Grown(outbuf, short) ELSE outbuf
           framed == Framed(Len(put) + 1, size)
<1>1. /\ outbuf \in Buffers /\ inbuf \in Buffers /\ pipe \in Seq(PacketBytes)
      /\ put \in Seq(Nat) /\ got \in Seq(Seq(PacketBytes))
  BY DEF BuffersInv, BuffersShape
<1>2. /\ outbuf.data \in Seq(PacketBytes) /\ outbuf.size \in Nat /\ Len(outbuf.data) \in Nat
      /\ Len(put) \in Nat /\ Len(got) \in Nat /\ Len(got) <= Len(put)
  BY <1>1 DEF Buffers, BuffersInv, GotWhatWasPut
<1>3. size \in Nat /\ HeaderSize \in Nat \ {0} /\ SendCapacity \in Nat \ {0}
      /\ need \in Nat
  BY BuffersGrow
<1>4. Len(outbuf.data) <= outbuf.size /\ outbuf.size >= SendCapacity
  BY DEF BuffersInv, BuffersTypeOK
<1>5. /\ room \in Buffers /\ room.data = outbuf.data /\ room.size >= outbuf.size
      /\ room.size \in Nat /\ (need <= SendCapacity => room.size - Len(outbuf.data) >= need)
  <2>1. CASE need > Remaining(outbuf)
    <3>1. short \in Nat
      BY <2>1, <1>2, <1>3 DEF Remaining
    <3>2. /\ Grown(outbuf, short) \in Buffers /\ Grown(outbuf, short).data = outbuf.data
          /\ Grown(outbuf, short).size >= 2 * outbuf.size
      BY <3>1, <1>1, <1>2, <1>3, <1>4, GrownKeepsData
    <3>3. Grown(outbuf, short).size \in Nat
      BY <3>2 DEF Buffers
    <3>4. room = Grown(outbuf, short)
      BY <2>1
    <3>5. room.size \in Nat /\ room.size >= 2 * outbuf.size
      BY <3>2, <3>3, <3>4
    <3>6. room \in Buffers /\ room.data = outbuf.data
      BY <3>2, <3>4
    <3> HIDE DEF room, short, need
    <3>7. room.size >= outbuf.size
      BY <3>5, <1>2
    <3>8. need <= SendCapacity => room.size - Len(outbuf.data) >= need
      BY <3>5, <1>2, <1>3, <1>4
    <3> QED
      BY <3>5, <3>6, <3>7, <3>8
  <2>2. CASE ~ (need > Remaining(outbuf))
    BY <2>2, <1>1, <1>2, <1>3 DEF Remaining
  <2> QED
    BY <2>1, <2>2
<1>6. /\ FitsABuffer(size)
      /\ outbuf' = [room EXCEPT !.data = @ \o framed]
      /\ put' = Append(put, size) /\ pipe' = pipe /\ inbuf' = inbuf /\ got' = got
  BY DEF PutPacket
<1>7. framed \in Seq(PacketBytes) /\ Len(framed) = need
  <2>1. Len(put) + 1 \in Nat
    BY <1>2
  <2>2. /\ Framed(Len(put) + 1, size) \in Seq(PacketBytes)
        /\ Len(Framed(Len(put) + 1, size)) = HeaderSize + size
    BY <2>1, <1>3, FramedIs
  <2> QED
    BY <2>2, <1>3
<1>0. need = size + HeaderSize
  OBVIOUS
<1> HIDE DEF room, framed, need
<1>8. outbuf' = [data |-> outbuf.data \o framed, size |-> room.size]
  BY <1>5, <1>6 DEF Buffers
<1>9. /\ outbuf.data \o framed \in Seq(PacketBytes)
      /\ Len(outbuf.data \o framed) = Len(outbuf.data) + need
  BY <1>2, <1>7, ConcatProperties
<1>10. /\ put' \in Seq(Nat) /\ Len(put') = Len(put) + 1
       /\ (\A n \in 1 .. Len(put) : put'[n] = put[n]) /\ put'[Len(put) + 1] = size
  BY <1>1, <1>3, <1>6, AppendProperties
<1>11. BuffersShape'
  <2>1. outbuf' \in Buffers
    BY <1>8, <1>9, <1>5 DEF Buffers
  <2>2. \A n \in 1 .. Len(put') : FitsABuffer(put'[n])
    <3>1. TAKE n \in 1 .. Len(put')
    <3>2. CASE n = Len(put) + 1
      BY <3>2, <1>6, <1>10
    <3>3. CASE n # Len(put) + 1
      <4>1. n \in 1 .. Len(put)
        BY <3>3, <1>10, <1>2
      <4> QED
        BY <4>1, <1>10 DEF BuffersInv, BuffersShape
    <3> QED
      BY <3>2, <3>3
  <2> QED
    BY <2>1, <2>2, <1>1, <1>6, <1>10 DEF BuffersShape, FitsABuffer
<1>12. BuffersTypeOK'
  <2>1. outbuf'.size = room.size /\ outbuf'.data = outbuf.data \o framed
    BY <1>8
  <2>2. Len(outbuf'.data) = Len(outbuf.data) + need
    BY <2>1, <1>9
  <2>3. outbuf'.size >= SendCapacity
    BY <2>1, <1>2, <1>3, <1>4, <1>5
  <2>4. DOMAIN put' = 1 .. Len(put) + 1 /\ DOMAIN put = 1 .. Len(put)
    BY <1>1, <1>10
  <2>5. ASSUME NEW n \in DOMAIN put' PROVE put'[n] \in PacketSizes
    <3>1. CASE n = Len(put) + 1
      BY <3>1, <1>10
    <3>2. CASE n # Len(put) + 1
      <4>1. n \in DOMAIN put /\ n \in 1 .. Len(put)
        BY <3>2, <2>4, <1>2
      <4> QED
        BY <4>1, <1>10 DEF BuffersInv, BuffersTypeOK
    <3> QED
      BY <3>1, <3>2
  <2> QED
    BY <2>3, <2>5, <1>6 DEF BuffersInv, BuffersTypeOK
<1>19. DataStayInside'
  <2>1. outbuf'.size = room.size /\ Len(outbuf'.data) = Len(outbuf.data) + need
    BY <1>8, <1>9
  <2>2. Len(outbuf'.data) > outbuf'.size => size + HeaderSize > SendCapacity
    <3>1. PICK l \in Nat, k \in Nat, z \in Nat, c \in Nat :
            l = Len(outbuf.data) /\ k = need /\ z = room.size /\ c = SendCapacity
      BY <1>2, <1>3, <1>5
    <3>2. k <= c => z - l >= k
      BY <3>1, <1>5
    <3>3. l + k > z => k > c
      BY <3>2
    <3> QED
      BY <2>1, <3>1, <3>3, <1>0
  <2>3. put' # <<>> /\ Last(put') = size
    BY <1>2, <1>10 DEF Last
  <2>4. Len(inbuf'.data) <= inbuf'.size
    BY <1>6 DEF BuffersInv, DataStayInside
  <2> QED
    BY <2>2, <2>3, <2>4 DEF DataStayInside
<1>13. GotWhatWasPut'
  <2>1. \A n \in 1 .. Len(got) : n \in 1 .. Len(put)
    BY <1>2
  <2>2. \A n \in 1 .. Len(got) : got[n] = Body(n, put'[n])
    BY <2>1, <1>10 DEF BuffersInv, GotWhatWasPut
  <2>3. Len(got) <= Len(put')
    BY <1>2, <1>10
  <2> QED
    BY <2>2, <2>3, <1>6 DEF GotWhatWasPut, Body
<1>14. \A m \in 0 .. Len(put) : Stream(put', m) = Stream(put, m) /\ Stream(put, m) \in Seq(PacketBytes)
  BY <1>1, <1>3, <1>6, StreamStays, StreamIsBytes
<1>15. Stream(put', Len(put')) = Stream(put, Len(put)) \o framed
  <2>1. Stream(put', Len(put) + 1)
          = Stream(put', Len(put)) \o Framed(Len(put) + 1, put'[Len(put) + 1])
    <3>1. Len(put) \in Nat /\ Len(put) < Len(put') /\ put' \in Seq(Nat)
      BY <1>10, <1>2
    <3> QED
      BY <3>1, StreamOfOneMore
  <2>2. Stream(put', Len(put)) = Stream(put, Len(put))
    BY <1>14, <1>2
  <2> QED
    BY <2>1, <2>2, <1>10 DEF framed
<1>16. OnTheWay' = OnTheWay \o framed /\ OnTheWay \in Seq(PacketBytes)
  <2>1. OnTheWay' = inbuf.data \o (pipe \o (outbuf.data \o framed))
    <3>1. outbuf'.data = outbuf.data \o framed
      BY <1>8
    <3> QED
      BY <3>1, <1>6 DEF OnTheWay
  <2>2. pipe \o (outbuf.data \o framed) = (pipe \o outbuf.data) \o framed
    BY <1>1, <1>2, <1>7, ThreeParts
  <2>3. pipe \o outbuf.data \in Seq(PacketBytes) /\ inbuf.data \in Seq(PacketBytes)
    BY <1>1, <1>2, ConcatProperties DEF Buffers
  <2>4. inbuf.data \o ((pipe \o outbuf.data) \o framed) = OnTheWay \o framed
    BY <2>3, <1>7, ThreeParts DEF OnTheWay
  <2> QED
    BY <2>1, <2>2, <2>4, OnTheWayIsBytes DEF BuffersInv
<1>17. TheRestIsOnTheWay'
  <2>1. Stream(put', Len(got)) = Stream(put, Len(got)) /\ Stream(put, Len(got)) \in Seq(PacketBytes)
    BY <1>14, <1>2
  <2>2. Stream(put, Len(got)) \o (OnTheWay \o framed)
          = (Stream(put, Len(got)) \o OnTheWay) \o framed
    BY <2>1, <1>16, <1>7, ThreeParts, ZenonT(30)
  <2>3. Stream(put', Len(got')) \o OnTheWay' = Stream(put', Len(put'))
    BY <2>1, <2>2, <1>6, <1>15, <1>16 DEF BuffersInv, TheRestIsOnTheWay
  <2> QED
    BY <2>3 DEF TheRestIsOnTheWay, Stream, Packets, Framed, Header, Body
<1>18. StreamBegins'
  <2>1. ASSUME NEW m \in 0 .. Len(put')
        PROVE  \E s \in Seq(PacketBytes) : Stream(put', m) \o s = Stream(put', Len(put'))
    <3>1. CASE m = Len(put')
      <4>1. Stream(put', m) \in Seq(PacketBytes)
        BY <3>1, <1>10, <1>2, StreamIsBytes
      <4>2. Stream(put', m) \o <<>> = Stream(put', m) /\ <<>> \in Seq(PacketBytes)
        BY <4>1, ConcatEmptySeq, EmptySeq
      <4> QED
        BY <4>2, <3>1
    <3>2. CASE m # Len(put')
      <4>1. m \in 0 .. Len(put)
        BY <3>2, <1>10, <1>2
      <4>2. PICK s \in Seq(PacketBytes) : Stream(put, m) \o s = Stream(put, Len(put))
        BY <4>1 DEF BuffersInv, StreamBegins
      <4>3. Stream(put', m) \o (s \o framed) = Stream(put', Len(put'))
        <5>1. Stream(put, m) \o (s \o framed) = (Stream(put, m) \o s) \o framed
          BY <4>1, <1>14, <1>7, ThreeParts, ZenonT(30)
        <5> QED
          BY <5>1, <4>1, <4>2, <1>14, <1>15
      <4>4. s \o framed \in Seq(PacketBytes)
        BY <1>7, ConcatProperties
      <4> QED
        BY <4>3, <4>4
    <3> QED
      BY <3>1, <3>2
  <2> QED
    BY <2>1 DEF StreamBegins, Stream, Packets, Framed, Header, Body, PacketBytes
<1> QED
  BY <1>11, <1>12, <1>13, <1>17, <1>18, <1>19 DEF BuffersInv

\* What is moved from one place to the next changes nothing of what is on the way.
LEMMA MovingKeeps ==
  ASSUME BuffersInv, UNCHANGED <<put, got>>, BuffersTypeOK', DataStayInside',
         outbuf' \in Buffers, inbuf' \in Buffers, pipe' \in Seq(PacketBytes), OnTheWay' = OnTheWay
  PROVE  BuffersInv'
<1>1. BuffersShape'
  BY DEF BuffersInv, BuffersShape
<1>2. GotWhatWasPut'
  BY DEF BuffersInv, GotWhatWasPut
<1>3. TheRestIsOnTheWay'
  BY DEF BuffersInv, TheRestIsOnTheWay
<1>4. StreamBegins'
  BY DEF BuffersInv, StreamBegins
<1> QED
  BY <1>1, <1>2, <1>3, <1>4 DEF BuffersInv

\* The first n bytes, and the others.
LEMMA FirstBytes ==
  ASSUME NEW s \in Seq(PacketBytes), NEW n \in 1 .. Len(s)
  PROVE  /\ SubSeq(s, 1, n) \in Seq(PacketBytes) /\ Len(SubSeq(s, 1, n)) = n
         /\ SubSeq(s, n + 1, Len(s)) \in Seq(PacketBytes) /\ Len(SubSeq(s, n + 1, Len(s))) = Len(s) - n
         /\ SubSeq(s, 1, n) \o SubSeq(s, n + 1, Len(s)) = s
<1>1. Len(s) \in Nat /\ 1 \in 1 .. Len(s) + 1 /\ n \in 1 - 1 .. Len(s) /\ Len(s) \in n .. Len(s)
  OBVIOUS
<1>2. SubSeq(s, 1, n) \o SubSeq(s, n + 1, Len(s)) = SubSeq(s, 1, Len(s))
  BY <1>1, ConcatAdjacentSubSeq
<1>3. SubSeq(s, 1, Len(s)) = s
  OBVIOUS
<1>4. SubSeq(s, 1, n) \in Seq(PacketBytes) /\ Len(SubSeq(s, 1, n)) = n
  BY <1>1
<1>5. SubSeq(s, n + 1, Len(s)) \in Seq(PacketBytes) /\ Len(SubSeq(s, n + 1, Len(s))) = Len(s) - n
  BY <1>1
<1> QED
  BY <1>2, <1>3, <1>4, <1>5

\* The n bytes behind the first m.
LEMMA MiddleBytes ==
  \A s \in Seq(PacketBytes), m, n \in Nat :
    m + n <= Len(s) =>
      /\ SubSeq(s, m + 1, m + n) \in Seq(PacketBytes) /\ Len(SubSeq(s, m + 1, m + n)) = n
      /\ \A i \in 1 .. n : SubSeq(s, m + 1, m + n)[i] = s[m + i]
      /\ \A i \in 1 .. n : SubSeq(s, 1, m + n)[m + i] = s[m + i]
      /\ Len(SubSeq(s, m + n + 1, Len(s))) = Len(s) - (m + n)
<1> SUFFICES ASSUME NEW s \in Seq(PacketBytes), NEW m \in Nat, NEW n \in Nat, m + n <= Len(s)
             PROVE  /\ SubSeq(s, m + 1, m + n) \in Seq(PacketBytes)
                    /\ Len(SubSeq(s, m + 1, m + n)) = n
                    /\ \A i \in 1 .. n : SubSeq(s, m + 1, m + n)[i] = s[m + i]
                    /\ \A i \in 1 .. n : SubSeq(s, 1, m + n)[m + i] = s[m + i]
                    /\ Len(SubSeq(s, m + n + 1, Len(s))) = Len(s) - (m + n)
  OBVIOUS
<1>1. Len(s) \in Nat /\ m + n \in Nat /\ m + 1 \in Nat /\ m + n + 1 \in Nat
  OBVIOUS
<1>2. SubSeq(s, m + 1, m + n) \in Seq(PacketBytes) /\ Len(SubSeq(s, m + 1, m + n)) = n
  BY <1>1
<1>3. \A i \in 1 .. n : SubSeq(s, m + 1, m + n)[i] = s[m + i]
  BY <1>1
<1>4. \A i \in 1 .. n : SubSeq(s, 1, m + n)[m + i] = s[m + i]
  BY <1>1
<1>5. Len(SubSeq(s, m + n + 1, Len(s))) = Len(s) - (m + n)
  BY <1>1
<1> QED
  BY <1>2, <1>3, <1>4, <1>5

LEMMA SendKeeps ==
  ASSUME BuffersInv, Len(outbuf.data) <= outbuf.size, SendSome
  PROVE  BuffersInv'
<1>1. PICK n \in 1 .. Len(outbuf.data) :
        /\ pipe' = pipe \o SubSeq(outbuf.data, 1, n)
        /\ outbuf' = [outbuf EXCEPT !.data = SubSeq(@, n + 1, Len(@))]
  BY DEF SendSome
<1>2. inbuf' = inbuf /\ put' = put /\ got' = got
  BY DEF SendSome
<1> DEFINE l == SubSeq(outbuf.data, 1, n)
           r == SubSeq(outbuf.data, n + 1, Len(outbuf.data))
<1>3. /\ outbuf \in Buffers /\ inbuf \in Buffers /\ pipe \in Seq(PacketBytes)
      /\ outbuf.data \in Seq(PacketBytes) /\ outbuf.size \in Nat /\ Len(outbuf.data) \in Nat
  BY DEF BuffersInv, BuffersShape, Buffers
<1>4. /\ l \in Seq(PacketBytes) /\ r \in Seq(PacketBytes) /\ Len(r) = Len(outbuf.data) - n
      /\ l \o r = outbuf.data
  BY <1>3, FirstBytes
<1>5. pipe' = pipe \o l /\ outbuf' = [data |-> r, size |-> outbuf.size]
  BY <1>1, <1>3 DEF Buffers
<1> HIDE DEF l, r
<1>6. outbuf' \in Buffers /\ outbuf'.data = r /\ outbuf'.size = outbuf.size
  BY <1>3, <1>4, <1>5 DEF Buffers
<1>7. pipe' \in Seq(PacketBytes)
  BY <1>3, <1>4, <1>5, ConcatProperties
<1>8. OnTheWay' = OnTheWay
  <2>1. pipe \o (l \o r) = (pipe \o l) \o r
    BY <1>3, <1>4, ThreeParts
  <2> QED
    BY <2>1, <1>2, <1>4, <1>5, <1>6 DEF OnTheWay
<1>9. BuffersTypeOK' /\ DataStayInside'
  BY <1>2, <1>3, <1>4, <1>6 DEF BuffersInv, BuffersTypeOK, DataStayInside
<1> QED
  BY <1>2, <1>3, <1>6, <1>7, <1>8, <1>9, MovingKeeps

LEMMA RecvKeeps ==
  ASSUME BuffersInv, RecvSome
  PROVE  BuffersInv'
<1> DEFINE b == IF Remaining(inbuf) = 0 /\ MayGrow(inbuf, inbuf.size \div 8)
                THEN Grown(inbuf, inbuf.size \div 8) ELSE inbuf
<1>1. PICK n \in 1 .. Len(pipe) :
        /\ n <= Remaining(b)
        /\ inbuf' = [b EXCEPT !.data = @ \o SubSeq(pipe, 1, n)]
        /\ pipe' = SubSeq(pipe, n + 1, Len(pipe))
  BY DEF RecvSome
<1>2. outbuf' = outbuf /\ put' = put /\ got' = got
  BY DEF RecvSome
<1>3. /\ outbuf \in Buffers /\ inbuf \in Buffers /\ pipe \in Seq(PacketBytes)
      /\ inbuf.data \in Seq(PacketBytes) /\ inbuf.size \in Nat \ {0} /\ Len(inbuf.data) \in Nat
      /\ outbuf.data \in Seq(PacketBytes) /\ Len(inbuf.data) <= inbuf.size /\ inbuf.size >= RecvCapacity
  BY BuffersGrow DEF BuffersInv, BuffersShape, BuffersTypeOK, DataStayInside, Buffers
<1>4. /\ b \in Buffers /\ b.data = inbuf.data /\ b.size \in Nat /\ b.size >= inbuf.size
  <2>1. inbuf.size \div 8 \in Nat
    BY <1>3
  <2>2. /\ Grown(inbuf, inbuf.size \div 8) \in Buffers
        /\ Grown(inbuf, inbuf.size \div 8).data = inbuf.data
        /\ Grown(inbuf, inbuf.size \div 8).size >= 2 * inbuf.size
    BY <2>1, <1>3, GrownKeepsData
  <2>3. Grown(inbuf, inbuf.size \div 8).size \in Nat
    BY <2>2 DEF Buffers
  <2>4. b = Grown(inbuf, inbuf.size \div 8) \/ b = inbuf
    OBVIOUS
  <2> HIDE DEF b
  <2> QED
    BY <2>2, <2>3, <2>4, <1>3
<1> HIDE DEF b
<1> DEFINE l == SubSeq(pipe, 1, n)
           r == SubSeq(pipe, n + 1, Len(pipe))
<1>5. l \in Seq(PacketBytes) /\ Len(l) = n /\ r \in Seq(PacketBytes) /\ l \o r = pipe
  BY <1>3, FirstBytes
<1>6. pipe' = r /\ inbuf' = [data |-> inbuf.data \o l, size |-> b.size]
  BY <1>1, <1>4 DEF Buffers
<1> HIDE DEF l, r
<1>7. inbuf.data \o l \in Seq(PacketBytes) /\ Len(inbuf.data \o l) = Len(inbuf.data) + n
  BY <1>3, <1>5, ConcatProperties
<1>8. inbuf' \in Buffers /\ inbuf'.data = inbuf.data \o l /\ inbuf'.size = b.size
  BY <1>4, <1>6, <1>7 DEF Buffers
<1>9. OnTheWay' = OnTheWay
  <2>1. r \o outbuf.data \in Seq(PacketBytes)
    BY <1>3, <1>5, ConcatProperties
  <2>2. (inbuf.data \o l) \o (r \o outbuf.data) = inbuf.data \o (l \o (r \o outbuf.data))
    BY <2>1, <1>3, <1>5, ThreeParts, ZenonT(30)
  <2>3. l \o (r \o outbuf.data) = (l \o r) \o outbuf.data
    <3>1. l \in Seq(PacketBytes) /\ r \in Seq(PacketBytes) /\ outbuf.data \in Seq(PacketBytes)
      BY <1>3, <1>5
    <3> QED
      BY <3>1, ThreeParts
  <2> QED
    BY <2>2, <2>3, <1>2, <1>5, <1>6, <1>8 DEF OnTheWay
<1>10. BuffersTypeOK' /\ DataStayInside'
  <2>1. n \in Nat /\ n <= b.size - Len(inbuf.data)
    BY <1>1, <1>4 DEF Remaining
  <2>2. Len(inbuf'.data) <= inbuf'.size
    BY <2>1, <1>3, <1>4, <1>7, <1>8
  <2>3. inbuf'.size >= RecvCapacity
    BY <1>3, <1>4, <1>8, BuffersGrow
  <2> QED
    BY <2>2, <2>3, <1>2 DEF BuffersInv, BuffersTypeOK, DataStayInside
<1> QED
  BY <1>2, <1>3, <1>5, <1>6, <1>8, <1>9, <1>10, MovingKeeps

-----------------------------------------------------------------------------
\* What lies at the front of the receiver is the next packet, with its header.
LEMMA NextPacketInFront ==
  ASSUME BuffersInv, Len(inbuf.data) > 0
  PROVE  /\ Len(got) + 1 \in 1 .. Len(put)
         /\ Head(inbuf.data) = [head |-> put[Len(got) + 1], at |-> 1]
         /\ \E s \in Seq(PacketBytes) :
              /\ Framed(Len(got) + 1, put[Len(got) + 1]) \o s = OnTheWay
              /\ Stream(put, Len(got) + 1) \o s = Stream(put, Len(put))
<1> DEFINE g == Len(got)
           p == put[g + 1]
           framed == Framed(g + 1, p)
<1>1. /\ put \in Seq(Nat) /\ Len(put) \in Nat /\ g \in Nat /\ g <= Len(put)
      /\ inbuf.data \in Seq(PacketBytes) /\ pipe \o outbuf.data \in Seq(PacketBytes)
      /\ OnTheWay \in Seq(PacketBytes)
  <2>1. BuffersShape
    BY DEF BuffersInv
  <2>2. inbuf.data \in Seq(PacketBytes) /\ pipe \in Seq(PacketBytes) /\ outbuf.data \in Seq(PacketBytes)
    BY <2>1 DEF BuffersShape, Buffers
  <2>3. got \in Seq(Seq(PacketBytes)) /\ put \in Seq(Nat) /\ g <= Len(put)
    BY <2>1 DEF BuffersShape, BuffersInv, GotWhatWasPut
  <2>4. pipe \o outbuf.data \in Seq(PacketBytes)
    BY <2>2, ConcatProperties
  <2> QED
    BY <2>1, <2>2, <2>3, <2>4, OnTheWayIsBytes
<1>2. Len(OnTheWay) > 0 /\ OnTheWay[1] = inbuf.data[1]
  <2> DEFINE d == inbuf.data
             e == pipe \o outbuf.data
  <2>1. d \in Seq(PacketBytes) /\ e \in Seq(PacketBytes) /\ Len(d) \in Nat /\ Len(e) \in Nat /\ Len(d) > 0
    BY <1>1
  <2>2. OnTheWay = d \o e
    BY DEF OnTheWay
  <2> HIDE DEF d, e
  <2>3. 1 \in 1 .. Len(d) + Len(e) /\ 1 <= Len(d)
    BY <2>1
  <2>4. Len(d \o e) = Len(d) + Len(e) /\ (d \o e)[1] = d[1]
    BY <2>1, <2>3, ConcatProperties
  <2>5. Len(OnTheWay) > 0 /\ OnTheWay[1] = d[1]
    BY <2>1, <2>2, <2>4
  <2> QED
    BY <2>5 DEF d
<1>4. Stream(put, g) \in Seq(PacketBytes) /\ Stream(put, g) \o OnTheWay = Stream(put, Len(put))
  BY <1>1, StreamIsBytes DEF BuffersInv, TheRestIsOnTheWay
<1>5. g # Len(put)
  <2>1. Len(Stream(put, g) \o OnTheWay) = Len(Stream(put, g)) + Len(OnTheWay)
    BY <1>1, <1>4, ConcatProperties
  <2>2. Len(Stream(put, g)) \in Nat
    BY <1>4
  <2> QED
    BY <2>1, <2>2, <1>2, <1>4, <1>1
<1>6. g + 1 \in 1 .. Len(put) /\ g + 1 \in 0 .. Len(put) /\ g < Len(put)
  BY <1>1, <1>5
<1>7. p \in Nat
  BY <1>6, <1>1
<1>8. framed \in Seq(PacketBytes) /\ Len(framed) = HeaderSize + p /\ framed[1] = [head |-> p, at |-> 1]
  <2>1. g + 1 \in Nat
    BY <1>1
  <2> QED
    BY <2>1, <1>7, FramedIs
<1>9. PICK s \in Seq(PacketBytes) : Stream(put, g + 1) \o s = Stream(put, Len(put))
  BY <1>6 DEF BuffersInv, StreamBegins
<1>10. Stream(put, g + 1) = Stream(put, g) \o framed
  BY <1>1, <1>6, StreamOfOneMore
<1> HIDE DEF framed, p, g
<1>11. Stream(put, g) \o OnTheWay = Stream(put, g) \o (framed \o s)
  <2>1. Stream(put, g) \o (framed \o s) = (Stream(put, g) \o framed) \o s
    BY <1>4, <1>8, ThreeParts
  <2> QED
    BY <2>1, <1>4, <1>9, <1>10
<1>12. framed \o s = OnTheWay
  <2>1. framed \o s \in Seq(PacketBytes)
    BY <1>8, ConcatProperties
  <2> QED
    BY <2>1, <1>1, <1>4, <1>11, SameBehind
<1>13. inbuf.data[1] = framed[1]
  <2>1. 1 \in 1 .. Len(framed) + Len(s) /\ 1 <= Len(framed)
    BY <1>7, <1>8, BuffersGrow
  <2>2. (framed \o s)[1] = framed[1]
    BY <2>1, <1>8, ConcatProperties
  <2> QED
    BY <2>2, <1>2, <1>12
<1>14. Head(inbuf.data) = inbuf.data[1]
  BY <1>1
<1> QED
  BY <1>6, <1>8, <1>9, <1>12, <1>13, <1>14 DEF g, p, framed

LEMMA SplitKeeps ==
  ASSUME BuffersInv, Split
  PROVE  BuffersInv'
<1> DEFINE g == Len(got)
           size == Head(inbuf.data).head
           missing == size + HeaderSize - Len(inbuf.data)
           framed == Framed(g + 1, put[g + 1])
<1>1. /\ outbuf \in Buffers /\ inbuf \in Buffers /\ pipe \in Seq(PacketBytes)
      /\ put \in Seq(Nat) /\ got \in Seq(Seq(PacketBytes)) /\ g \in Nat
      /\ inbuf.data \in Seq(PacketBytes) /\ inbuf.size \in Nat \ {0} /\ Len(inbuf.data) \in Nat
      /\ outbuf.data \in Seq(PacketBytes) /\ Len(inbuf.data) <= inbuf.size /\ inbuf.size >= RecvCapacity
      /\ HeaderSize \in Nat \ {0} /\ RecvCapacity \in Nat \ {0}
  BY BuffersGrow DEF BuffersInv, BuffersShape, BuffersTypeOK, DataStayInside, Buffers
<1>2. outbuf' = outbuf /\ pipe' = pipe /\ put' = put
  BY DEF Split
<1>3. Len(inbuf.data) > 0
  <2>1. Len(inbuf.data) >= HeaderSize
    BY DEF Split
  <2> QED
    BY <2>1, <1>1
<1>4. /\ g + 1 \in 1 .. Len(put)
      /\ Head(inbuf.data) = [head |-> put[g + 1], at |-> 1]
      /\ \E s \in Seq(PacketBytes) :
           framed \o s = OnTheWay /\ Stream(put, g + 1) \o s = Stream(put, Len(put))
  BY <1>3, NextPacketInFront
<1>5. size = put[g + 1] /\ size \in Nat
  <2>1. size = put[g + 1]
    <3> HIDE DEF g
    <3>1. Head(inbuf.data) = [head |-> put[g + 1], at |-> 1]
      BY <1>4
    <3> QED
      BY <3>1
  <2>2. put[g + 1] \in Nat
    <3>1. put \in Seq(Nat) /\ g + 1 \in 1 .. Len(put)
      BY <1>1, <1>4
    <3> HIDE DEF g
    <3> QED
      BY <3>1
  <2> QED
    BY <2>1, <2>2
<1>6. \/ /\ Len(inbuf.data) >= size + HeaderSize
         /\ got' = Append(got, SubSeq(inbuf.data, HeaderSize + 1, HeaderSize + size))
         /\ inbuf' = Cut(inbuf, size)
      \/ /\ Len(inbuf.data) < size + HeaderSize
         /\ inbuf' = Grown(inbuf, missing)
         /\ got' = got
  BY DEF Split
<1> HIDE DEF size
<1>7. CASE /\ Len(inbuf.data) < size + HeaderSize
           /\ inbuf' = Grown(inbuf, missing)
           /\ got' = got
  <2>1. missing \in Nat
    <3>1. /\ Len(inbuf.data) \in Nat /\ HeaderSize \in Nat /\ size \in Nat
          /\ Len(inbuf.data) < size + HeaderSize
      BY <1>1, <1>5, <1>7
    <3> QED
      BY <3>1
  <2>2. /\ inbuf' \in Buffers /\ inbuf'.data = inbuf.data
        /\ inbuf'.size >= 2 * inbuf.size
    <3> HIDE DEF missing
    <3>1. /\ Grown(inbuf, missing) \in Buffers /\ Grown(inbuf, missing).data = inbuf.data
          /\ Grown(inbuf, missing).size >= 2 * inbuf.size
      BY <2>1, <1>1, GrownKeepsData
    <3> QED
      BY <3>1, <1>7
  <2>3. inbuf'.size \in Nat
    BY <2>2 DEF Buffers
  <2>4. OnTheWay' = OnTheWay
    BY <2>2, <1>2 DEF OnTheWay
  <2>5. BuffersTypeOK' /\ DataStayInside'
    <3>1. Len(inbuf'.data) <= inbuf'.size /\ inbuf'.size >= RecvCapacity
      BY <2>2, <2>3, <1>1
    <3> QED
      BY <3>1, <1>2 DEF BuffersInv, BuffersTypeOK, DataStayInside
  <2> QED
    BY <2>2, <2>4, <2>5, <1>1, <1>2, <1>7, MovingKeeps
<1>8. CASE /\ Len(inbuf.data) >= size + HeaderSize
           /\ got' = Append(got, SubSeq(inbuf.data, HeaderSize + 1, HeaderSize + size))
           /\ inbuf' = Cut(inbuf, size)
  <2>1. PICK s \in Seq(PacketBytes) :
          framed \o s = OnTheWay /\ Stream(put, g + 1) \o s = Stream(put, Len(put))
    BY <1>4
  <2>2. /\ framed \in Seq(PacketBytes) /\ Len(framed) = HeaderSize + size
        /\ Header(size) \in Seq(PacketBytes) /\ Len(Header(size)) = HeaderSize
        /\ Body(g + 1, size) \in Seq(PacketBytes) /\ Len(Body(g + 1, size)) = size
        /\ framed = Header(size) \o Body(g + 1, size)
    <3>1. g + 1 \in Nat
      BY <1>1
    <3>2. framed = Framed(g + 1, size)
      BY <1>5
    <3> HIDE DEF framed, g, size
    <3> QED
      BY <3>1, <3>2, <1>5, FramedIs DEF Framed
  <2> DEFINE way == pipe \o outbuf.data
             rest == SubSeq(inbuf.data, HeaderSize + size + 1, Len(inbuf.data))
             cut == SubSeq(inbuf.data, HeaderSize + 1, HeaderSize + size)
  <2>3. way \in Seq(PacketBytes) /\ OnTheWay = inbuf.data \o way
    <3>1. pipe \in Seq(PacketBytes) /\ outbuf.data \in Seq(PacketBytes)
      BY <1>1
    <3>2. way \in Seq(PacketBytes)
      BY <3>1, ConcatProperties
    <3> QED
      BY <3>2 DEF OnTheWay
  <2>4. Len(framed) <= Len(inbuf.data)
    <3>1. /\ Len(inbuf.data) \in Nat /\ HeaderSize \in Nat /\ size \in Nat
          /\ Len(inbuf.data) >= size + HeaderSize /\ Len(framed) = HeaderSize + size
      BY <2>2, <1>8, <1>1, <1>5
    <3> HIDE DEF framed
    <3> QED
      BY <3>1
  <2>5. inbuf' = [data |-> rest, size |-> inbuf.size] /\ got' = Append(got, cut)
    BY <1>1, <1>8 DEF Cut, Buffers
  <2> HIDE DEF way, framed, size, g
  <2>6. /\ SubSeq(inbuf.data, 1, HeaderSize + size) = framed
        /\ rest \in Seq(PacketBytes) /\ rest \o way = s
    <3>1. framed \o s = inbuf.data \o way /\ framed \in Seq(PacketBytes) /\ s \in Seq(PacketBytes)
          /\ inbuf.data \in Seq(PacketBytes) /\ way \in Seq(PacketBytes)
      BY <2>1, <2>2, <2>3, <1>1
    <3> DEFINE d == inbuf.data
    <3>2. /\ d \in Seq(PacketBytes) /\ framed \in Seq(PacketBytes) /\ s \in Seq(PacketBytes) /\ way \in Seq(PacketBytes)
          /\ SameBytes(framed, s, d, way) /\ Len(framed) <= Len(d)
      BY <3>1, <2>4 DEF SameBytes
    <3> HIDE DEF d
    <3>3. /\ FirstPart(d, Len(framed)) = framed
          /\ Behind(d, Len(framed)) \in Seq(PacketBytes)
          /\ Behind(d, Len(framed)) \o way = s
      BY <3>2, CutInTwo
    <3>4. rest = Behind(d, Len(framed))
      BY <2>2 DEF d, Behind
    <3> HIDE DEF rest
    <3> QED
      BY <3>3, <3>4, <2>2 DEF d, FirstPart
  <2>7. /\ cut \in Seq(PacketBytes) /\ Len(cut) = size
        /\ \A i \in 1 .. size : cut[i] = inbuf.data[HeaderSize + i]
        /\ \A i \in 1 .. size :
             SubSeq(inbuf.data, 1, HeaderSize + size)[HeaderSize + i] = inbuf.data[HeaderSize + i]
        /\ Len(rest) = Len(inbuf.data) - (HeaderSize + size)
    <3>1. HeaderSize \in Nat /\ size \in Nat /\ HeaderSize + size <= Len(inbuf.data)
      BY <2>2, <2>4, <1>1, <1>5
    <3>2. inbuf.data \in Seq(PacketBytes)
      BY <1>1
    <3> QED
      BY <3>1, <3>2, MiddleBytes, Zenon
  <2>8. cut = Body(g + 1, size)
    <3>1. ASSUME NEW i \in 1 .. size PROVE cut[i] = Body(g + 1, size)[i]
      <4>1. HeaderSize + i \in 1 .. HeaderSize + size /\ ~ (HeaderSize + i <= HeaderSize)
        BY <1>1, <1>5
      <4>2. framed[HeaderSize + i] = inbuf.data[HeaderSize + i]
        BY <2>6, <2>7
      <4>3. (Header(size) \o Body(g + 1, size))[HeaderSize + i]
              = Body(g + 1, size)[HeaderSize + i - HeaderSize]
        BY <4>1, <2>2, ConcatProperties, SMTT(30)
      <4>4. HeaderSize + i - HeaderSize = i
        BY <1>1
      <4>5. cut[i] = inbuf.data[HeaderSize + i]
        BY <2>7
      <4> HIDE DEF cut
      <4> QED
        BY <4>2, <4>3, <4>4, <4>5, <2>2
    <3> HIDE DEF cut
    <3> QED
      BY <3>1, <2>2, <2>7, SeqEqual
  <2> HIDE DEF rest
  <2>9. inbuf' \in Buffers /\ inbuf'.data = rest /\ inbuf'.size = inbuf.size
    BY <2>5, <2>6, <1>1 DEF Buffers
  <2>10. /\ got' \in Seq(Seq(PacketBytes)) /\ Len(got') = g + 1 /\ got'[g + 1] = Body(g + 1, size)
         /\ \A n \in 1 .. g : got'[n] = got[n]
    <3>1. cut \in Seq(PacketBytes)
      BY <2>2, <2>8
    <3> HIDE DEF cut
    <3> QED
      BY <3>1, <2>5, <2>8, <1>1, AppendProperties DEF g
  <2>11. BuffersShape'
    BY <2>9, <2>10, <1>1, <1>2 DEF BuffersInv, BuffersShape, FitsABuffer
  <2>12. BuffersTypeOK' /\ DataStayInside'
    <3>1. Len(rest) <= inbuf.size
      <4>1. HeaderSize + size \in Nat /\ Len(inbuf.data) \in Nat /\ inbuf.size \in Nat
            /\ Len(inbuf.data) <= inbuf.size
        BY <1>1, <1>5, SMTT(30)
      <4> QED
        BY <4>1, <2>7
    <3> QED
      BY <3>1, <2>9, <1>1, <1>2 DEF BuffersInv, BuffersTypeOK, DataStayInside
  <2>13. GotWhatWasPut'
    <3>1. Len(got') <= Len(put)
      BY <2>10, <1>4
    <3>2. ASSUME NEW n \in 1 .. Len(got') PROVE got'[n] = Body(n, put[n])
      <4>1. CASE n = g + 1
        BY <4>1, <2>10, <1>5
      <4>2. CASE n # g + 1
        <5>1. n \in 1 .. g
          BY <4>2, <2>10, <1>1
        <5> QED
          BY <5>1, <2>10 DEF BuffersInv, GotWhatWasPut, g
      <4> QED
        BY <4>1, <4>2
    <3> QED
      BY <3>1, <3>2, <1>2 DEF GotWhatWasPut, Body
  <2>14. TheRestIsOnTheWay'
    <3>1. OnTheWay' = s
      BY <2>6, <2>9, <1>2 DEF OnTheWay, way
    <3>2. Stream(put, Len(got')) \o OnTheWay' = Stream(put, Len(put))
      BY <3>1, <2>1, <2>10
    <3> QED
      BY <3>2, <1>2 DEF TheRestIsOnTheWay
  <2>15. StreamBegins'
    BY <1>2 DEF BuffersInv, StreamBegins
  <2> QED
    BY <2>11, <2>12, <2>13, <2>14, <2>15 DEF BuffersInv
<1> QED
  BY <1>6, <1>7, <1>8

LEMMA BuffersInvHolds == BuffersSpec => []BuffersInv
<1>1. BuffersInit' => BuffersInv'
  BY NothingOnTheWay, PTL
<1>2. BuffersInv /\ [BuffersNext]_bufferVars => BuffersInv'
  <2> SUFFICES ASSUME BuffersInv, [BuffersNext]_bufferVars PROVE BuffersInv'
    OBVIOUS
  <2>0. ~ UNCHANGED bufferVars => Len(outbuf.data) <= outbuf.size
    BY DEF BuffersNext
  <2>1. CASE Len(outbuf.data) <= outbuf.size /\ \E size \in PacketSizes : PutPacket(size)
    BY <2>1, PacketPutKeeps
  <2>2. CASE Len(outbuf.data) <= outbuf.size /\ SendSome
    BY <2>2, SendKeeps
  <2>3. CASE RecvSome
    BY <2>3, RecvKeeps
  <2>4. CASE Split
    BY <2>4, SplitKeeps
  <2>5. CASE ResetBuffers
    <3>1. BuffersInit'
      BY <2>5 DEF ResetBuffers, BuffersInit, FreshBuffer
    <3> QED
      BY <3>1, <1>1
  <2>6. CASE UNCHANGED bufferVars
    <3>1. outbuf' = outbuf /\ inbuf' = inbuf /\ pipe' = pipe /\ put' = put /\ got' = got
      BY <2>6 DEF bufferVars
    <3>2. BuffersTypeOK' /\ DataStayInside' /\ OnTheWay' = OnTheWay
      BY <3>1 DEF BuffersInv, BuffersTypeOK, DataStayInside, OnTheWay
    <3> QED
      BY <3>1, <3>2, MovingKeeps DEF BuffersInv, BuffersShape
  <2> QED
    BY <2>0, <2>1, <2>2, <2>3, <2>4, <2>5, <2>6 DEF BuffersNext
<1> QED
  BY NothingOnTheWay, <1>2, PTL DEF BuffersSpec

\* However the socket cuts the stream and whenever the buffers grow, packets come out whole
\* and in order, and a receiver that may not grow any more holds a whole packet.
THEOREM PacketsAreWhole == BuffersSpec => []PacketsComeOutWhole
<1>1. BuffersInv => PacketsComeOutWhole
  <2> SUFFICES ASSUME BuffersInv PROVE PacketsComeOutWhole
    OBVIOUS
  <2>1. /\ put \in Seq(Nat) /\ got \in Seq(Seq(PacketBytes)) /\ Len(got) \in Nat /\ Len(put) \in Nat
        /\ Len(got) <= Len(put) /\ pipe \in Seq(PacketBytes)
        /\ inbuf.data \in Seq(PacketBytes) /\ inbuf.size \in Nat \ {0} /\ Len(inbuf.data) \in Nat
        /\ outbuf.data \in Seq(PacketBytes)
    BY BuffersGrow DEF BuffersInv, BuffersShape, BuffersTypeOK, DataStayInside, Buffers, GotWhatWasPut
  <2>2. Stream(put, Len(got)) \in Seq(PacketBytes)
    BY <2>1, StreamIsBytes
  <2>3. [n \in DOMAIN got |-> Header(Len(got[n])) \o got[n]] = Packets(put, Len(got))
    <3>1. DOMAIN got = 1 .. Len(got)
      BY <2>1
    <3>2. ASSUME NEW n \in 1 .. Len(got) PROVE Header(Len(got[n])) \o got[n] = Framed(n, put[n])
      <4>1. n \in Nat /\ put[n] \in Nat
        BY <2>1, SMTT(30)
      <4>2. got[n] = Body(n, put[n])
        BY DEF BuffersInv, GotWhatWasPut
      <4>3. Len(Body(n, put[n])) = put[n]
        BY <4>1, FramedIs
      <4> QED
        BY <4>2, <4>3 DEF Framed
    <3> QED
      BY <3>1, <3>2 DEF Packets
  <2>4. [n \in DOMAIN put |-> Framed(n, put[n])] = Packets(put, Len(put))
    BY <2>1 DEF Packets
  <2>5. Stream(put, Len(got)) \o inbuf.data \o pipe \o outbuf.data = Stream(put, Len(put))
    <3>1. Stream(put, Len(got)) \o (inbuf.data \o (pipe \o outbuf.data)) = Stream(put, Len(put))
      BY DEF BuffersInv, TheRestIsOnTheWay, OnTheWay
    <3>2. /\ inbuf.data \o pipe \in Seq(PacketBytes)
          /\ inbuf.data \o (pipe \o outbuf.data) = (inbuf.data \o pipe) \o outbuf.data
      BY <2>1, ThreeParts, ConcatProperties
    <3>3. Stream(put, Len(got)) \o ((inbuf.data \o pipe) \o outbuf.data)
            = (Stream(put, Len(got)) \o (inbuf.data \o pipe)) \o outbuf.data
      BY <2>1, <2>2, <3>2, ThreeParts
    <3>4. Stream(put, Len(got)) \o (inbuf.data \o pipe)
            = (Stream(put, Len(got)) \o inbuf.data) \o pipe
      BY <2>1, <2>2, ThreeParts
    <3> QED
      BY <3>1, <3>2, <3>3, <3>4
  <2>6. ASSUME Remaining(inbuf) = 0, ~ MayGrow(inbuf, 0)
        PROVE  /\ "head" \in DOMAIN Head(inbuf.data)
               /\ Len(inbuf.data) >= HeaderSize + Head(inbuf.data).head
    <3>1. Len(inbuf.data) = inbuf.size /\ Len(inbuf.data) > MaxBuffer
      <4>1. inbuf.size - Len(inbuf.data) = 0
        BY <2>6 DEF Remaining
      <4>2. ~ (inbuf.size <= MaxBuffer)
        BY <2>6 DEF MayGrow
      <4> QED
        BY <4>1, <4>2, <2>1, BuffersGrow
    <3>2. /\ Len(got) + 1 \in 1 .. Len(put)
          /\ Head(inbuf.data) = [head |-> put[Len(got) + 1], at |-> 1]
      BY <3>1, <2>1, NextPacketInFront
    <3>3. put[Len(got) + 1] <= MaxBuffer \div 2 /\ put[Len(got) + 1] \in Nat
      BY <3>2, <2>1 DEF BuffersInv, BuffersShape, FitsABuffer
    <3>4. HeaderSize + put[Len(got) + 1] <= MaxBuffer
      BY <3>3, BuffersGrow
    <3>5. "head" \in DOMAIN Head(inbuf.data) /\ Head(inbuf.data).head = put[Len(got) + 1]
      BY <3>2
    <3>6. Len(inbuf.data) >= HeaderSize + put[Len(got) + 1]
      <4>1. Len(inbuf.data) \in Nat /\ MaxBuffer \in Nat /\ HeaderSize \in Nat
        BY <2>1, BuffersGrow
      <4> QED
        BY <4>1, <3>1, <3>3, <3>4
    <3> QED
      BY <3>5, <3>6
  <2> QED
    BY <2>3, <2>4, <2>5, <2>6 DEF BuffersInv, PacketsComeOutWhole, Stream
<1> QED
  BY <1>1, BuffersInvHolds, PTL

\* Nothing is written past the end of a receiver, and of a sender only by a packet that is
\* larger, with its header, than a buffer is at first.
THEOREM BuffersHoldTheirData == BuffersSpec => []DataStayInside
<1>1. BuffersInv => DataStayInside
  BY DEF BuffersInv
<1> QED
  BY <1>1, BuffersInvHolds, PTL

-----------------------------------------------------------------------------
(* The nodes' loads: for any nodes and loads.  The ranges lie end to end,  *)
(* and each round of the bisection that does not find the number's range   *)
(* leaves fewer positions for it.                                          *)

\* A set of numbers that has a bound has a largest one.
LEMMA LargestThere ==
  ASSUME NEW m \in Nat, NEW S \in SUBSET (0 .. m), S # {}
  PROVE  \E x \in S : \A y \in S : x >= y
<1> DEFINE Below == {n \in Nat : m - n \in S}
<1>1. PICK z \in S : TRUE
  OBVIOUS
<1>2. m - z \in Below
  BY <1>1
<1>3. PICK n \in Below : \A j \in Below : n <= j
  <2>1. Below \in SUBSET Nat /\ Below # {}
    BY <1>2
  <2> HIDE DEF Below
  <2> QED
    BY <2>1, Smallest
<1>4. ASSUME NEW y \in S PROVE m - n >= y
  <2>1. m - y \in Below
    BY <1>4
  <2>2. n <= m - y /\ y \in 0 .. m
    BY <1>3, <2>1
  <2> QED
    BY <2>2
<1>5. m - n \in S
  BY <1>3
<1> QED
  BY <1>4, <1>5

\* The ids in increasing order.
IsInOrder(s, ids) ==
  s \in [1 .. Cardinality(ids) -> ids] /\ \A i, j \in DOMAIN s : i < j => s[i] < s[j]

LEMMA OrderExists ==
  ASSUME NEW b \in Nat, NEW all \in SUBSET (0 .. b)
  PROVE  \E s : IsInOrder(s, all)
<1> DEFINE T == {n \in Nat : \A ids \in SUBSET (0 .. b) : Cardinality(ids) = n => \E s : IsInOrder(s, ids)}
<1>1. \A ids \in SUBSET (0 .. b) : IsFiniteSet(ids) /\ Cardinality(ids) \in Nat
  <2> TAKE ids \in SUBSET (0 .. b)
  <2>1. IsFiniteSet(0 .. b)
    BY FS_Interval
  <2> QED
    BY <2>1, FS_Subset, FS_CardinalityType
<1>2. 0 \in T
  <2>1. ASSUME NEW ids \in SUBSET (0 .. b), Cardinality(ids) = 0 PROVE \E s : IsInOrder(s, ids)
    <3>1. ids = {}
      BY <1>1, <2>1, FS_EmptySet
    <3>2. IsInOrder([i \in 1 .. 0 |-> 0], ids)
      <4>1. 1 .. 0 = {}
        OBVIOUS
      <4> QED
        BY <2>1, <4>1 DEF IsInOrder
    <3> QED
      BY <3>2
  <2> QED
    BY <2>1
<1>3. ASSUME NEW n \in T PROVE n + 1 \in T
  <2>1. n \in Nat /\ \A ids \in SUBSET (0 .. b) : Cardinality(ids) = n => \E s : IsInOrder(s, ids)
    OBVIOUS
  <2>2. ASSUME NEW ids \in SUBSET (0 .. b), Cardinality(ids) = n + 1 PROVE \E s : IsInOrder(s, ids)
    <3>1. ids # {}
      BY <2>1, <2>2, FS_EmptySet
    <3>2. PICK m \in ids : \A y \in ids : m >= y
      BY <3>1, LargestThere
    <3>3. Cardinality(ids \ {m}) = n
      <4>1. Cardinality(ids \ {m}) = Cardinality(ids) - 1
        BY <1>1, FS_RemoveElement
      <4> QED
        BY <2>1, <2>2, <4>1
    <3>4. PICK s : IsInOrder(s, ids \ {m})
      BY <2>1, <3>3
    <3>5. s \in [1 .. n -> ids \ {m}] /\ \A i, j \in 1 .. n : i < j => s[i] < s[j]
      BY <3>3, <3>4 DEF IsInOrder
    <3> DEFINE g == [i \in 1 .. n + 1 |-> IF i = n + 1 THEN m ELSE s[i]]
    <3>6. g \in [1 .. n + 1 -> ids]
      <4>1. \A i \in 1 .. n + 1 : i # n + 1 => i \in 1 .. n
        BY <2>1
      <4> QED
        BY <3>5, <4>1
    <3>7. ASSUME NEW i \in 1 .. n + 1, NEW j \in 1 .. n + 1, i < j PROVE g[i] < g[j]
      <4>1. i \in 1 .. n /\ g[i] = s[i] /\ s[i] \in ids /\ s[i] # m
        BY <2>1, <3>5, <3>7
      <4>2. CASE j = n + 1
        <5>1. g[j] = m /\ m >= s[i]
          BY <3>2, <4>1, <4>2
        <5>2. m \in 0 .. b /\ s[i] \in 0 .. b
          BY <3>2, <4>1
        <5> QED
          BY <4>1, <5>1, <5>2
      <4>3. CASE j # n + 1
        <5>1. j \in 1 .. n /\ g[j] = s[j]
          BY <2>1, <4>3
        <5> QED
          BY <3>5, <3>7, <4>1, <5>1
      <4> QED
        BY <4>2, <4>3
    <3>8. DOMAIN g = 1 .. n + 1
      OBVIOUS
    <3> HIDE DEF g
    <3>9. IsInOrder(g, ids)
      BY <2>2, <3>6, <3>7, <3>8 DEF IsInOrder
    <3> QED
      BY <3>9
  <2> QED
    BY <2>1, <2>2
<1>4. T \in SUBSET Nat
  OBVIOUS
<1>5. PICK m \in Nat : m = Cardinality(all)
  BY <1>1
<1>6. m \in T
  <2> HIDE DEF T
  <2>1. \A n \in 0 .. m : n \in T
    BY <1>2, <1>3, <1>4, AllUpTo
  <2> QED
    BY <2>1
<1> QED
  BY <1>5, <1>6

\* Ranges that lie end to end from 0 on.
Tiled(rs) ==
  /\ rs \in Seq([node : NodeIds, min : Nat, max : Nat])
  /\ rs # <<>> => rs[1].min = 0
  /\ \A i \in 1 .. Len(rs) : rs[i].min <= rs[i].max
  /\ \A i \in 1 .. Len(rs) - 1 : rs[i + 1].min = rs[i].max + 1

\* Each range has its node's share, and each node that may be chosen has one range.
Shared(rs, avoid) ==
  /\ \A i \in 1 .. Len(rs) :
       rs[i].node \in Eligible(avoid) /\ rs[i].max - rs[i].min + 1 = Share(rs[i].node)
  /\ \A n \in Eligible(avoid) : \E i \in 1 .. Len(rs) : rs[i].node = n
  /\ \A i, j \in 1 .. Len(rs) : rs[i].node = rs[j].node => i = j

LoadInv ==
  /\ LoadTypeOK
  /\ \E b \in Nat : DOMAIN load \subseteq 0 .. b
  /\ Tiled(ranges) /\ region = RegionOf(ranges)
  /\ ~stale => Shared(ranges, avoided)
  /\ PickIsEligible

\* A node that may be chosen has some share.
LEMMA SomeShare ==
  ASSUME LoadTypeOK, NEW avoid \in SUBSET NodeIds, NEW n \in Eligible(avoid)
  PROVE  Share(n) \in Nat /\ Share(n) >= 1 /\ n \in NodeIds /\ n \in Eligible({})
<1>1. n \in DOMAIN load /\ n \notin avoid /\ load[n] <= MaxLoad
  BY DEF Eligible
<1>2. n \in NodeIds /\ load[n] \in Nat /\ MaxLoad \in Nat
  BY <1>1, LoadsAreNumbers DEF LoadTypeOK
<1> QED
  BY <1>1, <1>2 DEF Share, Eligible

\* The ranges are those of the n nodes of s, with the sums f of their shares.
MadeOf(n, s, f, avoid) ==
  /\ s \in [1 .. n -> Eligible(avoid)] /\ f \in [0 .. n -> Nat]
  /\ \A i, j \in 1 .. n : s[i] = s[j] => i = j
  /\ \A m \in Eligible(avoid) : \E i \in 1 .. n : s[i] = m
  /\ f[0] = 0 /\ \A i \in 1 .. n : f[i] = f[i - 1] + Share(s[i])
  /\ NewRanges(avoid) = [i \in 1 .. n |-> [node |-> s[i], min |-> f[i - 1], max |-> f[i] - 1]]

\* The ranges that are made: the nodes that may be chosen, and sums of their shares.
LEMMA RangesAreSums ==
  ASSUME LoadTypeOK, NEW b \in Nat, DOMAIN load \subseteq 0 .. b, NEW avoid \in SUBSET NodeIds
  PROVE  \E n \in Nat : \E s, f : MadeOf(n, s, f, avoid)
<1> DEFINE ids == Eligible(avoid)
           s == ById(ids)
<1>1. ids \in SUBSET (0 .. b)
  BY DEF Eligible
<1>2. IsInOrder(s, ids)
  <2>1. s = CHOOSE t : IsInOrder(t, ids)
    BY DEF ById, IsInOrder
  <2>2. \E t : IsInOrder(t, ids)
    BY <1>1, OrderExists
  <2> HIDE DEF s, ids
  <2> QED
    BY <2>1, <2>2, Zenon
<1>3. PICK n \in Nat : n = Cardinality(ids)
  <2>1. IsFiniteSet(0 .. b)
    BY FS_Interval
  <2> QED
    BY <1>1, <2>1, FS_Subset, FS_CardinalityType
<1>4. s \in [1 .. n -> ids] /\ Len(s) = n
  <2>1. s \in [1 .. n -> ids]
    BY <1>2, <1>3 DEF IsInOrder
  <2> HIDE DEF s, ids
  <2>2. s \in Seq(ids)
    BY <2>1
  <2> QED
    BY <2>1, <2>2
<1>13. \A i, j \in 1 .. n : s[i] = s[j] => i = j
  <2>1. \A i, j \in 1 .. n : i < j => s[i] < s[j]
    BY <1>2, <1>4 DEF IsInOrder
  <2>2. \A i \in 1 .. n : s[i] \in Nat
    BY <1>1, <1>4
  <2> HIDE DEF s, ids
  <2> QED
    BY <2>1, <2>2
<1>14. \A m \in ids : \E i \in 1 .. n : s[i] = m
  <2> HIDE DEF s, ids
  <2>1. s \in Injection(1 .. n, ids)
    BY <1>4, <1>13 DEF Injection, IsInjective
  <2>2. IsFiniteSet(ids) /\ Cardinality(1 .. n) = Cardinality(ids)
    <3>1. IsFiniteSet(0 .. b) /\ Cardinality(1 .. n) = n
      BY FS_Interval
    <3> QED
      BY <1>1, <1>3, <3>1, FS_Subset
  <2>3. s \in Surjection(1 .. n, ids)
    BY <2>1, <2>2, FS_Injection
  <2> QED
    BY <2>3 DEF Surjection
<1> DEFINE IsSum(f) == f = [i \in 0 .. Len(s) |-> IF i = 0 THEN 0 ELSE f[i - 1] + Share(s[i])]
           g == [i \in 1 .. n |-> [x \in Nat |-> x + Share(s[i])]]
<1>5. \A i \in 1 .. n : s[i] \in ids /\ Share(s[i]) \in Nat
  BY <1>4, SomeShare
<1>6. PICK f \in [0 .. n -> Nat] : f = [k \in 0 .. n |-> IF k = 0 THEN 0 ELSE g[k][f[k - 1]]]
  <2>1. g \in [1 .. n -> [Nat -> Nat]]
    <3> HIDE DEF s, ids
    <3> QED
      BY <1>5
  <2> HIDE DEF g
  <2> DEFINE T == Nat
  <2>2. 0 \in T /\ g \in [1 .. n -> [T -> T]]
    BY <2>1
  <2> HIDE DEF T
  <2>3. \E f \in [0 .. n -> T] : IsPath(f, 0, g, n)
    BY <2>2, StepsExist, Zenon
  <2> QED
    BY <2>3 DEF T, IsPath
<1>7. ASSUME NEW i \in 1 .. n PROVE g[i][f[i - 1]] = f[i - 1] + Share(s[i])
  <2>1. f[i - 1] \in Nat
    <3>1. i - 1 \in 0 .. n
      OBVIOUS
    <3> HIDE DEF g
    <3> QED
      BY <3>1
  <2> HIDE DEF s, ids
  <2> QED
    BY <2>1
<1> HIDE DEF g
<1>8. IsSum(f)
  <2>1. ASSUME NEW k \in 0 .. n
        PROVE  f[k] = IF k = 0 THEN 0 ELSE f[k - 1] + Share(s[k])
    <3>1. f[k] = IF k = 0 THEN 0 ELSE g[k][f[k - 1]]
      BY <1>6
    <3>2. k # 0 => k \in 1 .. n
      OBVIOUS
    <3> HIDE DEF s, ids
    <3> QED
      BY <1>7, <3>1, <3>2
  <2> HIDE DEF s, ids
  <2>2. f = [k \in 0 .. n |-> f[k]]
    BY <1>6
  <2> QED
    BY <1>4, <2>1, <2>2
<1> DEFINE up == CHOOSE f_1 : IsSum(f_1)
<1>9. IsSum(up)
  <2> HIDE DEF IsSum
  <2> QED
    BY <1>8
<1>10. NewRanges(avoid) = [i \in 1 .. Len(s) |-> [node |-> s[i], min |-> up[i - 1], max |-> up[i] - 1]]
  BY DEF NewRanges
<1> HIDE DEF up, s, ids
<1>11. up[0] = 0 /\ \A i \in 1 .. n : up[i] = up[i - 1] + Share(s[i])
  <2>1. \A k \in 0 .. n : up[k] = IF k = 0 THEN 0 ELSE up[k - 1] + Share(s[k])
    BY <1>4, <1>9
  <2> QED
    BY <2>1
<1>12. up \in [0 .. n -> Nat]
  <2> DEFINE M == {k \in Nat : k <= n => up[k] \in Nat}
  <2>1. 0 \in M
    BY <1>11
  <2>2. ASSUME NEW k \in M, k < n PROVE k + 1 \in M
    <3>1. k \in Nat /\ up[k] \in Nat /\ k + 1 \in 1 .. n /\ (k + 1) - 1 = k
      BY <2>2
    <3>2. up[k + 1] = up[k] + Share(s[k + 1])
      BY <1>11, <3>1
    <3> QED
      BY <1>5, <3>1, <3>2
  <2>3. M \in SUBSET Nat
    OBVIOUS
  <2>4. \A k \in 0 .. n : k \in M
    <3> HIDE DEF M
    <3> QED
      BY <2>1, <2>2, <2>3, AllUpTo
  <2>5. \A k \in 0 .. n : up[k] \in Nat
    BY <2>4
  <2>6. up = [k \in 0 .. n |-> up[k]]
    BY <1>4, <1>9
  <2> QED
    BY <2>5, <2>6
<1>15. s \in [1 .. n -> Eligible(avoid)] /\ \A m \in Eligible(avoid) : \E i \in 1 .. n : s[i] = m
  BY <1>4, <1>14 DEF ids
<1>16. NewRanges(avoid) = [i \in 1 .. n |-> [node |-> s[i], min |-> up[i - 1], max |-> up[i] - 1]]
  BY <1>4, <1>10
<1>17. MadeOf(n, s, up, avoid)
  BY <1>11, <1>12, <1>13, <1>15, <1>16, Zenon DEF MadeOf
<1> QED
  BY <1>17, Zenon

LEMMA NewRangesTile ==
  ASSUME LoadTypeOK, NEW b \in Nat, DOMAIN load \subseteq 0 .. b, NEW avoid \in SUBSET NodeIds
  PROVE  Tiled(NewRanges(avoid)) /\ Shared(NewRanges(avoid), avoid)
<1>9. PICK n \in Nat : \E s, f : MadeOf(n, s, f, avoid)
  BY RangesAreSums
<1>0. PICK s, f : MadeOf(n, s, f, avoid)
  BY <1>9, Zenon
<1> s \in [1 .. n -> Eligible(avoid)] /\ f \in [0 .. n -> Nat]
  BY <1>0 DEF MadeOf
<1>1. /\ \A i, j \in 1 .. n : s[i] = s[j] => i = j
      /\ \A m \in Eligible(avoid) : \E i \in 1 .. n : s[i] = m
      /\ f[0] = 0 /\ \A i \in 1 .. n : f[i] = f[i - 1] + Share(s[i])
      /\ NewRanges(avoid) = [i \in 1 .. n |-> [node |-> s[i], min |-> f[i - 1], max |-> f[i] - 1]]
  BY <1>0 DEF MadeOf
<1>2. PICK rs : rs = NewRanges(avoid)
  OBVIOUS
<1>3. rs = [i \in 1 .. n |-> [node |-> s[i], min |-> f[i - 1], max |-> f[i] - 1]]
  BY <1>1, <1>2
<1>4. ASSUME NEW i \in 1 .. n
      PROVE  /\ rs[i] = [node |-> s[i], min |-> f[i - 1], max |-> f[i] - 1]
             /\ f[i - 1] \in Nat /\ f[i] \in Nat /\ f[i] = f[i - 1] + Share(s[i])
             /\ s[i] \in Eligible(avoid) /\ s[i] \in NodeIds /\ Share(s[i]) \in Nat /\ Share(s[i]) >= 1
  <2>1. s[i] \in Eligible(avoid)
    OBVIOUS
  <2>2. Share(s[i]) \in Nat /\ Share(s[i]) >= 1 /\ s[i] \in NodeIds
    BY <2>1, SomeShare
  <2>3. rs[i] = [node |-> s[i], min |-> f[i - 1], max |-> f[i] - 1]
    BY <1>3
  <2>4. f[i - 1] \in Nat /\ f[i] \in Nat
    OBVIOUS
  <2> QED
    BY <1>1, <2>1, <2>2, <2>3, <2>4
<1>5. ASSUME NEW i \in 1 .. n
      PROVE  /\ rs[i] \in [node : NodeIds, min : Nat, max : Nat]
             /\ rs[i].node = s[i] /\ rs[i].min = f[i - 1] /\ rs[i].max = f[i] - 1
             /\ f[i] - 1 >= f[i - 1] /\ (f[i] - 1) - f[i - 1] + 1 = Share(s[i])
  <2>1. PICK from \in Nat, upto \in Nat, share \in Nat :
          from = f[i - 1] /\ upto = f[i] /\ share = Share(s[i])
    BY <1>4
  <2>2. upto = from + share /\ share >= 1
    BY <1>4, <2>1
  <2>3. upto - 1 \in Nat /\ upto - 1 >= from /\ (upto - 1) - from + 1 = share
    BY <2>2
  <2>4. rs[i] = [node |-> s[i], min |-> from, max |-> upto - 1] /\ s[i] \in NodeIds
    BY <1>4, <2>1
  <2> QED
    BY <2>1, <2>3, <2>4
<1>6. rs \in Seq([node : NodeIds, min : Nat, max : Nat]) /\ Len(rs) = n
  BY <1>3, <1>5
<1>7. Tiled(rs)
  <2>1. ASSUME rs # <<>> PROVE rs[1].min = 0
    <3>1. 1 \in 1 .. n
      BY <1>6, <2>1
    <3> QED
      BY <1>1, <1>5, <3>1
  <2>2. ASSUME NEW i \in 1 .. n PROVE rs[i].min <= rs[i].max
    BY <1>4, <1>5
  <2>3. ASSUME NEW i \in 1 .. n - 1 PROVE rs[i + 1].min = rs[i].max + 1
    <3>1. i \in 1 .. n /\ i + 1 \in 1 .. n /\ (i + 1) - 1 = i
      OBVIOUS
    <3>2. f[i] \in Nat /\ rs[i].max = f[i] - 1
      BY <1>4, <1>5, <3>1
    <3>3. rs[i + 1].min = f[i]
      BY <1>5, <3>1
    <3> QED
      BY <3>2, <3>3
  <2> QED
    BY <1>6, <2>1, <2>2, <2>3 DEF Tiled
<1>8. Shared(rs, avoid)
  <2>1. \A m \in Eligible(avoid) : \E i \in 1 .. n : rs[i].node = m
    <3>1. ASSUME NEW m \in Eligible(avoid) PROVE \E i \in 1 .. n : rs[i].node = m
      <4>1. PICK i \in 1 .. n : s[i] = m
        BY <1>1
      <4> QED
        BY <1>5, <4>1
    <3> QED
      BY <3>1
  <2>2. ASSUME NEW i \in 1 .. n, NEW j \in 1 .. n, rs[i].node = rs[j].node PROVE i = j
    <3>1. s[i] = s[j]
      BY <1>5, <2>2
    <3> QED
      BY <1>1, <3>1
  <2>3. \A i \in 1 .. n : rs[i].node \in Eligible(avoid) /\ rs[i].max - rs[i].min + 1 = Share(rs[i].node)
    BY <1>4, <1>5
  <2> QED
    BY <1>6, <2>1, <2>2, <2>3 DEF Shared
<1> QED
  BY <1>2, <1>7, <1>8

\* What a range is.
LEMMA TiledRange ==
  ASSUME NEW rs, Tiled(rs), NEW k \in 1 .. Len(rs)
  PROVE  rs[k].min \in Nat /\ rs[k].max \in Nat /\ rs[k].min <= rs[k].max
<1>1. rs \in Seq([node : NodeIds, min : Nat, max : Nat]) /\ rs[k].min <= rs[k].max
  BY DEF Tiled
<1>2. rs[k] \in [node : NodeIds, min : Nat, max : Nat]
  BY <1>1, ElementOfSeq
<1> QED
  BY <1>1, <1>2

\* What lies further on begins further on.
LEMMA RangesRise ==
  ASSUME NEW rs, Tiled(rs), NEW i \in 1 .. Len(rs), NEW j \in 1 .. Len(rs), i < j
  PROVE  rs[i].max < rs[j].min
<1>1. PICK n \in Nat : n = Len(rs)
  BY DEF Tiled
<1>2. ASSUME NEW k \in 1 .. n
      PROVE  rs[k].min \in Nat /\ rs[k].max \in Nat /\ rs[k].min <= rs[k].max
  BY <1>1, TiledRange
<1>3. \A k \in 1 .. n - 1 : rs[k + 1].min = rs[k].max + 1
  BY <1>1 DEF Tiled
<1>4. i \in 1 .. n /\ j \in 1 .. n
  BY <1>1
<1> DEFINE M == {d \in Nat : i + 1 + d <= n => rs[i].max < rs[i + 1 + d].min}
<1>5. 0 \in M
  <2>1. ASSUME i + 1 <= n PROVE rs[i].max < rs[i + 1].min
    <3>1. i \in 1 .. n - 1
      BY <1>4, <2>1
    <3> QED
      BY <1>2, <1>3, <1>4, <3>1
  <2>2. i + 1 + 0 = i + 1
    BY <1>4
  <2> QED
    BY <2>1, <2>2
<1>6. ASSUME NEW d \in M PROVE d + 1 \in M
  <2>1. d \in Nat /\ (i + 1 + d <= n => rs[i].max < rs[i + 1 + d].min)
    OBVIOUS
  <2>2. PICK k \in Nat : k = i + 1 + d
    BY <1>4, <2>1
  <2>3. i + 1 + (d + 1) = k + 1
    BY <1>4, <2>1, <2>2
  <2>4. ASSUME k + 1 <= n PROVE rs[i].max < rs[k + 1].min
    <3>1. k \in 1 .. n /\ k \in 1 .. n - 1
      BY <1>4, <2>1, <2>2, <2>4
    <3>2. rs[i].max < rs[k].min
      BY <2>1, <2>2, <3>1
    <3>3. rs[k + 1].min = rs[k].max + 1
      BY <1>3, <3>1
    <3>4. rs[k].min \in Nat /\ rs[k].max \in Nat /\ rs[k].min <= rs[k].max /\ rs[i].max \in Nat
      BY <1>2, <1>4, <3>1
    <3> HIDE DEF M
    <3> QED
      BY <3>2, <3>3, <3>4, SMTT(30)
  <2> QED
    BY <2>1, <2>3, <2>4
<1>7. PICK d \in Nat : j = i + 1 + d
  <2>1. j - i - 1 \in Nat /\ j = i + 1 + (j - i - 1)
    BY <1>4
  <2> QED
    BY <2>1
<1>8. M \in SUBSET Nat
  OBVIOUS
<1>9. d \in M
  <2> HIDE DEF M
  <2>1. \A k \in 0 .. d : k \in M
    BY <1>5, <1>6, <1>8, AllUpTo
  <2> QED
    BY <2>1
<1> QED
  BY <1>4, <1>7, <1>9

\* Every number of the region lies in some range.
LEMMA NumberLies ==
  ASSUME NEW rs, Tiled(rs), NEW seed \in 0 .. RegionOf(rs) - 1
  PROVE  \E t \in 1 .. Len(rs) : rs[t].min <= seed /\ seed <= rs[t].max
<1>1. PICK n \in Nat : n = Len(rs)
  BY DEF Tiled
<1>2. rs # <<>>
  BY DEF RegionOf
<1>3. n \in 1 .. n
  BY <1>1, <1>2 DEF Tiled
<1>4. ASSUME NEW k \in 1 .. n
      PROVE  rs[k].min \in Nat /\ rs[k].max \in Nat
  BY <1>1, TiledRange
<1>5. \A k \in 1 .. n - 1 : rs[k + 1].min = rs[k].max + 1
  BY <1>1 DEF Tiled
<1>6. rs[1].min = 0
  BY <1>2 DEF Tiled
<1>7. seed \in Nat /\ seed <= rs[n].max
  <2>1. RegionOf(rs) = rs[n].max + 1
    BY <1>1, <1>2 DEF RegionOf
  <2> QED
    BY <1>3, <1>4, <2>1
<1> DEFINE S == {k \in 1 .. n : seed <= rs[k].max}
<1>8. PICK t \in S : \A k \in S : t <= k
  <2>1. S \in SUBSET Nat /\ n \in S
    BY <1>3, <1>7
  <2> HIDE DEF S
  <2> QED
    BY <2>1, Smallest
<1>9. t \in 1 .. n /\ seed <= rs[t].max
  OBVIOUS
<1>10. rs[t].min <= seed
  <2>1. CASE t = 1
    BY <1>6, <1>7, <2>1
  <2>2. CASE t # 1
    <3>1. t - 1 \in 1 .. n - 1 /\ t - 1 \in 1 .. n /\ (t - 1) + 1 = t
      BY <1>9, <2>2
    <3>2. ~ (seed <= rs[t - 1].max)
      BY <1>8, <1>9, <3>1
    <3>3. rs[t].min = rs[t - 1].max + 1
      BY <1>5, <3>1
    <3> QED
      BY <1>4, <1>7, <3>1, <3>2, <3>3
  <2> QED
    BY <2>1, <2>2
<1> QED
  BY <1>1, <1>9, <1>10

\* One round: the range t of the number stays between the two positions, and either it is the
\* one looked at or there are fewer positions left.
LEMMA RoundNarrows ==
  ASSUME NEW rs, Tiled(rs), NEW seed \in Nat, NEW t \in 1 .. Len(rs),
         rs[t].min <= seed, seed <= rs[t].max,
         NEW between \in [lo : Int, hi : Int],
         0 <= between.lo, between.lo <= t - 1, t - 1 <= between.hi, between.hi <= Len(rs)
  PROVE  LET next == Narrowed(rs, seed, between)
         IN  /\ next \in [lo : Int, hi : Int]
             /\ 0 <= next.lo /\ next.lo <= t - 1 /\ t - 1 <= next.hi /\ next.hi <= Len(rs)
             /\ \/ next = between /\ Middle(between) = t - 1
                \/ next.hi - next.lo < between.hi - between.lo
<1>1. PICK n \in Nat : n = Len(rs)
  BY DEF Tiled
<1>2. PICK lo \in Int, hi \in Int : lo = between.lo /\ hi = between.hi
  OBVIOUS
<1>3. PICK pos \in Int : pos = (lo + hi) \div 2
  OBVIOUS
<1>4. Middle(between) = pos
  BY <1>2, <1>3 DEF Middle
<1>5. t \in 1 .. n /\ 0 <= lo /\ lo <= t - 1 /\ t - 1 <= hi /\ hi <= n
  BY <1>1, <1>2
<1>6. lo <= pos /\ pos <= hi /\ pos <= n - 1 /\ pos + 1 \in 1 .. n
  BY <1>3, <1>5
<1>7. between = [lo |-> lo, hi |-> hi]
  BY <1>2
<1> DEFINE r == rs[pos + 1]
           next == Narrowed(rs, seed, between)
<1>8. r.min \in Nat /\ r.max \in Nat /\ r.min <= r.max
  BY <1>1, <1>6, TiledRange
<1>9. next = IF r.min <= seed /\ seed <= r.max THEN between
             ELSE IF r.max < seed THEN [between EXCEPT !.lo = pos + 1]
             ELSE [between EXCEPT !.hi = pos - 1]
  <2>1. ~ (pos > Len(rs) - 1)
    BY <1>1, <1>6
  <2> QED
    BY <1>4, <2>1 DEF Narrowed
<1>10. rs[t].min \in Nat /\ rs[t].max \in Nat
  BY TiledRange
<1>11. PICK at, from, upto : at = pos + 1 /\ from = r.min /\ upto = r.max
  OBVIOUS
<1> HIDE DEF next
<1>12. CASE r.min <= seed /\ seed <= r.max
  <2>1. ASSUME pos + 1 < t PROVE FALSE
    <3>1. r.max < rs[t].min
      BY <1>1, <1>5, <1>6, <2>1, RangesRise
    <3> QED
      BY <1>8, <1>10, <1>12, <3>1
  <2>2. ASSUME t < pos + 1 PROVE FALSE
    <3>1. rs[t].max < r.min
      BY <1>1, <1>5, <1>6, <2>2, RangesRise
    <3> QED
      BY <1>8, <1>10, <1>12, <3>1
  <2>3. pos = t - 1
    BY <1>5, <1>6, <2>1, <2>2
  <2>4. next = between
    BY <1>9, <1>12
  <2> QED
    BY <1>1, <1>2, <1>4, <1>5, <2>3, <2>4 DEF next
<1>13. CASE r.max < seed
  <2>1. next = [lo |-> pos + 1, hi |-> hi]
    <3>1. ~ (r.min <= seed /\ seed <= r.max)
      BY <1>8, <1>13
    <3> QED
      BY <1>7, <1>9, <1>13, <3>1
  <2>2. ASSUME ~ (pos + 1 < t) PROVE FALSE
    <3>1. pos + 1 = t \/ t < pos + 1
      BY <1>5, <1>6, <2>2
    <3>2. ASSUME t < pos + 1 PROVE FALSE
      <4>1. rs[t].max < r.min
        BY <1>1, <1>5, <1>6, <3>2, RangesRise
      <4> QED
        BY <1>8, <1>10, <1>13, <4>1
    <3> QED
      BY <1>8, <1>13, <3>1, <3>2
  <2>3. pos + 1 <= t - 1 /\ 0 <= pos + 1 /\ hi - (pos + 1) < hi - lo
    BY <1>5, <1>6, <2>2
  <2>4. next.lo = pos + 1 /\ next.hi = hi /\ next \in [lo : Int, hi : Int]
    BY <2>1
  <2>5. next.hi - next.lo < between.hi - between.lo
    BY <1>2, <2>3, <2>4
  <2> QED
    BY <1>1, <1>5, <2>3, <2>4, <2>5 DEF next
<1>14. CASE ~ (r.min <= seed /\ seed <= r.max) /\ ~ (r.max < seed)
  <2>1. next = [lo |-> lo, hi |-> pos - 1]
    BY <1>7, <1>9, <1>14
  <2>2. seed < r.min
    BY <1>8, <1>14
  <2>3. ASSUME ~ (t < pos + 1) PROVE FALSE
    <3>1. pos + 1 = t \/ pos + 1 < t
      BY <1>5, <1>6, <2>3
    <3>2. ASSUME pos + 1 < t PROVE FALSE
      <4>1. r.max < rs[t].min
        BY <1>1, <1>5, <1>6, <3>2, RangesRise
      <4> QED
        BY <1>8, <1>10, <2>2, <4>1
    <3> QED
      BY <1>8, <2>2, <3>1, <3>2
  <2>4. t - 1 <= pos - 1 /\ pos - 1 <= n /\ (pos - 1) - lo < hi - lo
    BY <1>5, <1>6, <2>3
  <2>5. next.lo = lo /\ next.hi = pos - 1 /\ next \in [lo : Int, hi : Int]
    BY <2>1
  <2>6. next.hi - next.lo < between.hi - between.lo
    BY <1>2, <2>4, <2>5
  <2> QED
    BY <1>1, <1>5, <2>4, <2>5, <2>6 DEF next
<1> QED
  BY <1>12, <1>13, <1>14

\* The search finds the range of a number.
LEMMA SearchFinds ==
  ASSUME NEW rs, Tiled(rs), NEW seed \in Nat, NEW t \in 1 .. Len(rs),
         rs[t].min <= seed, seed <= rs[t].max
  PROVE  LocateServer(rs, seed) = rs[t].node
<1>1. PICK n \in Nat : n = Len(rs)
  BY DEF Tiled
<1> DEFINE T == [lo : Int, hi : Int]
           Holds(b) == 0 <= b.lo /\ b.lo <= t - 1 /\ t - 1 <= b.hi /\ b.hi <= Len(rs)
           Z == {b \in T : Holds(b)}
           start == [lo |-> 0, hi |-> Len(rs)]
           g == [k \in 1 .. n |-> [b \in Z |-> Narrowed(rs, seed, b)]]
           IsSearch(f) == f = [k \in 0 .. Len(rs) |-> IF k = 0 THEN start ELSE Narrowed(rs, seed, f[k - 1])]
<1>2. ASSUME NEW b \in Z
      PROVE  /\ Narrowed(rs, seed, b) \in Z
             /\ \/ Narrowed(rs, seed, b) = b /\ Middle(b) = t - 1
                \/ Narrowed(rs, seed, b).hi - Narrowed(rs, seed, b).lo < b.hi - b.lo
  <2>1. b \in T /\ 0 <= b.lo /\ b.lo <= t - 1 /\ t - 1 <= b.hi /\ b.hi <= Len(rs)
    OBVIOUS
  <2>2. PICK next : next = Narrowed(rs, seed, b)
    OBVIOUS
  <2>3. /\ next \in T
        /\ 0 <= next.lo /\ next.lo <= t - 1 /\ t - 1 <= next.hi /\ next.hi <= Len(rs)
        /\ \/ next = b /\ Middle(b) = t - 1
           \/ next.hi - next.lo < b.hi - b.lo
    BY <2>1, <2>2, RoundNarrows
  <2> QED
    BY <2>2, <2>3
<1>3. start \in Z
  <2>1. t - 1 <= Len(rs) /\ 0 <= t - 1 /\ Len(rs) \in Int
    BY <1>1
  <2> QED
    BY <2>1
<1>4. PICK f \in [0 .. n -> Z] : f = [k \in 0 .. n |-> IF k = 0 THEN start ELSE g[k][f[k - 1]]]
  <2>1. g \in [1 .. n -> [Z -> Z]]
    <3> HIDE DEF Z
    <3> QED
      BY <1>2
  <2> HIDE DEF Z, g, start
  <2>2. \E f \in [0 .. n -> Z] : IsPath(f, start, g, n)
    BY <1>3, <2>1, StepsExist, Zenon
  <2> QED
    BY <2>2 DEF IsPath
<1>5. IsSearch(f)
  <2>1. ASSUME NEW k \in 0 .. n
        PROVE  f[k] = IF k = 0 THEN start ELSE Narrowed(rs, seed, f[k - 1])
    <3>1. f[k] = IF k = 0 THEN start ELSE g[k][f[k - 1]]
      <4> HIDE DEF Z, g, start
      <4> QED
        BY <1>4
    <3>2. CASE k = 0
      BY <3>1, <3>2
    <3>3. CASE k # 0
      <4>1. k \in 1 .. n /\ k - 1 \in 0 .. n
        BY <3>3
      <4> HIDE DEF Z
      <4>2. f[k - 1] \in Z
        BY <4>1
      <4>3. g[k][f[k - 1]] = Narrowed(rs, seed, f[k - 1])
        BY <4>1, <4>2
      <4> QED
        BY <3>1, <3>3, <4>3
    <3> QED
      BY <3>2, <3>3
  <2> HIDE DEF Z, g, start
  <2>2. f = [k \in 0 .. n |-> f[k]]
    BY <1>4
  <2> QED
    BY <1>1, <2>1, <2>2
<1> DEFINE search == CHOOSE s : IsSearch(s)
<1>6. IsSearch(search)
  <2> HIDE DEF IsSearch
  <2> QED
    BY <1>5
<1>7. LocateServer(rs, seed) =
        IF Middle(search[Len(rs)]) > Len(rs) - 1 THEN rs[Len(rs)].node
        ELSE rs[Middle(search[Len(rs)]) + 1].node
  BY DEF LocateServer
<1>8. search[0] = start /\ \A k \in 1 .. n : search[k] = Narrowed(rs, seed, search[k - 1])
  <2> HIDE DEF search, start
  <2>1. ASSUME NEW k \in 0 .. n
        PROVE  search[k] = IF k = 0 THEN start ELSE Narrowed(rs, seed, search[k - 1])
    BY <1>1, <1>6
  <2>2. search[0] = start
    BY <2>1
  <2>3. ASSUME NEW k \in 1 .. n PROVE search[k] = Narrowed(rs, seed, search[k - 1])
    <3>1. k \in 0 .. n /\ k # 0
      OBVIOUS
    <3> QED
      BY <2>1, <3>1
  <2> QED
    BY <2>2, <2>3
<1> HIDE DEF search, g, IsSearch
<1> DEFINE Near(k) == /\ search[k] \in Z
                      /\ Middle(search[k]) = t - 1 \/ search[k].hi - search[k].lo <= n - k
           M == {k \in Nat : k <= n => Near(k)}
<1>9. 0 \in M
  <2>1. start.hi - start.lo <= n - 0
    BY <1>1
  <2> HIDE DEF start
  <2> QED
    BY <1>3, <1>8, <2>1
<1>10. ASSUME NEW k \in M, k < n PROVE k + 1 \in M
  <2>1. k \in Nat /\ k <= n /\ Near(k)
    BY <1>10
  <2>2. PICK b, next : b = search[k] /\ next = search[k + 1]
    OBVIOUS
  <2>3. b \in Z /\ (Middle(b) = t - 1 \/ b.hi - b.lo <= n - k)
    BY <2>1, <2>2
  <2>4. next = Narrowed(rs, seed, b)
    <3>1. k + 1 \in 1 .. n /\ (k + 1) - 1 = k
      BY <1>10, <2>1
    <3> QED
      BY <1>8, <2>2, <3>1
  <2>5. next \in Z /\ ((next = b /\ Middle(b) = t - 1) \/ next.hi - next.lo < b.hi - b.lo)
    <3> HIDE DEF Z
    <3> QED
      BY <1>2, <2>3, <2>4
  <2>6. Middle(next) = t - 1 \/ next.hi - next.lo <= n - (k + 1)
    <3>1. CASE next = b /\ Middle(b) = t - 1
      BY <3>1
    <3>2. CASE next.hi - next.lo < b.hi - b.lo
      <4>1. PICK p, q, r, s \in Int : p = next.hi /\ q = next.lo /\ r = b.hi /\ s = b.lo
        BY <2>3, <2>5
      <4>2. CASE b.hi - b.lo <= n - k
        <5>1. k \in Int /\ n \in Int /\ p - q < r - s /\ r - s <= n - k
          BY <2>1, <3>2, <4>1, <4>2
        <5>2. p - q <= n - (k + 1)
          BY <5>1
        <5> QED
          BY <4>1, <5>2
      <4>3. CASE Middle(b) = t - 1 /\ ~ (b.hi - b.lo <= n - k)
        <5>1. b.lo \in Int /\ b.hi \in Int /\ 0 <= b.lo /\ b.lo <= t - 1 /\ t - 1 <= b.hi /\ b.hi <= Len(rs)
          BY <2>3
        <5>2. next = b
          BY <2>4, <5>1, <4>3, SMTT(30) DEF Narrowed
        <5> QED
          BY <4>3, <5>2
      <4> QED
        BY <2>3, <4>2, <4>3
    <3> QED
      BY <2>5, <3>1, <3>2
  <2> QED
    BY <2>1, <2>2, <2>5, <2>6
<1>11. Near(n)
  <2>1. M \in SUBSET Nat
    OBVIOUS
  <2>2. \A k \in 0 .. n : k \in M
    <3> HIDE DEF M
    <3> QED
      BY <1>9, <1>10, <2>1, AllUpTo
  <2> HIDE DEF Near
  <2> QED
    BY <2>2
<1>12. Middle(search[n]) = t - 1
  <2>1. PICK b : b = search[n]
    OBVIOUS
  <2>2. b.lo \in Int /\ b.hi \in Int /\ b.lo <= t - 1 /\ t - 1 <= b.hi /\ t - 1 \in Int
    BY <1>11, <2>1
  <2>3. CASE b.hi - b.lo <= n - n
    <3>1. b.hi = t - 1 /\ b.lo = t - 1
      <4>1. PICK lo \in Int, hi \in Int, at \in Int : lo = b.lo /\ hi = b.hi /\ at = t - 1
        BY <2>2
      <4>2. hi - lo <= 0 /\ lo <= at /\ at <= hi
        BY <2>2, <2>3, <4>1
      <4>3. hi = at /\ lo = at
        BY <4>2
      <4> QED
        BY <4>1, <4>3
    <3>2. ((t - 1) + (t - 1)) \div 2 = t - 1
      BY <2>2
    <3> QED
      BY <2>1, <3>1, <3>2 DEF Middle
  <2> QED
    BY <1>11, <2>1, <2>3
<1>13. ~ (t - 1 > n - 1) /\ (t - 1) + 1 = t
  BY <1>1
<1> QED
  BY <1>1, <1>7, <1>12, <1>13

LEMMA RegionIsNumber == ASSUME NEW rs, Tiled(rs) PROVE RegionOf(rs) \in Nat /\ (rs # <<>> => RegionOf(rs) >= 1)
<1>1. CASE rs = <<>>
  BY <1>1 DEF RegionOf
<1>2. CASE rs # <<>>
  <2>1. Len(rs) \in 1 .. Len(rs)
    BY <1>2 DEF Tiled
  <2>2. rs[Len(rs)].max \in Nat
    BY <2>1, TiledRange
  <2> QED
    BY <1>2, <2>2 DEF RegionOf
<1> QED
  BY <1>1, <1>2

\* Whatever number is drawn, the node that is found may be chosen.
LEMMA FoundIsEligible ==
  ASSUME NEW rs, Tiled(rs), NEW avoid \in SUBSET NodeIds, Shared(rs, avoid), rs # <<>>,
         NEW seed \in 0 .. RegionOf(rs) - 1
  PROVE  LocateServer(rs, seed) \in Eligible(avoid)
<1>1. PICK t \in 1 .. Len(rs) : rs[t].min <= seed /\ seed <= rs[t].max
  BY NumberLies
<1>2. LocateServer(rs, seed) = rs[t].node
  BY <1>1, SearchFinds
<1> QED
  BY <1>2 DEF Shared

LEMMA EligibleIsListed ==
  ASSUME LoadTypeOK, NEW avoid
  PROVE  Eligible(avoid) \subseteq NodeIds /\ Eligible(avoid) \subseteq Eligible({})
BY DEF Eligible, LoadTypeOK

\* What both forms of select_node do to the ranges.
LEMMA ChoiceKeeps ==
  ASSUME LoadInv, NEW avoid \in SUBSET NodeIds, NEW left \in SUBSET NodeIds, avoid \subseteq left,
         NEW rs, Tiled(rs), Shared(rs, left), avoided' = left,
         ranges' = rs, region' = RegionOf(rs), stale' = FALSE, load' = load,
         NEW seed \in 0 .. IF rs = <<>> THEN 0 ELSE RegionOf(rs) - 1, Choose(rs, seed, avoid)
  PROVE  LoadInv'
<1>1. LoadTypeOK
  BY DEF LoadInv
<1>2. picked' = [node |-> IF rs = <<>> THEN 0 ELSE LocateServer(rs, seed), avoid |-> avoid]
  BY DEF Choose
<1>3. picked'.avoid = avoid /\ picked'.node \in Eligible(avoid) \cup {0}
  <2>1. CASE rs = <<>>
    BY <1>2, <2>1
  <2>2. CASE rs # <<>>
    <3>1. seed \in 0 .. RegionOf(rs) - 1
      BY <2>2
    <3>2. LocateServer(rs, seed) \in Eligible(left)
      BY <2>2, <3>1, FoundIsEligible
    <3>3. Eligible(left) \subseteq Eligible(avoid)
      BY DEF Eligible
    <3> QED
      BY <1>2, <2>2, <3>2, <3>3
  <2> QED
    BY <2>1, <2>2
<1>4. picked' \in [node : NodeIds \cup {0}, avoid : SUBSET NodeIds]
  BY <1>1, <1>2, <1>3, EligibleIsListed
<1>5. Eligible(avoid)' = Eligible(avoid) /\ Eligible({})' = Eligible({})
  BY DEF Eligible
<1>6. PickIsEligible'
  <2>1. Eligible(picked.avoid)' = Eligible(picked'.avoid)
    BY DEF Eligible
  <2> QED
    BY <1>3, <2>1 DEF PickIsEligible
<1>7. Shared(ranges, avoided)'
  <2>1. Eligible(avoided)' = Eligible(left) /\ \A n : Share(n)' = Share(n)
    BY DEF Eligible, Share
  <2> QED
    BY <2>1 DEF Shared
<1>8. Tiled(ranges)' /\ (region = RegionOf(ranges))'
  <2>1. Tiled(ranges)' <=> Tiled(ranges')
    BY DEF Tiled
  <2>2. RegionOf(ranges)' = RegionOf(ranges')
    BY DEF RegionOf
  <2> QED
    BY <2>1, <2>2
<1>9. LoadTypeOK'
  <2>1. region' \in Nat /\ stale' \in BOOLEAN /\ avoided' \in SUBSET NodeIds
    BY RegionIsNumber
  <2>2. ranges' \in Seq([node : NodeIds, min : Nat, max : Nat])
    BY DEF Tiled
  <2>3. DOMAIN load' \subseteq NodeIds /\ \A n \in DOMAIN load' : load'[n] \in Loads
    BY <1>1 DEF LoadTypeOK
  <2> QED
    BY <1>4, <2>1, <2>2, <2>3 DEF LoadTypeOK
<1>10. (\E b \in Nat : DOMAIN load \subseteq 0 .. b)'
  BY DEF LoadInv
<1> QED
  BY <1>6, <1>7, <1>8, <1>9, <1>10 DEF LoadInv

\* A change of a node makes the ranges stale.
LEMMA ChangeKeeps ==
  ASSUME LoadInv, NEW n \in NodeIds, DOMAIN load' \subseteq DOMAIN load \cup {n},
         \A m \in DOMAIN load' : load'[m] \in Loads,
         stale' = TRUE, picked' = NoChoice, UNCHANGED <<ranges, region, avoided>>
  PROVE  LoadInv'
<1>1. (\E b \in Nat : DOMAIN load \subseteq 0 .. b)'
  <2>1. PICK b \in Nat : DOMAIN load \subseteq 0 .. b
    BY DEF LoadInv
  <2>2. n \in Nat
    BY IdsAreNotNone
  <2>3. b + n \in Nat /\ DOMAIN load' \subseteq 0 .. b + n
    BY <2>1, <2>2
  <2> QED
    BY <2>3
<1>2. LoadTypeOK'
  <2>1. DOMAIN load' \subseteq NodeIds
    BY DEF LoadInv, LoadTypeOK
  <2>2. picked' \in [node : NodeIds \cup {0}, avoid : SUBSET NodeIds]
    BY DEF NoChoice
  <2>3. /\ ranges' \in Seq([node : NodeIds, min : Nat, max : Nat]) /\ region' \in Nat
        /\ stale' \in BOOLEAN /\ avoided' \in SUBSET NodeIds
    BY DEF LoadInv, LoadTypeOK
  <2> QED
    BY <2>1, <2>2, <2>3 DEF LoadTypeOK
<1>3. PickIsEligible'
  <2>1. picked'.node = 0
    BY DEF NoChoice
  <2> QED
    BY <2>1 DEF PickIsEligible
<1>4. Tiled(ranges)' /\ (region = RegionOf(ranges))' /\ (~stale => Shared(ranges, avoided))'
  BY DEF LoadInv, Tiled, RegionOf
<1> QED
  BY <1>1, <1>2, <1>3, <1>4 DEF LoadInv

\* What the invariant says of the next choice.
LEMMA NumbersHaveTheirNodes ==
  ASSUME LoadInv
  PROVE  ChoiceFollowsLoad
<1>1. PickIsEligible
  BY DEF LoadInv
<1>2. ASSUME ~stale, NEW n \in NodeIds
      PROVE  Cardinality(NumbersOf(n)) = IF n \in Eligible(avoided) THEN Share(n) ELSE 0
  <2>1. /\ Tiled(ranges) /\ region = RegionOf(ranges) /\ Shared(ranges, avoided)
        /\ LoadTypeOK /\ region \in Nat /\ avoided \in SUBSET NodeIds
    BY <1>2 DEF LoadInv, LoadTypeOK
  <2>2. CASE n \notin Eligible(avoided)
    <3>1. ASSUME NEW seed \in 0 .. region - 1 PROVE LocateServer(ranges, seed) # n
      <4>1. ranges # <<>>
        BY <2>1 DEF RegionOf
      <4> QED
        BY <2>1, <2>2, <4>1, FoundIsEligible
    <3>2. NumbersOf(n) = {}
      BY <3>1 DEF NumbersOf
    <3> QED
      BY <2>2, <3>2, FS_EmptySet
  <2>3. CASE n \in Eligible(avoided)
    <3>1. PICK t \in 1 .. Len(ranges) : ranges[t].node = n
      BY <2>1, <2>3 DEF Shared
    <3>2. PICK from \in Nat, upto \in Nat :
            from = ranges[t].min /\ upto = ranges[t].max /\ from <= upto /\ upto - from + 1 = Share(n)
      BY <2>1, <3>1, TiledRange DEF Shared
    <3>3. upto <= region - 1
      <4>1. ranges # <<>> /\ Len(ranges) \in 1 .. Len(ranges)
        BY <2>1, <3>1 DEF Tiled
      <4>2. PICK last \in Nat : last = ranges[Len(ranges)].max /\ ranges[Len(ranges)].min <= last
                                 /\ ranges[Len(ranges)].min \in Nat
        BY <2>1, <4>1, TiledRange
      <4>3. region = last + 1
        BY <2>1, <4>1, <4>2 DEF RegionOf
      <4>4. CASE t = Len(ranges)
        BY <3>2, <4>2, <4>3, <4>4
      <4>5. CASE t # Len(ranges)
        <5>1. t < Len(ranges)
          BY <2>1, <4>5 DEF Tiled
        <5>2. ranges[t].max < ranges[Len(ranges)].min
          BY <2>1, <4>1, <5>1, RangesRise
        <5> QED
          BY <3>2, <4>2, <4>3, <5>2
      <4> QED
        BY <4>4, <4>5
    <3>4. ASSUME NEW seed \in 0 .. region - 1, LocateServer(ranges, seed) = n
          PROVE  seed \in from .. upto
      <4>1. PICK k \in 1 .. Len(ranges) : ranges[k].min <= seed /\ seed <= ranges[k].max
        BY <2>1, NumberLies
      <4>2. ranges[k].node = n
        <5>1. seed \in Nat
          OBVIOUS
        <5> QED
          BY <2>1, <3>4, <4>1, <5>1, SearchFinds
      <4>3. k = t
        BY <2>1, <3>1, <4>2 DEF Shared
      <4> QED
        BY <3>2, <4>1, <4>3
    <3>5. ASSUME NEW seed \in from .. upto
          PROVE  seed \in 0 .. region - 1 /\ LocateServer(ranges, seed) = n
      <4>1. seed \in Nat /\ ranges[t].min <= seed /\ seed <= ranges[t].max
        BY <3>2
      <4>2. LocateServer(ranges, seed) = ranges[t].node
        BY <2>1, <4>1, SearchFinds
      <4> QED
        BY <2>1, <3>1, <3>2, <3>3, <4>1, <4>2
    <3>6. NumbersOf(n) = from .. upto
      BY <3>4, <3>5 DEF NumbersOf
    <3>7. Cardinality(from .. upto) = upto - from + 1
      <4>1. Cardinality(from .. upto) = IF from > upto THEN 0 ELSE upto - from + 1
        BY FS_Interval
      <4> QED
        BY <3>2, <4>1
    <3>8. Cardinality(NumbersOf(n)) = Share(n)
      BY <3>2, <3>6, <3>7, Zenon
    <3> QED
      BY <2>3, <3>8, Zenon
  <2> QED
    BY <2>2, <2>3
<1> QED
  BY <1>1, <1>2 DEF ChoiceFollowsLoad, RangesAreShares

LEMMA LoadStarts == LoadInit => LoadInv
<1>1. SUFFICES ASSUME LoadInit PROVE LoadInv
  OBVIOUS
<1>2. load = <<>> /\ ranges = <<>> /\ region = 0 /\ stale = TRUE /\ picked = NoChoice /\ avoided = {}
  BY <1>1 DEF LoadInit
<1>3. DOMAIN load = {}
  BY <1>2
<1>4. LoadTypeOK
  <2>1. <<>> \in Seq([node : NodeIds, min : Nat, max : Nat])
    OBVIOUS
  <2>2. NoChoice \in [node : NodeIds \cup {0}, avoid : SUBSET NodeIds]
    BY DEF NoChoice
  <2> QED
    BY <1>2, <1>3, <2>1, <2>2 DEF LoadTypeOK
<1>5. Tiled(ranges) /\ region = RegionOf(ranges)
  <2>1. Len(<<>>) = 0 /\ 1 .. 0 = {} /\ 1 .. 0 - 1 = {}
    OBVIOUS
  <2> QED
    BY <1>2, <1>4, <2>1 DEF Tiled, RegionOf, LoadTypeOK
<1>6. PickIsEligible
  BY <1>2 DEF PickIsEligible, NoChoice
<1> QED
  BY <1>2, <1>3, <1>4, <1>5, <1>6 DEF LoadInv

LEMMA LoadKept == LoadInv /\ [LoadNext]_loadVars => LoadInv'
<1>1. SUFFICES ASSUME LoadInv, [LoadNext]_loadVars PROVE LoadInv'
  OBVIOUS
<1>2. PICK b \in Nat : DOMAIN load \subseteq 0 .. b
  BY <1>1 DEF LoadInv
<1>3. LoadTypeOK
  BY <1>1 DEF LoadInv
<1>4. ASSUME NEW n \in NodeIds, DelNode(n) PROVE LoadInv'
  <2>1. load' = [m \in DOMAIN load \ {n} |-> load[m]]
    BY <1>4 DEF DelNode, Restrict
  <2>2. DOMAIN load' \subseteq DOMAIN load \cup {n} /\ \A m \in DOMAIN load' : load'[m] \in Loads
    BY <1>3, <2>1 DEF LoadTypeOK
  <2>3. stale' = TRUE /\ picked' = NoChoice /\ UNCHANGED <<ranges, region, avoided>>
    BY <1>4 DEF DelNode
  <2> QED
    BY <1>1, <2>2, <2>3, ChangeKeeps
<1>5. ASSUME NEW n \in NodeIds, NEW l \in Loads, AddNode(n, l) PROVE LoadInv'
  <2>1. load' = [m \in DOMAIN load \cup {n} |-> IF m = n THEN l ELSE load[m]]
    BY <1>5 DEF AddNode
  <2>2. DOMAIN load' \subseteq DOMAIN load \cup {n} /\ \A m \in DOMAIN load' : load'[m] \in Loads
    BY <1>3, <2>1 DEF LoadTypeOK
  <2>3. stale' = TRUE /\ picked' = NoChoice /\ UNCHANGED <<ranges, region, avoided>>
    BY <1>5 DEF AddNode
  <2> QED
    BY <1>1, <2>2, <2>3, ChangeKeeps
<1>6. ASSUME SelectNode PROVE LoadInv'
  <2>1. PICK rs : rs = IF stale THEN NewRanges({}) ELSE ranges
    OBVIOUS
  <2>5. PICK left \in SUBSET NodeIds : left = IF stale THEN {} ELSE avoided
    BY <1>3 DEF LoadTypeOK
  <2>2. /\ ranges' = rs /\ region' = RegionOf(rs) /\ stale' = FALSE /\ load' = load /\ avoided' = left
        /\ \E seed \in 0 .. IF rs = <<>> THEN 0 ELSE RegionOf(rs) - 1 : Choose(rs, seed, {})
    BY <1>6, <2>1, <2>5 DEF SelectNode
  <2>3. Tiled(rs) /\ Shared(rs, left)
    <3>1. CASE stale
      <4>1. {} \in SUBSET NodeIds
        OBVIOUS
      <4> QED
        BY <1>2, <1>3, <2>1, <2>5, <3>1, <4>1, NewRangesTile
    <3>2. CASE ~stale
      BY <1>1, <2>1, <2>5, <3>2 DEF LoadInv
    <3> QED
      BY <3>1, <3>2
  <2>4. PICK seed \in 0 .. IF rs = <<>> THEN 0 ELSE RegionOf(rs) - 1 : Choose(rs, seed, {})
    BY <2>2
  <2> QED
    BY <1>1, <2>2, <2>3, <2>4, ChoiceKeeps
<1>7. ASSUME NEW avoid \in SUBSET NodeIds, SelectAvoiding(avoid) PROVE LoadInv'
  <2>1. PICK rs : rs = NewRanges(avoid)
    OBVIOUS
  <2>2. /\ ranges' = rs /\ region' = RegionOf(rs) /\ stale' = FALSE /\ load' = load /\ avoided' = avoid
        /\ \E seed \in 0 .. IF rs = <<>> THEN 0 ELSE RegionOf(rs) - 1 : Choose(rs, seed, avoid)
    BY <1>7, <2>1 DEF SelectAvoiding
  <2>3. Tiled(rs) /\ Shared(rs, avoid)
    BY <1>2, <1>3, <2>1, NewRangesTile
  <2>4. PICK seed \in 0 .. IF rs = <<>> THEN 0 ELSE RegionOf(rs) - 1 : Choose(rs, seed, avoid)
    BY <2>2
  <2> QED
    BY <1>1, <2>2, <2>3, <2>4, ChoiceKeeps
<1>8. CASE UNCHANGED loadVars
  BY <1>1, <1>8 DEF LoadInv, LoadTypeOK, Tiled, RegionOf, Shared, Eligible, Share, PickIsEligible, loadVars
<1> QED
  BY <1>1, <1>4, <1>5, <1>6, <1>7, <1>8 DEF LoadNext

\* A node that is chosen is listed, not overloaded and not to be avoided; and unless the ranges
\* will be made anew, the bisection finds every node that may be chosen for as many numbers of
\* the region as its present load allows and every other node for none, where those that were
\* to be avoided when the ranges were made may not be chosen.
THEOREM ChoicesFollowLoads == LoadSpec => []ChoiceFollowsLoad
<1>1. LoadSpec => []LoadInv
  BY LoadStarts, LoadKept, PTL DEF LoadSpec
<1>2. LoadInv => ChoiceFollowsLoad
  BY NumbersHaveTheirNodes
<1> QED
  BY <1>1, <1>2, PTL

-----------------------------------------------------------------------------
(* The packed stream: for any numbers and strings that fit where they are  *)
(* packed, any base and any sizes.  What was packed lies end to end, and a *)
(* reader that asks for the types that were packed is at the end of one.   *)

Byte == 0 .. Base - 1

LEMMA BaseDivides ==
  ASSUME NEW x \in Nat
  PROVE  x \div Base \in Nat /\ x % Base \in Byte /\ (x \div Base) * Base + (x % Base) = x
<1>1. PICK w \in Nat : w = Base /\ w >= 2
  BY StreamGrows
<1>2. PICK p, r : p = x \div w /\ r = x % w
  OBVIOUS
<1>3. p \in Nat /\ r \in 0 .. w - 1 /\ x = w * p + r
  BY <1>1, <1>2
<1>4. p * w + r = x
  BY <1>1, <1>3
<1> QED
  BY <1>1, <1>2, <1>3, <1>4 DEF Byte

LEMMA LeftIs ==
  ASSUME NEW value \in Nat, NEW size \in Nat
  PROVE  /\ Left(value, size) \in [0 .. size -> Nat]
         /\ Left(value, size)[0] = value
         /\ \A i \in 1 .. size : Left(value, size)[i] = Left(value, size)[i - 1] \div Base
<1> DEFINE T == Nat
           g == [i \in 1 .. size |-> [x \in T |-> x \div Base]]
           IsLeft(f) == f = [i \in 0 .. size |-> IF i = 0 THEN value ELSE f[i - 1] \div Base]
<1>1. \A x \in T : x \div Base \in T
  BY BaseDivides
<1>2. \E f \in [0 .. size -> T] : IsPath(f, value, g, size)
  <2>1. value \in T
    OBVIOUS
  <2> HIDE DEF T
  <2>2. g \in [1 .. size -> [T -> T]]
    BY <1>1
  <2> HIDE DEF g
  <2> QED
    BY <2>1, <2>2, StepsExist, Zenon
<1>3. ASSUME NEW f \in [0 .. size -> T] PROVE IsPath(f, value, g, size) <=> IsLeft(f)
  <2>1. ASSUME NEW k \in 0 .. size, k # 0 PROVE g[k][f[k - 1]] = f[k - 1] \div Base
    <3>1. k \in 1 .. size /\ k - 1 \in 0 .. size
      BY <2>1
    <3> HIDE DEF T
    <3>2. f[k - 1] \in T
      BY <3>1
    <3> QED
      BY <3>1, <3>2
  <2> HIDE DEF g, T
  <2>2. [k \in 0 .. size |-> IF k = 0 THEN value ELSE g[k][f[k - 1]]]
          = [k \in 0 .. size |-> IF k = 0 THEN value ELSE f[k - 1] \div Base]
    BY <2>1
  <2> QED
    BY <2>2 DEF IsPath
<1> HIDE DEF g
<1>4. PICK f \in [0 .. size -> T] : IsLeft(f)
  BY <1>2, <1>3
<1> DEFINE rest == CHOOSE r : IsLeft(r)
<1>5. IsLeft(rest)
  <2> HIDE DEF IsLeft
  <2> QED
    BY <1>4
<1>6. Left(value, size) = rest
  BY DEF Left
<1> HIDE DEF rest
<1>7. rest[0] = value
  BY <1>5
<1>8. ASSUME NEW i \in 1 .. size PROVE rest[i] = rest[i - 1] \div Base
  <2>1. i \in 0 .. size /\ i # 0
    OBVIOUS
  <2> QED
    BY <1>5, <2>1
<1>9. ASSUME NEW i \in 0 .. size PROVE rest[i] \in Nat
  <2> DEFINE M == {k \in Nat : k <= size => rest[k] \in Nat}
  <2>1. 0 \in M
    BY <1>7
  <2>2. ASSUME NEW k \in M, k < size PROVE k + 1 \in M
    <3>1. k \in Nat /\ rest[k] \in Nat /\ k + 1 \in 1 .. size /\ (k + 1) - 1 = k
      BY <2>2
    <3>2. rest[k + 1] = rest[k] \div Base
      BY <1>8, <3>1
    <3>3. rest[k] \div Base \in Nat
      BY <3>1, BaseDivides
    <3> QED
      BY <3>1, <3>2, <3>3
  <2>3. M \in SUBSET Nat
    OBVIOUS
  <2>4. \A k \in 0 .. size : k \in M
    <3> HIDE DEF M
    <3> QED
      BY <2>1, <2>2, <2>3, AllUpTo
  <2> QED
    BY <2>4
<1>10. rest = [i \in 0 .. size |-> rest[i]]
  BY <1>5
<1>11. rest \in [0 .. size -> Nat]
  BY <1>9, <1>10
<1> QED
  BY <1>6, <1>7, <1>8, <1>11

LEMMA MemoryIs ==
  ASSUME NEW value \in Nat, NEW size \in Nat
  PROVE  /\ Memory(value, size) \in Seq(Byte) /\ Len(Memory(value, size)) = size
         /\ Encoded(value, size) \in Seq(Byte) /\ Len(Encoded(value, size)) = size
         /\ Reverse(Encoded(value, size)) = Memory(value, size)
<1>1. PICK m : m = Memory(value, size)
  OBVIOUS
<1>2. ASSUME NEW i \in 1 .. size PROVE Left(value, size)[i - 1] % Base \in Byte
  <2>1. i - 1 \in 0 .. size
    OBVIOUS
  <2>2. Left(value, size)[i - 1] \in Nat
    BY <2>1, LeftIs
  <2> QED
    BY <2>2, BaseDivides
<1>3. m \in [1 .. size -> Byte]
  BY <1>1, <1>2 DEF Memory
<1>4. m \in Seq(Byte) /\ Len(m) = size
  BY <1>3
<1>5. PICK e : e = Encoded(value, size)
  OBVIOUS
<1>6. e = [i \in 1 .. size |-> m[(size - i) + 1]]
  BY <1>1, <1>4, <1>5 DEF Encoded, Reverse
<1>7. e \in [1 .. size -> Byte]
  <2>1. \A i \in 1 .. size : (size - i) + 1 \in 1 .. size
    OBVIOUS
  <2> QED
    BY <1>3, <1>6, <2>1
<1>8. e \in Seq(Byte) /\ Len(e) = size
  BY <1>7
<1>9. Reverse(e) = m
  <2>1. Reverse(e) = [i \in 1 .. size |-> e[(size - i) + 1]]
    BY <1>8 DEF Reverse
  <2>2. ASSUME NEW i \in 1 .. size PROVE e[(size - i) + 1] = m[i]
    <3>1. (size - i) + 1 \in 1 .. size /\ (size - ((size - i) + 1)) + 1 = i
      OBVIOUS
    <3> QED
      BY <1>6, <3>1
  <2>3. m = [i \in 1 .. size |-> m[i]]
    BY <1>3
  <2> QED
    BY <2>1, <2>2, <2>3
<1> QED
  BY <1>1, <1>4, <1>5, <1>8, <1>9

\* The value of some bytes, taken from the highest one down.
LEMMA ValueIs ==
  ASSUME NEW bytes \in Seq(Byte)
  PROVE  \E n \in Nat : \E f \in [0 .. n -> Nat] :
           /\ n = Len(bytes) /\ f[0] = 0 /\ ValueOf(bytes) = f[n]
           /\ \A i \in 1 .. n : f[i] = f[i - 1] * Base + bytes[n - i + 1]
<1>1. PICK n \in Nat : n = Len(bytes)
  OBVIOUS
<1> DEFINE T == Nat
           g == [i \in 1 .. n |-> [x \in T |-> x * Base + bytes[n - i + 1]]]
           IsUpper(f) == f = [i \in 0 .. n |-> IF i = 0 THEN 0 ELSE f[i - 1] * Base + bytes[n - i + 1]]
<1>2. ASSUME NEW i \in 1 .. n, NEW x \in T PROVE x * Base + bytes[n - i + 1] \in T
  <2>1. n - i + 1 \in 1 .. Len(bytes)
    BY <1>1
  <2>2. bytes[n - i + 1] \in Byte
    BY <2>1, ElementOfSeq
  <2>3. PICK w \in Nat, b \in Nat : w = Base /\ b = bytes[n - i + 1]
    BY <2>2, StreamGrows DEF Byte
  <2>4. x * w + b \in Nat
    OBVIOUS
  <2> QED
    BY <2>3, <2>4
<1>3. \E f \in [0 .. n -> T] : IsPath(f, 0, g, n)
  <2>1. 0 \in T
    OBVIOUS
  <2> HIDE DEF T
  <2>2. g \in [1 .. n -> [T -> T]]
    BY <1>2
  <2> HIDE DEF g
  <2> QED
    BY <2>1, <2>2, StepsExist, Zenon
<1>4. ASSUME NEW f \in [0 .. n -> T] PROVE IsPath(f, 0, g, n) <=> IsUpper(f)
  <2>1. ASSUME NEW k \in 0 .. n, k # 0 PROVE g[k][f[k - 1]] = f[k - 1] * Base + bytes[n - k + 1]
    <3>1. k \in 1 .. n /\ k - 1 \in 0 .. n
      BY <2>1
    <3> HIDE DEF T
    <3>2. f[k - 1] \in T
      BY <3>1
    <3> QED
      BY <3>1, <3>2
  <2> HIDE DEF g, T
  <2>2. [k \in 0 .. n |-> IF k = 0 THEN 0 ELSE g[k][f[k - 1]]]
          = [k \in 0 .. n |-> IF k = 0 THEN 0 ELSE f[k - 1] * Base + bytes[n - k + 1]]
    BY <2>1
  <2> QED
    BY <2>2 DEF IsPath
<1>5. PICK f \in [0 .. n -> T] : IsUpper(f)
  <2> HIDE DEF g, IsUpper
  <2> QED
    BY <1>3, <1>4
<1> HIDE DEF g
<1> DEFINE upper == CHOOSE u : IsUpper(u)
<1>6. IsUpper(upper)
  <2> HIDE DEF IsUpper
  <2> QED
    BY <1>5
<1>7. ValueOf(bytes) = upper[n]
  BY <1>1 DEF ValueOf
<1> HIDE DEF upper
<1>8. upper[0] = 0 /\ \A i \in 1 .. n : upper[i] = upper[i - 1] * Base + bytes[n - i + 1]
  <2>1. \A k \in 0 .. n : upper[k] = IF k = 0 THEN 0 ELSE upper[k - 1] * Base + bytes[n - k + 1]
    BY <1>6
  <2>2. upper[0] = 0
    BY <2>1
  <2>3. ASSUME NEW i \in 1 .. n PROVE upper[i] = upper[i - 1] * Base + bytes[n - i + 1]
    <3>1. i \in 0 .. n /\ i # 0
      OBVIOUS
    <3> QED
      BY <2>1, <3>1
  <2> QED
    BY <2>2, <2>3
<1>9. ASSUME NEW i \in 0 .. n PROVE upper[i] \in T
  <2> HIDE DEF T
  <2> DEFINE M == {k \in Nat : k <= n => upper[k] \in T}
  <2>1. 0 \in M
    BY <1>8 DEF T
  <2>2. ASSUME NEW k \in M, k < n PROVE k + 1 \in M
    <3>1. k \in Nat /\ upper[k] \in T /\ k + 1 \in 1 .. n /\ (k + 1) - 1 = k
      BY <2>2
    <3>2. upper[k + 1] = upper[k] * Base + bytes[n - (k + 1) + 1]
      BY <1>8, <3>1
    <3>3. upper[k] * Base + bytes[n - (k + 1) + 1] \in T
      BY <1>2, <3>1
    <3> QED
      BY <3>1, <3>2, <3>3
  <2>3. M \in SUBSET Nat
    OBVIOUS
  <2>4. \A k \in 0 .. n : k \in M
    <3> HIDE DEF M
    <3> QED
      BY <2>1, <2>2, <2>3, AllUpTo
  <2> QED
    BY <2>4
<1>10. upper = [i \in 0 .. n |-> upper[i]]
  BY <1>6
<1>11. upper \in [0 .. n -> Nat]
  BY <1>9, <1>10
<1> QED
  BY <1>1, <1>7, <1>8, <1>11

\* What is read from the bytes of a number is the number.
LEMMA DecodedIsEncoded ==
  ASSUME NEW value \in Nat, NEW size \in Nat, Fits(value, size)
  PROVE  Decoded(Encoded(value, size)) = value
<1>1. PICK m : m = Memory(value, size)
  OBVIOUS
<1>2. m \in Seq(Byte) /\ Len(m) = size /\ Decoded(Encoded(value, size)) = ValueOf(m)
  BY <1>1, MemoryIs DEF Decoded
<1>3. PICK r : r = Left(value, size)
  OBVIOUS
<1>4. r \in [0 .. size -> Nat] /\ r[0] = value /\ r[size] = 0
  BY <1>3, LeftIs DEF Fits
<1>5. ASSUME NEW i \in 1 .. size PROVE r[i] = r[i - 1] \div Base /\ m[i] = r[i - 1] % Base
  BY <1>1, <1>3, LeftIs DEF Memory
<1>6. PICK f \in [0 .. size -> Nat] :
        /\ f[0] = 0 /\ ValueOf(m) = f[size]
        /\ \A i \in 1 .. size : f[i] = f[i - 1] * Base + m[size - i + 1]
  <2>1. PICK n \in Nat : \E f \in [0 .. n -> Nat] :
          /\ n = Len(m) /\ f[0] = 0 /\ ValueOf(m) = f[n]
          /\ \A i \in 1 .. n : f[i] = f[i - 1] * Base + m[n - i + 1]
    BY <1>2, ValueIs
  <2>2. n = size
    BY <1>2, <2>1
  <2> QED
    BY <2>1, <2>2
<1> DEFINE M == {k \in Nat : k <= size => f[k] = r[size - k]}
<1>7. 0 \in M
  <2>1. size - 0 = size
    OBVIOUS
  <2> QED
    BY <1>4, <1>6, <2>1
<1>8. ASSUME NEW k \in M, k < size PROVE k + 1 \in M
  <2>1. k \in Nat /\ f[k] = r[size - k]
    BY <1>8
  <2>2. PICK i \in 1 .. size : i = size - k
    BY <1>8, <2>1
  <2>3. k + 1 \in 1 .. size /\ (k + 1) - 1 = k /\ size - (k + 1) + 1 = i /\ size - (k + 1) = i - 1
    BY <1>8, <2>1, <2>2
  <2>4. f[k + 1] = f[k] * Base + m[i]
    BY <1>6, <2>3
  <2>5. f[k + 1] = (r[i - 1] \div Base) * Base + (r[i - 1] % Base)
    <3>1. f[k] = r[i - 1] \div Base /\ m[i] = r[i - 1] % Base
      BY <1>5, <2>1, <2>2
    <3> QED
      BY <2>4, <3>1
  <2>6. r[i - 1] \in Nat
    BY <1>4
  <2>7. f[k + 1] = r[i - 1]
    BY <2>5, <2>6, BaseDivides
  <2> QED
    BY <2>1, <2>3, <2>7
<1>9. M \in SUBSET Nat
  OBVIOUS
<1>10. size \in M
  <2> HIDE DEF M
  <2>1. \A k \in 0 .. size : k \in M
    BY <1>7, <1>8, <1>9, AllUpTo
  <2> QED
    BY <2>1
<1>11. f[size] = r[0]
  <2>1. size - size = 0 /\ size <= size
    OBVIOUS
  <2> QED
    BY <1>10, <2>1
<1> QED
  BY <1>2, <1>4, <1>6, <1>11

LEMMA DecodedIsNumber ==
  ASSUME NEW bytes \in Seq(Byte)
  PROVE  Decoded(bytes) \in Nat
<1>1. Reverse(bytes) \in Seq(Byte)
  <2>1. PICK n \in Nat : n = Len(bytes)
    OBVIOUS
  <2>2. ASSUME NEW i \in 1 .. n PROVE bytes[(n - i) + 1] \in Byte
    <3>1. (n - i) + 1 \in 1 .. Len(bytes)
      BY <2>1
    <3> QED
      BY <3>1, ElementOfSeq
  <2>3. Reverse(bytes) = [i \in 1 .. n |-> bytes[(n - i) + 1]]
    BY <2>1 DEF Reverse
  <2> QED
    BY <2>2, <2>3
<1>2. PICK n \in Nat : \E f \in [0 .. n -> Nat] :
        n = Len(Reverse(bytes)) /\ f[0] = 0 /\ ValueOf(Reverse(bytes)) = f[n]
  BY <1>1, ValueIs
<1> QED
  BY <1>2 DEF Decoded

\* resize gives what was asked for.
LEMMA ResizedIsEnough ==
  ASSUME NEW size \in Nat \ {0}, NEW new \in Nat
  PROVE  Resized(size, new) \in Nat /\ Resized(size, new) >= size /\ Resized(size, new) >= new
<1> DEFINE f == CHOOSE f : IsDoubling(f, size, new)
           Enough(n) == f[n] > new /\ \A m \in 1 .. n - 1 : f[m] <= new
           times == CHOOSE n \in 1 .. new : Enough(n)
<1>1. IsDoubling(f, size, new)
  BY DoublingExists
<1>2. Resized(size, new) = IF new <= size THEN size ELSE f[times]
  BY DEF Resized, IsDoubling
<1> HIDE DEF f
<1>3. \A n \in 0 .. new : f[n] \in Nat /\ f[n] >= size + n
  BY <1>1, DoublingGrows
<1>4. CASE new <= size
  BY <1>2, <1>4
<1>5. CASE ~ (new <= size)
  <2> DEFINE Large == {n \in 1 .. new : f[n] > new}
  <2>1. new \in Large
    <3>1. new \in 1 .. new /\ new \in 0 .. new
      BY <1>5
    <3> QED
      BY <1>3, <3>1
  <2>2. PICK n \in Large : \A j \in Large : n <= j
    <3>1. Large \in SUBSET Nat /\ Large # {}
      BY <2>1
    <3> HIDE DEF Large
    <3> QED
      BY <3>1, Smallest
  <2>3. ASSUME NEW m \in 1 .. n - 1 PROVE f[m] <= new
    <3>1. m \in 1 .. new /\ m \in 0 .. new /\ ~ (n <= m)
      BY <2>2
    <3>2. f[m] \in Nat /\ m \notin Large
      BY <1>3, <2>2, <3>1
    <3> QED
      BY <3>1, <3>2
  <2>4. n \in 1 .. new /\ Enough(n)
    BY <2>2, <2>3
  <2> HIDE DEF Enough, Large
  <2>5. times \in 1 .. new /\ Enough(times)
    BY <2>4
  <2> HIDE DEF times
  <2>6. times \in 0 .. new
    BY <2>5
  <2>7. f[times] \in Nat /\ f[times] >= size + times /\ f[times] > new
    BY <1>3, <2>5, <2>6 DEF Enough
  <2> QED
    BY <1>2, <1>5, <2>5, <2>7
<1> QED
  BY <1>4, <1>5

-----------------------------------------------------------------------------
\* What lies in the stream.

Items == {Item(n.size, n.value, <<>>) : n \in Numbers} \cup {Item(0, 0, s) : s \in Strings}
Reads == [item : [size : Nat, value : Nat, text : Seq(Byte)], of : Nat]

\* An item as it lies in the stream.
Part(it) ==
  IF it.size # 0 THEN Encoded(it.value, it.size) ELSE Encoded(Len(it.text), LengthSize) \o it.text

\* The items lie end to end: the i-th one is behind at[i - 1] and ends at at[i].
Laid(at, bytes, items) ==
  /\ at \in [0 .. Len(items) -> Nat] /\ at[0] = 0 /\ at[Len(items)] = Len(bytes)
  /\ \A i \in 1 .. Len(items) : at[i] = at[i - 1] + Len(Part(items[i]))
  /\ \A i \in 1 .. Len(items) : \A m \in 1 .. Len(Part(items[i])) :
       bytes[at[i - 1] + m] = Part(items[i])[m]

\* The first i items that were read are of the types that were packed, and were packed before.
Agree(i) == \A j \in 1 .. i : j <= unpacked[j].of /\ unpacked[j].item.size = packed[j].size

StreamShape ==
  /\ buf \in [bytes : Seq(Byte), size : Nat \ {0}] /\ Len(buf.bytes) <= buf.size
  /\ rsize \in Nat /\ rsize <= Len(buf.bytes)
  /\ packed \in Seq(Items) /\ unpacked \in Seq(Reads)
  /\ \A j \in 1 .. Len(unpacked) : unpacked[j].of <= Len(packed)

\* The reader is at the end of an item.
ReaderIsBetween ==
  \E at : Laid(at, buf.bytes, packed) /\ (Agree(Len(unpacked)) => rsize = at[Len(unpacked)])

StreamInv == StreamShape /\ ReaderIsBetween /\ UnpacksWhatWasPacked

LEMMA NumberItem ==
  ASSUME NEW n \in Numbers
  PROVE  /\ Item(n.size, n.value, <<>>) \in Items
         /\ n.size \in Nat \ {0} /\ n.value \in Nat /\ Fits(n.value, n.size)
         /\ Part(Item(n.size, n.value, <<>>)) = Encoded(n.value, n.size)
         /\ Encoded(n.value, n.size) \in Seq(Byte) /\ Len(Encoded(n.value, n.size)) = n.size
<1>1. n.size \in Nat \ {0} /\ n.value \in Nat /\ Fits(n.value, n.size)
  BY NumbersFit
<1>2. Encoded(n.value, n.size) \in Seq(Byte) /\ Len(Encoded(n.value, n.size)) = n.size
  BY <1>1, MemoryIs
<1> QED
  BY <1>1, <1>2 DEF Items, Part, Item

LEMMA StringItem ==
  ASSUME NEW s \in Strings
  PROVE  /\ Item(0, 0, s) \in Items
         /\ s \in Seq(Byte) /\ Fits(Len(s), LengthSize)
         /\ Part(Item(0, 0, s)) = Encoded(Len(s), LengthSize) \o s
         /\ Encoded(Len(s), LengthSize) \in Seq(Byte) /\ Len(Encoded(Len(s), LengthSize)) = LengthSize
         /\ Encoded(Len(s), LengthSize) \o s \in Seq(Byte)
         /\ Len(Encoded(Len(s), LengthSize) \o s) = LengthSize + Len(s)
<1>1. s \in Seq(Byte) /\ Fits(Len(s), LengthSize)
  BY StringsFit DEF Byte
<1>2. Len(s) \in Nat /\ LengthSize \in Nat
  BY <1>1, StreamGrows
<1>3. Encoded(Len(s), LengthSize) \in Seq(Byte) /\ Len(Encoded(Len(s), LengthSize)) = LengthSize
  BY <1>2, MemoryIs
<1>4. /\ Encoded(Len(s), LengthSize) \o s \in Seq(Byte)
      /\ Len(Encoded(Len(s), LengthSize) \o s) = LengthSize + Len(s)
  BY <1>1, <1>3, ConcatProperties
<1> QED
  BY <1>1, <1>3, <1>4 DEF Items, Part, Item

LEMMA PartIs ==
  ASSUME NEW it \in Items
  PROVE  Part(it) \in Seq(Byte) /\ Len(Part(it)) \in Nat
<1>1. CASE \E n \in Numbers : it = Item(n.size, n.value, <<>>)
  <2>1. PICK n \in Numbers : it = Item(n.size, n.value, <<>>)
    BY <1>1
  <2>2. Part(it) \in Seq(Byte)
    BY <2>1, NumberItem
  <2> QED
    BY <2>2
<1>2. CASE \E s \in Strings : it = Item(0, 0, s)
  <2>1. PICK s \in Strings : it = Item(0, 0, s)
    BY <1>2
  <2>2. Part(it) \in Seq(Byte)
    BY <2>1, StringItem
  <2> QED
    BY <2>2
<1> QED
  BY <1>1, <1>2 DEF Items

\* No item ends behind the end.
LEMMA EndsWithin ==
  ASSUME NEW at, NEW bytes \in Seq(Byte), NEW items \in Seq(Items), Laid(at, bytes, items),
         NEW k \in 0 .. Len(items)
  PROVE  at[k] \in Nat /\ at[k] <= Len(bytes)
<1>1. PICK n \in Nat : n = Len(items)
  OBVIOUS
<1>2. at \in [0 .. n -> Nat] /\ at[n] = Len(bytes) /\ k \in 0 .. n
  BY <1>1 DEF Laid
<1>3. ASSUME NEW i \in 1 .. n PROVE at[i - 1] <= at[i]
  <2>1. at[i] = at[i - 1] + Len(Part(items[i]))
    BY <1>1 DEF Laid
  <2>2. Len(Part(items[i])) \in Nat
    <3>1. items[i] \in Items
      BY <1>1, ElementOfSeq
    <3> QED
      BY <3>1, PartIs
  <2>3. PICK a \in Nat, b \in Nat : a = at[i - 1] /\ b = at[i]
    <3>1. i - 1 \in 0 .. n /\ i \in 0 .. n
      OBVIOUS
    <3> QED
      BY <1>2, <3>1
  <2> QED
    BY <2>1, <2>2, <2>3
<1> DEFINE M == {d \in Nat : d <= n => at[n - d] <= at[n]}
<1>4. 0 \in M
  <2>1. n - 0 = n /\ at[n] \in Nat
    BY <1>2
  <2> QED
    BY <2>1
<1>5. ASSUME NEW d \in M, d < n PROVE d + 1 \in M
  <2>1. d \in Nat /\ at[n - d] <= at[n]
    BY <1>5
  <2>2. PICK i \in 1 .. n : i = n - d
    BY <1>5, <2>1
  <2>3. n - (d + 1) = i - 1 /\ i - 1 \in 0 .. n /\ i \in 0 .. n
    BY <2>1, <2>2
  <2>4. PICK a \in Nat, b \in Nat, c \in Nat : a = at[i - 1] /\ b = at[i] /\ c = at[n]
    BY <1>2, <2>3
  <2>5. a <= b /\ b <= c
    BY <1>3, <2>1, <2>2, <2>4
  <2>6. at[n - (d + 1)] <= at[n]
    BY <2>3, <2>4, <2>5
  <2> QED
    BY <2>1, <2>6
<1>6. M \in SUBSET Nat
  OBVIOUS
<1>7. n - k \in M
  <2>1. n - k \in Nat /\ n - k \in 0 .. n
    BY <1>2
  <2> HIDE DEF M
  <2>2. \A d \in 0 .. n : d \in M
    BY <1>4, <1>5, <1>6, AllUpTo
  <2> QED
    BY <2>1, <2>2
<1>8. n - (n - k) = k /\ n - k <= n
  BY <1>2
<1> QED
  BY <1>2, <1>7, <1>8

\* What is packed lies behind the others.
LEMMA LaidBehind ==
  ASSUME NEW at, NEW bytes \in Seq(Byte), NEW items \in Seq(Items), Laid(at, bytes, items), NEW it \in Items
  PROVE  \E next : /\ Laid(next, bytes \o Part(it), Append(items, it))
                   /\ \A i \in 0 .. Len(items) : next[i] = at[i]
<1>1. PICK n \in Nat : n = Len(items)
  OBVIOUS
<1>2. PICK p : p = Part(it) /\ p \in Seq(Byte) /\ Len(p) \in Nat
  BY PartIs
<1>3. PICK b, more : b = bytes \o p /\ more = Append(items, it)
  OBVIOUS
<1>4. /\ b \in Seq(Byte) /\ Len(b) = Len(bytes) + Len(p)
      /\ \A i \in 1 .. Len(bytes) + Len(p) : b[i] = IF i <= Len(bytes) THEN bytes[i] ELSE p[i - Len(bytes)]
  BY <1>2, <1>3, ConcatProperties
<1>5. /\ more \in Seq(Items) /\ Len(more) = n + 1 /\ more[n + 1] = it
      /\ \A i \in 1 .. n : more[i] = items[i]
  BY <1>1, <1>3, AppendProperties
<1> DEFINE next == [i \in 0 .. n + 1 |-> IF i = n + 1 THEN at[n] + Len(p) ELSE at[i]]
<1>6. at \in [0 .. n -> Nat] /\ at[0] = 0 /\ at[n] = Len(bytes)
  BY <1>1 DEF Laid
<1>7. next[n + 1] = at[n] + Len(p) /\ \A i \in 0 .. n : next[i] = at[i]
  BY <1>1
<1>8. next \in [0 .. n + 1 -> Nat]
  <2>1. ASSUME NEW i \in 0 .. n + 1 PROVE next[i] \in Nat
    <3>1. CASE i = n + 1
      <4>1. at[n] \in Nat
        BY <1>6
      <4> QED
        BY <1>2, <1>7, <3>1, <4>1
    <3>2. CASE i # n + 1
      <4>1. i \in 0 .. n
        BY <3>2
      <4> QED
        BY <1>6, <1>7, <4>1
    <3> QED
      BY <3>1, <3>2
  <2> QED
    BY <2>1
<1> HIDE DEF next
<1>9. next[0] = 0 /\ next[n + 1] = Len(b)
  BY <1>4, <1>6, <1>7
<1>10. ASSUME NEW i \in 1 .. n + 1
       PROVE  /\ next[i] = next[i - 1] + Len(Part(more[i]))
              /\ \A m \in 1 .. Len(Part(more[i])) : b[next[i - 1] + m] = Part(more[i])[m]
  <2>1. CASE i = n + 1
    <3>1. i - 1 = n /\ more[i] = it /\ next[i - 1] = Len(bytes) /\ next[i] = Len(bytes) + Len(p)
      BY <1>5, <1>6, <1>7, <2>1
    <3>2. ASSUME NEW m \in 1 .. Len(p) PROVE b[Len(bytes) + m] = p[m]
      <4>1. PICK k \in Nat, l \in Nat : k = Len(bytes) /\ l = Len(p)
        BY <1>2
      <4>2. k + m \in 1 .. k + l /\ ~ (k + m <= k) /\ (k + m) - k = m
        BY <4>1
      <4> QED
        BY <1>4, <4>1, <4>2
    <3> QED
      BY <1>2, <3>1, <3>2
  <2>2. CASE i # n + 1
    <3>1. i \in 1 .. n /\ i \in 0 .. n /\ i - 1 \in 0 .. n
      BY <2>2
    <3>2. more[i] = items[i] /\ next[i] = at[i] /\ next[i - 1] = at[i - 1]
      BY <1>5, <1>7, <3>1
    <3>3. /\ at[i] = at[i - 1] + Len(Part(items[i]))
          /\ \A m \in 1 .. Len(Part(items[i])) : bytes[at[i - 1] + m] = Part(items[i])[m]
      BY <1>1, <3>1 DEF Laid
    <3>4. ASSUME NEW m \in 1 .. Len(Part(items[i])) PROVE b[at[i - 1] + m] = Part(items[i])[m]
      <4>1. at[i] \in Nat /\ at[i] <= Len(bytes)
        BY <1>1, <3>1, EndsWithin
      <4>2. Len(Part(items[i])) \in Nat
        <5>1. items[i] \in Items
          BY <1>1, <3>1, ElementOfSeq
        <5> QED
          BY <5>1, PartIs
      <4>3. PICK a \in Nat, k \in Nat, l \in Nat, h \in Nat :
              a = at[i - 1] /\ k = Len(bytes) /\ l = Len(p) /\ h = Len(Part(items[i]))
        BY <1>2, <1>6, <3>1, <4>2
      <4>4. a + h <= k /\ m \in 1 .. h
        BY <3>3, <4>1, <4>3
      <4>5. a + m \in 1 .. k + l /\ a + m <= k
        BY <4>3, <4>4
      <4>6. b[a + m] = bytes[a + m]
        BY <1>4, <4>3, <4>5
      <4> QED
        BY <3>3, <4>3, <4>6
    <3> QED
      BY <3>2, <3>3, <3>4
  <2> QED
    BY <2>1, <2>2
<1>11. Laid(next, b, more)
  BY <1>5, <1>8, <1>9, <1>10 DEF Laid
<1> QED
  BY <1>1, <1>2, <1>3, <1>7, <1>11

\* What is read behind the end of an item is what lies there.
LEMMA ReadThere ==
  ASSUME NEW bytes \in Seq(Byte), NEW p \in Seq(Byte), NEW from \in Nat, from + Len(p) <= Len(bytes),
         \A m \in 1 .. Len(p) : bytes[from + m] = p[m]
  PROVE  SubSeq(bytes, from + 1, from + Len(p)) = p
<1>1. PICK n \in Nat, l \in Nat : n = Len(bytes) /\ l = Len(p) /\ from + l <= n
  OBVIOUS
<1>2. SubSeq(bytes, from + 1, from + l) = [i \in 1 .. l |-> bytes[from + i]]
  <2>1. SubSeq(bytes, from + 1, from + l) = [i \in 1 .. (from + l - (from + 1) + 1) |-> bytes[i + (from + 1) - 1]]
    OBVIOUS
  <2>2. from + l - (from + 1) + 1 = l
    BY <1>1
  <2>3. ASSUME NEW i \in 1 .. l PROVE i + (from + 1) - 1 = from + i
    BY <1>1
  <2> QED
    BY <2>1, <2>2, <2>3
<1>3. p = [i \in 1 .. l |-> p[i]]
  BY <1>1
<1>4. \A i \in 1 .. l : bytes[from + i] = p[i]
  BY <1>1
<1> QED
  BY <1>1, <1>2, <1>3, <1>4

LEMMA SubSeqIsBytes ==
  ASSUME NEW bytes \in Seq(Byte), NEW from \in Nat, NEW upto \in Nat, upto <= Len(bytes)
  PROVE  SubSeq(bytes, from + 1, upto) \in Seq(Byte)
<1>1. \A i \in from + 1 .. upto : bytes[i] \in Byte
  <2>1. \A i \in from + 1 .. upto : i \in 1 .. Len(bytes)
    OBVIOUS
  <2> QED
    BY <2>1, ElementOfSeq
<1> QED
  BY <1>1, SubSeqProperties

\* A step that reads an item: what it must do if the reader has kept to the types so far.
LEMMA ReadKeeps ==
  ASSUME StreamInv, NEW at, Laid(at, buf.bytes, packed), Agree(Len(unpacked)) => rsize = at[Len(unpacked)],
         NEW item \in [size : Nat, value : Nat, text : Seq(Byte)], ReadItem(item), UNCHANGED <<buf, packed>>,
         rsize' \in Nat, rsize' <= Len(buf.bytes),
         NEW k \in Nat, k = Len(unpacked) + 1,
         Agree(Len(unpacked)) /\ k > Len(packed) => item.value = 0 /\ item.text = <<>>,
         Agree(Len(unpacked)) /\ k <= Len(packed) /\ item.size = packed[k].size
           => item = packed[k] /\ rsize' = at[k]
  PROVE  StreamInv'
<1>0. PICK u : u = unpacked'
  OBVIOUS
<1>1. PICK n \in Nat : n = Len(unpacked) /\ u = unpacked' /\ k = n + 1
  <2>1. unpacked \in Seq(Reads)
    BY DEF StreamInv, StreamShape
  <2> QED
    BY <1>0, <2>1
<1>2. unpacked \in Seq(Reads) /\ Len(packed) \in Nat /\ [item |-> item, of |-> Len(packed)] \in Reads
  BY DEF StreamInv, StreamShape, Reads
<1>3. /\ u \in Seq(Reads) /\ Len(u) = k /\ u[k] = [item |-> item, of |-> Len(packed)]
      /\ \A j \in 1 .. n : u[j] = unpacked[j]
  BY <1>1, <1>2, AppendProperties DEF ReadItem
<1>4. buf' = buf /\ packed' = packed /\ unpacked' = u
  BY <1>1
<1>5. StreamShape'
  <2>1. ASSUME NEW j \in 1 .. Len(u) PROVE u[j].of <= Len(packed)
    <3>1. CASE j = k
      BY <1>2, <1>3, <3>1
    <3>2. CASE j # k
      <4>1. j \in 1 .. n
        BY <1>1, <1>3, <3>2
      <4>2. u[j] = unpacked[j] /\ unpacked[j].of <= Len(packed)
        BY <1>1, <1>3, <4>1 DEF StreamInv, StreamShape
      <4> QED
        BY <4>2
    <3> QED
      BY <3>1, <3>2
  <2> QED
    BY <1>3, <1>4, <2>1 DEF StreamInv, StreamShape
<1>6. \A i \in 0 .. n : Agree(i)' <=> Agree(i)
  <2> TAKE i \in 0 .. n
  <2>1. \A j \in 1 .. i : j \in 1 .. n
    BY <1>1
  <2>2. \A j \in 1 .. i : u[j] = unpacked[j]
    BY <1>3, <2>1
  <2> QED
    BY <1>4, <2>2 DEF Agree
<1>7. Agree(k)' => Agree(n) /\ k <= Len(packed) /\ item.size = packed[k].size
  <2>1. SUFFICES ASSUME Agree(k)' PROVE Agree(n) /\ k <= Len(packed) /\ item.size = packed[k].size
    OBVIOUS
  <2>2. \A j \in 1 .. k : j <= u[j].of /\ u[j].item.size = packed[j].size
    BY <1>4, <2>1 DEF Agree
  <2>3. k \in 1 .. k /\ \A j \in 1 .. n : j \in 1 .. k
    BY <1>1
  <2>4. k <= Len(packed) /\ item.size = packed[k].size
    BY <1>3, <2>2, <2>3
  <2>5. \A j \in 1 .. n : j <= unpacked[j].of /\ unpacked[j].item.size = packed[j].size
    BY <1>3, <2>2, <2>3
  <2> QED
    BY <2>4, <2>5 DEF Agree
<1>8. ReaderIsBetween'
  <2>1. Agree(Len(unpacked))' => rsize' = at[Len(u)]
    <3>1. Agree(Len(unpacked))' <=> Agree(k)'
      BY <1>3, <1>4 DEF Agree
    <3> QED
      BY <1>1, <1>3, <1>7, <3>1
  <2>2. Laid(at, buf'.bytes, packed')
    BY <1>4
  <2> QED
    BY <1>4, <2>1, <2>2 DEF ReaderIsBetween
<1>9. UnpacksWhatWasPacked'
  <2>1. ASSUME NEW i \in DOMAIN u, \A j \in 1 .. i - 1 : j <= u[j].of /\ u[j].item.size = packed[j].size
        PROVE  IF i > u[i].of THEN u[i].item.value = 0 /\ u[i].item.text = <<>>
               ELSE u[i].item.size = packed[i].size => u[i].item = packed[i]
    <3>1. i \in 1 .. k
      BY <1>3, <2>1
    <3>2. CASE i = k
      <4>1. Agree(n)
        <5>1. k - 1 = n
          BY <1>1
        <5>2. \A j \in 1 .. n : j <= unpacked[j].of /\ unpacked[j].item.size = packed[j].size
          BY <1>3, <2>1, <3>2, <5>1
        <5> QED
          BY <5>2 DEF Agree
      <4>2. u[i].item = item /\ u[i].of = Len(packed)
        BY <1>3, <3>2
      <4>3. k > Len(packed) \/ k <= Len(packed)
        BY <1>2
      <4> QED
        BY <1>1, <1>2, <3>2, <4>1, <4>2, <4>3
    <3>3. CASE i # k
      <4>1. i \in 1 .. n /\ \A j \in 1 .. i - 1 : j \in 1 .. n
        BY <1>1, <3>1, <3>3
      <4>2. u[i] = unpacked[i] /\ \A j \in 1 .. i - 1 : u[j] = unpacked[j]
        BY <1>3, <4>1
      <4>3. \A j \in 1 .. i - 1 : j <= unpacked[j].of /\ unpacked[j].item.size = packed[j].size
        BY <2>1, <4>2
      <4>4. i \in DOMAIN unpacked
        BY <1>1, <1>2, <4>1
      <4> QED
        BY <4>2, <4>3, <4>4 DEF StreamInv, UnpacksWhatWasPacked
    <3> QED
      BY <3>2, <3>3
  <2> QED
    BY <1>4, <2>1 DEF UnpacksWhatWasPacked
<1> QED
  BY <1>5, <1>8, <1>9 DEF StreamInv

\* A step that packs an item.
LEMMA PackKeeps ==
  ASSUME StreamInv, NEW it \in Items, packed' = Append(packed, it),
         buf' \in [bytes : Seq(Byte), size : Nat \ {0}], Len(buf'.bytes) <= buf'.size,
         buf'.bytes = buf.bytes \o Part(it), UNCHANGED <<rsize, unpacked>>
  PROVE  StreamInv'
<1>0. PICK p : p = packed'
  OBVIOUS
<1>1. PICK n \in Nat : n = Len(packed) /\ p = packed'
  <2>1. packed \in Seq(Items)
    BY DEF StreamInv, StreamShape
  <2> QED
    BY <1>0, <2>1
<1>2. packed \in Seq(Items) /\ buf.bytes \in Seq(Byte) /\ unpacked \in Seq(Reads)
  BY DEF StreamInv, StreamShape
<1>3. p \in Seq(Items) /\ Len(p) = n + 1 /\ \A i \in 1 .. n : p[i] = packed[i]
  BY <1>1, <1>2, AppendProperties
<1>4. PICK at : Laid(at, buf.bytes, packed) /\ (Agree(Len(unpacked)) => rsize = at[Len(unpacked)])
  BY DEF StreamInv, ReaderIsBetween
<1>5. PICK next : Laid(next, buf'.bytes, p) /\ \A i \in 0 .. n : next[i] = at[i]
  <2>1. PICK next : /\ Laid(next, buf.bytes \o Part(it), Append(packed, it))
                    /\ \A i \in 0 .. Len(packed) : next[i] = at[i]
    BY <1>2, <1>4, LaidBehind
  <2>2. Laid(next, buf'.bytes, p)
    BY <1>1, <2>1, Zenon
  <2> QED
    BY <1>1, <2>1, <2>2
<1>u. PICK u : u = unpacked
  OBVIOUS
<1>6. PICK m \in Nat : u = unpacked /\ m = Len(u)
  BY <1>2, <1>u
<1>7. ASSUME NEW j \in 1 .. m PROVE u[j].of \in Nat /\ u[j].of <= n
  <2>1. u[j] \in Reads
    BY <1>2, <1>6, ElementOfSeq
  <2> QED
    BY <1>1, <1>6, <2>1 DEF StreamInv, StreamShape, Reads
<1>8. ASSUME NEW j \in 1 .. m, j <= u[j].of PROVE p[j] = packed[j]
  <2>1. j \in 1 .. n
    BY <1>7, <1>8
  <2> QED
    BY <1>3, <2>1
<1>9. StreamShape'
  <2>1. Len(buf.bytes) <= Len(buf'.bytes)
    <3>1. Len(buf'.bytes) = Len(buf.bytes) + Len(Part(it)) /\ Len(Part(it)) \in Nat
      BY <1>2, PartIs, ConcatProperties
    <3> QED
      BY <1>2, <3>1
  <2>2. rsize \in Nat /\ rsize <= Len(buf'.bytes)
    <3>1. rsize \in Nat /\ rsize <= Len(buf.bytes) /\ Len(buf.bytes) \in Nat /\ Len(buf'.bytes) \in Nat
      BY <1>2 DEF StreamInv, StreamShape
    <3> QED
      BY <2>1, <3>1
  <2>3. \A j \in 1 .. m : u[j].of <= Len(p)
    BY <1>3, <1>7
  <2> QED
    BY <1>1, <1>2, <1>3, <1>6, <2>2, <2>3 DEF StreamShape
<1>10. ReaderIsBetween'
  <2>1. Agree(m)' => Agree(m) /\ m <= n
    <3>1. SUFFICES ASSUME Agree(m)' PROVE Agree(m) /\ m <= n
      OBVIOUS
    <3>2. \A j \in 1 .. m : j <= u[j].of /\ u[j].item.size = p[j].size
      BY <1>1, <1>6, <3>1 DEF Agree
    <3>3. \A j \in 1 .. m : j <= u[j].of /\ u[j].item.size = packed[j].size
      BY <1>8, <3>2
    <3>4. m <= n
      <4>1. CASE m = 0
        BY <4>1
      <4>2. CASE m # 0
        <5>1. m \in 1 .. m
          BY <1>6, <4>2
        <5>2. m <= u[m].of /\ u[m].of \in Nat /\ u[m].of <= n
          BY <1>7, <3>2, <5>1
        <5> QED
          BY <1>1, <1>6, <5>2
      <4> QED
        BY <4>1, <4>2
    <3> QED
      BY <1>6, <3>3, <3>4 DEF Agree
  <2>2. Agree(m)' => rsize = next[m]
    <3>1. m <= n => m \in 0 .. n
      OBVIOUS
    <3> QED
      BY <1>4, <1>5, <1>6, <2>1, <3>1
  <2>3. Agree(Len(unpacked))' <=> Agree(m)'
    BY <1>6 DEF Agree
  <2> QED
    BY <1>1, <1>5, <1>6, <2>2, <2>3 DEF ReaderIsBetween
<1>11. UnpacksWhatWasPacked'
  <2>1. ASSUME NEW i \in DOMAIN u, \A j \in 1 .. i - 1 : j <= u[j].of /\ u[j].item.size = p[j].size
        PROVE  IF i > u[i].of THEN u[i].item.value = 0 /\ u[i].item.text = <<>>
               ELSE u[i].item.size = p[i].size => u[i].item = p[i]
    <3>1. i \in 1 .. m /\ \A j \in 1 .. i - 1 : j \in 1 .. m
      BY <1>2, <1>6, <2>1
    <3>2. \A j \in 1 .. i - 1 : j <= u[j].of /\ u[j].item.size = packed[j].size
      BY <1>8, <2>1, <3>1
    <3>3. IF i > u[i].of THEN u[i].item.value = 0 /\ u[i].item.text = <<>>
          ELSE u[i].item.size = packed[i].size => u[i].item = packed[i]
      BY <1>6, <2>1, <3>2 DEF StreamInv, UnpacksWhatWasPacked
    <3>4. ~ (i > u[i].of) => p[i] = packed[i]
      BY <1>7, <1>8, <3>1
    <3> QED
      BY <3>3, <3>4
  <2> QED
    BY <1>1, <1>6, <2>1 DEF UnpacksWhatWasPacked
<1> QED
  BY <1>9, <1>10, <1>11 DEF StreamInv

\* A reader that has kept to the types so far is at the end of the last item it read.
LEMMA ReaderIsAt ==
  ASSUME StreamInv, NEW at, Laid(at, buf.bytes, packed), Agree(Len(unpacked)),
         rsize = at[Len(unpacked)], NEW k \in Nat, k = Len(unpacked) + 1
  PROVE  /\ k > Len(packed) => rsize = Len(buf.bytes)
         /\ k <= Len(packed) =>
              LET p == Part(packed[k])
              IN  /\ packed[k] \in Items /\ p \in Seq(Byte)
                  /\ at[k] = rsize + Len(p) /\ rsize + Len(p) <= Len(buf.bytes)
                  /\ \A m \in 1 .. Len(p) : buf.bytes[rsize + m] = p[m]
<1>1. /\ packed \in Seq(Items) /\ unpacked \in Seq(Reads) /\ buf.bytes \in Seq(Byte)
      /\ \A j \in 1 .. Len(unpacked) : unpacked[j].of <= Len(packed)
  BY DEF StreamInv, StreamShape
<1>2. PICK n \in Nat, m \in Nat : n = Len(packed) /\ m = Len(unpacked) /\ k = m + 1
  BY <1>1
<1>3. m <= n
  <2>1. CASE m = 0
    BY <2>1
  <2>2. CASE m # 0
    <3>1. m \in 1 .. m
      BY <2>2
    <3>2. unpacked[m] \in Reads
      BY <1>1, <1>2, <3>1, ElementOfSeq
    <3>3. m <= unpacked[m].of /\ unpacked[m].of <= n
      BY <1>1, <1>2, <3>1 DEF Agree
    <3>4. unpacked[m].of \in Nat
      BY <3>2 DEF Reads
    <3> QED
      BY <3>3, <3>4
  <2> QED
    BY <2>1, <2>2
<1>4. ASSUME k > n PROVE rsize = Len(buf.bytes)
  <2>1. m = n
    BY <1>2, <1>3, <1>4
  <2> QED
    BY <1>2, <2>1 DEF Laid
<1>5. ASSUME k <= n
      PROVE  /\ packed[k] \in Items /\ Part(packed[k]) \in Seq(Byte)
             /\ at[k] = rsize + Len(Part(packed[k])) /\ rsize + Len(Part(packed[k])) <= Len(buf.bytes)
             /\ \A i \in 1 .. Len(Part(packed[k])) : buf.bytes[rsize + i] = Part(packed[k])[i]
  <2>1. k \in 1 .. n /\ k \in 0 .. n /\ k - 1 = m
    BY <1>2, <1>5
  <2>2. packed[k] \in Items
    BY <1>1, <1>2, <2>1, ElementOfSeq
  <2>3. /\ at[k] = at[k - 1] + Len(Part(packed[k]))
        /\ \A i \in 1 .. Len(Part(packed[k])) : buf.bytes[at[k - 1] + i] = Part(packed[k])[i]
    BY <1>2, <2>1 DEF Laid
  <2>4. at[k - 1] = rsize
    BY <1>2, <2>1
  <2>5. at[k] <= Len(buf.bytes)
    BY <1>1, <1>2, <2>1, EndsWithin
  <2>6. Part(packed[k]) \in Seq(Byte)
    BY <2>2, PartIs
  <2> QED
    BY <2>2, <2>3, <2>4, <2>5, <2>6
<1> QED
  BY <1>2, <1>4, <1>5

LEMMA UnpackNumberKeeps ==
  ASSUME StreamInv, NEW n \in Numbers, UnpackNumber(n.size)
  PROVE  StreamInv'
<1>1. PICK size \in Nat : size = n.size /\ size > 0
  BY NumbersFit
<1>2. /\ buf.bytes \in Seq(Byte) /\ rsize \in Nat /\ rsize <= Len(buf.bytes) /\ Len(buf.bytes) \in Nat
      /\ unpacked \in Seq(Reads) /\ Len(unpacked) \in Nat
  BY DEF StreamInv, StreamShape
<1>3. PICK at : Laid(at, buf.bytes, packed) /\ (Agree(Len(unpacked)) => rsize = at[Len(unpacked)])
  BY DEF StreamInv, ReaderIsBetween
<1>4. PICK k \in Nat : k = Len(unpacked) + 1
  BY <1>2
<1>5. PICK item : item = Item(size, IF Has(size) THEN Decoded(Bytes(size)) ELSE 0, <<>>)
  OBVIOUS
<1>6. ReadItem(item) /\ rsize' = (IF Has(size) THEN rsize + size ELSE rsize) /\ UNCHANGED <<buf, packed>>
  BY <1>1, <1>5 DEF UnpackNumber
<1>7. Has(size) <=> rsize + size <= Len(buf.bytes)
  BY <1>1, <1>2 DEF Has
<1>8. rsize' \in Nat /\ rsize' <= Len(buf.bytes)
  BY <1>1, <1>2, <1>6, <1>7
<1>9. Has(size) => Decoded(Bytes(size)) \in Nat
  <2>1. SUFFICES ASSUME Has(size) PROVE Decoded(Bytes(size)) \in Nat
    OBVIOUS
  <2>2. Bytes(size) \in Seq(Byte)
    <3>1. rsize + size \in Nat /\ rsize + size <= Len(buf.bytes)
      BY <1>1, <1>2, <1>7, <2>1
    <3> QED
      BY <1>2, <3>1, SubSeqIsBytes DEF Bytes
  <2> QED
    BY <2>2, DecodedIsNumber
<1>10. item \in [size : Nat, value : Nat, text : Seq(Byte)] /\ item.size = size /\ item.text = <<>>
       /\ item.value = IF Has(size) THEN Decoded(Bytes(size)) ELSE 0
  BY <1>5, <1>9 DEF Item
<1>11. ASSUME Agree(Len(unpacked)), k > Len(packed) PROVE item.value = 0 /\ item.text = <<>>
  <2>1. rsize = Len(buf.bytes)
    BY <1>3, <1>4, <1>11, ReaderIsAt
  <2>2. ~Has(size)
    BY <1>1, <1>2, <1>7, <2>1
  <2> QED
    BY <1>10, <2>2
<1>12. ASSUME Agree(Len(unpacked)), k <= Len(packed), item.size = packed[k].size
       PROVE  item = packed[k] /\ rsize' = at[k]
  <2>1. PICK p : p = Part(packed[k])
    OBVIOUS
  <2>2. /\ packed[k] \in Items /\ p \in Seq(Byte)
        /\ at[k] = rsize + Len(p) /\ rsize + Len(p) <= Len(buf.bytes)
        /\ \A m \in 1 .. Len(p) : buf.bytes[rsize + m] = p[m]
    BY <1>3, <1>4, <1>12, <2>1, ReaderIsAt
  <2>3. PICK o \in Numbers : packed[k] = Item(o.size, o.value, <<>>)
    <3>1. packed[k].size # 0
      BY <1>1, <1>10, <1>12
    <3> QED
      BY <2>2, <3>1 DEF Items, Item
  <2>4. o.size = size
    BY <1>10, <1>12, <2>3 DEF Item
  <2>5. p = Encoded(o.value, size) /\ Len(p) = size /\ o.value \in Nat /\ Fits(o.value, size)
    BY <2>1, <2>3, <2>4, NumberItem
  <2>6. Has(size)
    BY <1>7, <2>2, <2>5
  <2>7. Bytes(size) = p
    BY <1>2, <2>2, <2>5, ReadThere DEF Bytes
  <2>8. Decoded(Bytes(size)) = o.value
    BY <2>5, <2>7, DecodedIsEncoded
  <2>9. item = Item(size, o.value, <<>>)
    BY <1>5, <2>6, <2>8
  <2> QED
    BY <1>6, <2>2, <2>3, <2>4, <2>5, <2>6, <2>9
<1> QED
  BY <1>3, <1>4, <1>6, <1>8, <1>10, <1>11, <1>12, ReadKeeps

LEMMA UnpackStringKeeps ==
  ASSUME StreamInv, UnpackString
  PROVE  StreamInv'
<1>1. PICK size \in Nat : size = LengthSize /\ size > 0
  BY StreamGrows
<1>2. /\ buf.bytes \in Seq(Byte) /\ rsize \in Nat /\ rsize <= Len(buf.bytes) /\ Len(buf.bytes) \in Nat
      /\ unpacked \in Seq(Reads) /\ Len(unpacked) \in Nat
  BY DEF StreamInv, StreamShape
<1>3. PICK at : Laid(at, buf.bytes, packed) /\ (Agree(Len(unpacked)) => rsize = at[Len(unpacked)])
  BY DEF StreamInv, ReaderIsBetween
<1>4. PICK k \in Nat : k = Len(unpacked) + 1
  BY <1>2
<1>5. PICK length, from : /\ length = IF Has(size) THEN Decoded(Bytes(size)) ELSE 0
                          /\ from = IF Has(size) THEN rsize + size ELSE rsize
  OBVIOUS
<1>6. Has(size) <=> rsize + size <= Len(buf.bytes)
  BY <1>1, <1>2 DEF Has
<1>7. length \in Nat /\ from \in Nat /\ from <= Len(buf.bytes)
  <2>1. CASE Has(size)
    <3>1. rsize + size \in Nat /\ rsize + size <= Len(buf.bytes)
      BY <1>1, <1>2, <1>6, <2>1
    <3>2. Bytes(size) \in Seq(Byte)
      BY <1>2, <3>1, SubSeqIsBytes DEF Bytes
    <3> QED
      BY <1>5, <2>1, <3>1, <3>2, DecodedIsNumber
  <2>2. CASE ~Has(size)
    BY <1>2, <1>5, <2>2
  <2> QED
    BY <2>1, <2>2
<1>8. PICK text : text = SubSeq(buf.bytes, from + 1, from + length)
  OBVIOUS
<1>9. PICK item : item = IF from + length > Len(buf.bytes) THEN Item(0, 1, <<>>) ELSE Item(0, 0, text)
  OBVIOUS
<1>10. /\ ReadItem(item) /\ UNCHANGED <<buf, packed>>
       /\ rsize' = IF from + length > Len(buf.bytes) THEN from ELSE from + length
  BY <1>1, <1>5, <1>8, <1>9 DEF UnpackString
<1>11. rsize' \in Nat /\ rsize' <= Len(buf.bytes)
  BY <1>2, <1>7, <1>10
<1>12. item \in [size : Nat, value : Nat, text : Seq(Byte)] /\ item.size = 0
  <2>1. ~ (from + length > Len(buf.bytes)) => text \in Seq(Byte)
    <3>1. SUFFICES ASSUME ~ (from + length > Len(buf.bytes)) PROVE text \in Seq(Byte)
      OBVIOUS
    <3>2. from + length \in Nat /\ from + length <= Len(buf.bytes)
      BY <1>2, <1>7, <3>1
    <3> QED
      BY <1>2, <1>7, <1>8, <3>2, SubSeqIsBytes
  <2> QED
    BY <1>9, <2>1 DEF Item
<1>13. ASSUME Agree(Len(unpacked)), k > Len(packed) PROVE item.value = 0 /\ item.text = <<>>
  <2>1. rsize = Len(buf.bytes)
    BY <1>3, <1>4, <1>13, ReaderIsAt
  <2>2. ~Has(size)
    BY <1>1, <1>2, <1>6, <2>1
  <2>3. length = 0 /\ from = Len(buf.bytes)
    BY <1>5, <2>1, <2>2
  <2>4. text = <<>>
    <3>1. PICK l \in Nat : l = Len(buf.bytes)
      BY <1>2
    <3>2. text = SubSeq(buf.bytes, l + 1, l)
      BY <1>8, <2>3, <3>1
    <3> QED
      BY <1>2, <3>1, <3>2
  <2>5. ~ (from + length > Len(buf.bytes))
    BY <1>2, <2>3
  <2> QED
    BY <1>9, <2>4, <2>5 DEF Item
<1>14. ASSUME Agree(Len(unpacked)), k <= Len(packed), item.size = packed[k].size
       PROVE  item = packed[k] /\ rsize' = at[k]
  <2>1. PICK p : p = Part(packed[k])
    OBVIOUS
  <2>2. /\ packed[k] \in Items /\ p \in Seq(Byte)
        /\ at[k] = rsize + Len(p) /\ rsize + Len(p) <= Len(buf.bytes)
        /\ \A m \in 1 .. Len(p) : buf.bytes[rsize + m] = p[m]
    BY <1>3, <1>4, <1>14, <2>1, ReaderIsAt
  <2>3. PICK s \in Strings : packed[k] = Item(0, 0, s)
    <3>1. packed[k].size = 0
      BY <1>12, <1>14
    <3>2. \A n \in Numbers : Item(n.size, n.value, <<>>).size # 0
      BY NumbersFit DEF Item
    <3> QED
      BY <2>2, <3>1, <3>2 DEF Items
  <2>e. PICK e : e = Encoded(Len(s), size)
    OBVIOUS
  <2>4. PICK l \in Nat : e = Encoded(l, size) /\ l = Len(s)
    BY <2>3, <2>e, StringItem
  <2>5. /\ p = e \o s /\ s \in Seq(Byte) /\ e \in Seq(Byte) /\ Len(e) = size /\ Len(p) = size + l
        /\ Fits(l, size)
    BY <1>1, <2>1, <2>3, <2>4, StringItem
  <2>6. \A i \in 1 .. size + l : p[i] = IF i <= size THEN e[i] ELSE s[i - size]
    <3>1. \A i \in 1 .. Len(e) + Len(s) : (e \o s)[i] = IF i <= Len(e) THEN e[i] ELSE s[i - Len(e)]
      BY <2>5, ConcatProperties
    <3> QED
      BY <2>4, <2>5, <3>1
  <2>7. Has(size) /\ rsize + size <= Len(buf.bytes)
    BY <1>2, <1>6, <2>2, <2>4, <2>5
  <2>8. Bytes(size) = e
    <3>1. ASSUME NEW m \in 1 .. size PROVE buf.bytes[rsize + m] = e[m]
      <4>1. m \in 1 .. size + l /\ m <= size
        OBVIOUS
      <4> QED
        BY <2>2, <2>5, <2>6, <4>1
    <3> QED
      BY <1>2, <2>5, <2>7, <3>1, ReadThere DEF Bytes
  <2>9. length = l /\ from = rsize + size
    BY <1>5, <2>4, <2>5, <2>7, <2>8, DecodedIsEncoded
  <2>10. from + l <= Len(buf.bytes) /\ from + l = at[k]
    BY <1>2, <2>2, <2>5, <2>9
  <2>11. text = s
    <3>1. ASSUME NEW m \in 1 .. l PROVE buf.bytes[from + m] = s[m]
      <4>1. size + m \in 1 .. size + l /\ ~ (size + m <= size) /\ (size + m) - size = m
        OBVIOUS
      <4>2. p[size + m] = s[m]
        BY <2>6, <4>1
      <4>3. buf.bytes[rsize + (size + m)] = p[size + m]
        BY <2>2, <2>5, <4>1
      <4>4. rsize + (size + m) = from + m
        BY <1>2, <2>9
      <4> QED
        BY <4>2, <4>3, <4>4
    <3>2. text = SubSeq(buf.bytes, from + 1, from + Len(s))
      BY <1>8, <2>4, <2>9
    <3> QED
      BY <1>2, <1>7, <2>4, <2>5, <2>10, <3>1, <3>2, ReadThere
  <2>12. ~ (from + length > Len(buf.bytes))
    BY <1>2, <1>7, <2>9, <2>10
  <2> QED
    BY <1>9, <1>10, <2>3, <2>9, <2>10, <2>11, <2>12
<1> QED
  BY <1>3, <1>4, <1>10, <1>11, <1>12, <1>13, <1>14, ReadKeeps

\* Bytes that are written behind the others fit.
LEMMA WrittenFits ==
  ASSUME NEW b \in [bytes : Seq(Byte), size : Nat \ {0}], Len(b.bytes) <= b.size, NEW bytes \in Seq(Byte)
  PROVE  /\ Written(b, bytes) \in [bytes : Seq(Byte), size : Nat \ {0}]
         /\ Written(b, bytes).bytes = b.bytes \o bytes
         /\ Len(Written(b, bytes).bytes) <= Written(b, bytes).size
<1>1. b.bytes \in Seq(Byte) /\ b.size \in Nat \ {0} /\ Len(b.bytes) \in Nat /\ Len(bytes) \in Nat
  OBVIOUS
<1>2. b.bytes \o bytes \in Seq(Byte) /\ Len(b.bytes \o bytes) = Len(b.bytes) + Len(bytes)
  BY <1>1, ConcatProperties
<1>3. PICK new \in Nat : new = Len(b.bytes) + Len(bytes)
  BY <1>1
<1>4. PICK size \in Nat : size = Resized(b.size, new) /\ size >= b.size /\ size >= new
  BY <1>1, ResizedIsEnough
<1>5. Written(b, bytes) = [bytes |-> b.bytes \o bytes, size |-> size]
  BY <1>3, <1>4 DEF Written
<1>6. size \in Nat \ {0}
  BY <1>1, <1>4
<1> QED
  BY <1>2, <1>3, <1>4, <1>5, <1>6

LEMMA OneBehindAnother ==
  ASSUME NEW a \in Seq(Byte), NEW b \in Seq(Byte), NEW c \in Seq(Byte)
  PROVE  (a \o b) \o c = a \o (b \o c)
BY ConcatAssociative

LEMMA StreamStarts == StreamInit => StreamInv
<1>1. SUFFICES ASSUME StreamInit PROVE StreamInv
  OBVIOUS
<1>2. buf = [bytes |-> <<>>, size |-> StreamCapacity] /\ rsize = 0 /\ packed = <<>> /\ unpacked = <<>>
  BY <1>1 DEF StreamInit, FreshStream
<1>3. StreamShape
  BY <1>2, StreamGrows DEF StreamShape
<1>4. ReaderIsBetween
  <2>1. Laid([i \in 0 .. 0 |-> 0], <<>>, <<>>)
    BY DEF Laid
  <2> QED
    BY <1>2, <2>1 DEF ReaderIsBetween
<1>5. UnpacksWhatWasPacked
  BY <1>2 DEF UnpacksWhatWasPacked
<1> QED
  BY <1>3, <1>4, <1>5 DEF StreamInv

\* Whoever begins again, or empties the stream, is at its beginning.
LEMMA RewoundIsBetween ==
  ASSUME StreamShape', \E at : Laid(at, buf'.bytes, packed'), rsize' = 0, unpacked' = <<>>
  PROVE  StreamInv'
<1>1. PICK at : Laid(at, buf'.bytes, packed')
  OBVIOUS
<1>2. rsize' = at[Len(unpacked')]
  BY <1>1 DEF Laid
<1>3. ReaderIsBetween'
  BY <1>1, <1>2 DEF ReaderIsBetween
<1>4. UnpacksWhatWasPacked'
  BY DEF UnpacksWhatWasPacked
<1> QED
  BY <1>3, <1>4 DEF StreamInv

LEMMA StreamKept == StreamInv /\ [StreamNext]_streamVars => StreamInv'
<1>1. SUFFICES ASSUME StreamInv, [StreamNext]_streamVars PROVE StreamInv'
  OBVIOUS
<1>2. /\ buf \in [bytes : Seq(Byte), size : Nat \ {0}] /\ Len(buf.bytes) <= buf.size
      /\ packed \in Seq(Items) /\ unpacked \in Seq(Reads) /\ StreamShape
  BY <1>1 DEF StreamInv, StreamShape
<1>3. ASSUME NEW n \in Numbers, PackNumber(n) PROVE StreamInv'
  <2>1. PICK it, part : it = Item(n.size, n.value, <<>>) /\ part = Encoded(n.value, n.size)
    OBVIOUS
  <2>2. it \in Items /\ Part(it) = part /\ part \in Seq(Byte)
    BY <2>1, NumberItem
  <2>3. buf' = Written(buf, part) /\ packed' = Append(packed, it) /\ UNCHANGED <<rsize, unpacked>>
    BY <1>3, <2>1 DEF PackNumber
  <2>4. /\ buf' \in [bytes : Seq(Byte), size : Nat \ {0}] /\ Len(buf'.bytes) <= buf'.size
        /\ buf'.bytes = buf.bytes \o Part(it)
    BY <1>2, <2>2, <2>3, WrittenFits
  <2> QED
    BY <1>1, <2>2, <2>3, <2>4, PackKeeps
<1>4. ASSUME NEW s \in Strings, PackString(s) PROVE StreamInv'
  <2>1. PICK it, len : it = Item(0, 0, s) /\ len = Encoded(Len(s), LengthSize)
    OBVIOUS
  <2>2. it \in Items /\ Part(it) = len \o s /\ len \in Seq(Byte) /\ s \in Seq(Byte)
    BY <2>1, StringItem
  <2>3. PICK b : b = Written(buf, len)
    OBVIOUS
  <2>4. buf' = Written(b, s) /\ packed' = Append(packed, it) /\ UNCHANGED <<rsize, unpacked>>
    BY <1>4, <2>1, <2>3 DEF PackString
  <2>5. /\ b \in [bytes : Seq(Byte), size : Nat \ {0}] /\ Len(b.bytes) <= b.size
        /\ b.bytes = buf.bytes \o len
    BY <1>2, <2>2, <2>3, WrittenFits
  <2>6. /\ buf' \in [bytes : Seq(Byte), size : Nat \ {0}] /\ Len(buf'.bytes) <= buf'.size
        /\ buf'.bytes = b.bytes \o s
    BY <2>2, <2>4, <2>5, WrittenFits
  <2>7. buf'.bytes = buf.bytes \o Part(it)
    <3>1. buf.bytes \in Seq(Byte)
      BY <1>2
    <3>2. (buf.bytes \o len) \o s = buf.bytes \o (len \o s)
      BY <2>2, <3>1, OneBehindAnother
    <3> QED
      BY <2>2, <2>5, <2>6, <3>2
  <2> QED
    BY <1>1, <2>2, <2>4, <2>6, <2>7, PackKeeps
<1>5. ASSUME NEW n \in Numbers, UnpackNumber(n.size) PROVE StreamInv'
  BY <1>1, <1>5, UnpackNumberKeeps
<1>6. ASSUME UnpackString PROVE StreamInv'
  BY <1>1, <1>6, UnpackStringKeeps
<1>7. ASSUME EmptyStream PROVE StreamInv'
  <2>1. /\ buf' \in [bytes : Seq(Byte), size : Nat \ {0}] /\ buf'.bytes = <<>>
        /\ rsize' = 0 /\ packed' = <<>> /\ unpacked' = <<>>
    <3>1. CASE buf' = [buf EXCEPT !.bytes = <<>>]
      <4>1. buf = [bytes |-> buf.bytes, size |-> buf.size] /\ buf.size \in Nat \ {0}
        BY <1>2
      <4>2. buf' = [bytes |-> <<>>, size |-> buf.size]
        BY <3>1, <4>1
      <4> QED
        BY <1>7, <4>1, <4>2 DEF EmptyStream
    <3>2. CASE buf' = FreshStream
      BY <1>7, <3>2, StreamGrows DEF EmptyStream, FreshStream
    <3> QED
      BY <1>7, <3>1, <3>2 DEF EmptyStream
  <2>2. StreamShape'
    BY <2>1 DEF StreamShape
  <2>3. Laid([i \in 0 .. 0 |-> 0], buf'.bytes, packed')
    BY <2>1 DEF Laid
  <2> QED
    BY <2>1, <2>2, <2>3, RewoundIsBetween
<1>8. ASSUME Rewind PROVE StreamInv'
  <2>1. rsize' = 0 /\ unpacked' = <<>> /\ buf' = buf /\ packed' = packed
    BY <1>8 DEF Rewind
  <2>2. StreamShape'
    BY <1>2, <2>1 DEF StreamShape
  <2>3. \E at : Laid(at, buf'.bytes, packed')
    BY <1>1, <2>1 DEF StreamInv, ReaderIsBetween
  <2> QED
    BY <2>1, <2>2, <2>3, RewoundIsBetween
<1>9. ASSUME CopyStream PROVE StreamInv'
  <2>1. PICK size \in Nat : size = Resized(StreamCapacity, buf.size) /\ size >= StreamCapacity /\ size >= buf.size
    <3>1. buf.size \in Nat
      BY <1>2
    <3> QED
      BY <3>1, StreamGrows, ResizedIsEnough
  <2>2. buf = [bytes |-> buf.bytes, size |-> buf.size] /\ buf.size \in Nat \ {0} /\ Len(buf.bytes) \in Nat
    BY <1>2
  <2>3. buf' = [bytes |-> buf.bytes, size |-> size] /\ UNCHANGED <<rsize, packed, unpacked>>
    BY <1>9, <2>1, <2>2 DEF CopyStream
  <2>4. size \in Nat \ {0} /\ Len(buf.bytes) <= size
    BY <1>2, <2>1, <2>2
  <2>5. StreamShape'
    <3>1. buf' \in [bytes : Seq(Byte), size : Nat \ {0}] /\ buf'.bytes = buf.bytes /\ buf'.size = size
      BY <1>2, <2>3, <2>4
    <3> QED
      BY <1>2, <2>3, <2>4, <3>1 DEF StreamShape
  <2>6. ReaderIsBetween'
    <3>1. buf'.bytes = buf.bytes
      BY <2>3
    <3>2. Agree(Len(unpacked))' <=> Agree(Len(unpacked))
      BY <2>3 DEF Agree
    <3> QED
      BY <1>1, <2>3, <3>1, <3>2 DEF StreamInv, ReaderIsBetween
  <2>7. UnpacksWhatWasPacked'
    BY <1>1, <2>3 DEF StreamInv, UnpacksWhatWasPacked
  <2> QED
    BY <2>5, <2>6, <2>7 DEF StreamInv
<1>10. CASE UNCHANGED streamVars
  BY <1>1, <1>10 DEF StreamInv, StreamShape, ReaderIsBetween, Agree, UnpacksWhatWasPacked, streamVars
<1> QED
  BY <1>1, <1>3, <1>4, <1>5, <1>6, <1>7, <1>8, <1>9, <1>10 DEF StreamNext

\* A reader that asks for the types that were packed, in their order, and for no more than was
\* packed already, gets what was packed, and 0 or nothing behind the end, while more is packed
\* behind and the buffer is moved and copied.
THEOREM WhatIsPackedIsUnpacked == StreamSpec => []UnpacksWhatWasPacked
<1>1. StreamSpec => []StreamInv
  BY StreamStarts, StreamKept, PTL DEF StreamSpec
<1>2. StreamInv => UnpacksWhatWasPacked
  BY DEF StreamInv
<1> QED
  BY <1>1, <1>2, PTL

\* Whatever is packed and read, in any order and of any types, nothing is written or read behind
\* the end of the buffer.
THEOREM StreamStaysInItsBuffer == StreamSpec => []StreamTypeOK
<1>1. StreamSpec => []StreamInv
  BY StreamStarts, StreamKept, PTL DEF StreamSpec
<1>2. StreamInv => StreamTypeOK
  <2>1. SUFFICES ASSUME StreamInv PROVE StreamTypeOK
    OBVIOUS
  <2>2. /\ buf.bytes \in Seq(Byte) /\ Len(buf.bytes) <= buf.size /\ rsize <= Len(buf.bytes)
    BY <2>1 DEF StreamInv, StreamShape
  <2>3. \A i \in DOMAIN buf.bytes : buf.bytes[i] \in Byte
    BY <2>2, ElementOfSeq
  <2> QED
    BY <2>2, <2>3 DEF StreamTypeOK, Byte
<1> QED
  BY <1>1, <1>2, PTL
=============================================================================
