---------------------------- MODULE ReactorProofs -----------------------------
(***************************************************************************)
(* The two reactors.  Of epoll: the table, the handlers and the kernel's   *)
(* interest list agree, and no event of a batch is for a handler that is   *)
(* gone.  Of select: no handler is called for another's event, and no      *)
(* registration is lost.                                                   *)
(***************************************************************************)
EXTENDS EpollReactor, SelectReactor, FiniteSetTheorems, TLAPS

-----------------------------------------------------------------------------
(* The epoll reactor.                                                      *)

\* The shape of what belongs to the table.
TableShape ==
  /\ DOMAIN entries \subseteq Indexes
  /\ \A i \in DOMAIN entries : entries[i] \in [handler : Connections, masks : SUBSET Masks]
  /\ freeSet \subseteq Indexes
  /\ index \in [Connections -> 0 .. HeapSize - 1] /\ fd \in [Connections -> 0 .. MaxFd]
  /\ DOMAIN interest \subseteq Fds
  /\ \A f \in DOMAIN interest :
       interest[f].handler \in Connections /\ interest[f].masks \in SUBSET Masks

\* No two handlers have one socket.
SocketsDiffer == \A g, h \in Connections : fd[g] = fd[h] /\ fd[g] # 0 => g = h

\* A loop that was stopped has no handlers, and takes none.
StopClears == stopped => freeSet = {} /\ DOMAIN entries = {}

TableInv == TableShape /\ KernelAgrees /\ SocketsDiffer /\ StopClears

\* The loop: who is in the batch is there once, and not called already; who is called has
\* something left of its event.
LoopShape ==
  /\ batch \subseteq [handler : Connections, kinds : SUBSET (Masks \cup {"hup"})]
  /\ event \in [handler : Connections \cup {"none"}, kinds : SUBSET (Masks \cup {"hup"})]
  /\ event.kinds # {} => event.handler \in Connections
  /\ calling \in BOOLEAN /\ stopped \in BOOLEAN
  /\ calling => event.kinds \cap Masks # {}

EventsDiffer ==
  /\ \A e1, e2 \in batch : e1.handler = e2.handler => e1 = e2
  /\ event.kinds # {} => \A e \in batch : e.handler # event.handler

Inv == TableInv /\ LoopShape /\ EventsDiffer /\ EventsReachRegistered

-----------------------------------------------------------------------------
\* A set of numbers that is not empty has a smallest one.
LEMMA MinOfNumbers ==
  ASSUME NEW S \in SUBSET Nat, S # {}
  PROVE  Min(S) \in S /\ \A m \in S : Min(S) <= m
<1> DEFINE T == {0 .. n : n \in S}
<1>1. T \subseteq FiniteSubsetsOf(Nat) /\ T # {}
  <2>1. ASSUME NEW n \in S PROVE 0 .. n \in FiniteSubsetsOf(Nat)
    <3>1. IsFiniteSet(0 .. n)
      BY FS_Interval
    <3>2. 0 .. n \in SUBSET Nat
      OBVIOUS
    <3> QED
      BY <3>1, <3>2 DEF FiniteSubsetsOf
  <2> QED
    BY <2>1
<1>2. \E t \in T : \A u \in T : ~ (<<u, t>> \in StrictSubsetOrdering(Nat))
  <2> HIDE DEF T
  <2> QED
    BY <1>1, FS_StrictSubsetOrderingWellFounded, WFMin
<1>3. PICK n \in S : \A x \in S : ~ (<<0 .. x, 0 .. n>> \in StrictSubsetOrdering(Nat))
  BY <1>2
<1>4. ASSUME NEW x \in S, ~ (n <= x) PROVE FALSE
  <2>1. 0 .. x \subseteq 0 .. n /\ 0 .. x # 0 .. n
    BY <1>4
  <2>2. 0 .. x \in SUBSET Nat /\ 0 .. n \in SUBSET Nat
    OBVIOUS
  <2> QED
    BY <1>3, <2>1, <2>2 DEF StrictSubsetOrdering
<1> QED
  BY <1>4 DEF Min

\* Indexes and sockets are numbers, and 0 is none of them.
LEMMA ConstantFacts == HeapSize \in Nat /\ MaxFd \in Nat /\ 0 \notin Indexes /\ 0 \notin Fds
BY HeapHasIndexes DEF Indexes, Fds

\* A handler that is registered has an open socket, which the kernel watches.
LEMMA RegisteredFacts ==
  ASSUME TableInv, NEW h \in Connections, Registered(h)
  PROVE  /\ index[h] \in Indexes /\ fd[h] \in Fds /\ fd[h] # 0
         /\ fd[h] \in DOMAIN interest
         /\ interest[fd[h]].handler = h /\ (h \in refused \/ interest[fd[h]].masks = MasksOf(h))
<1>1. index[h] \in Indexes
  BY DEF TableInv, TableShape, Registered
<1>2. fd[h] \in DOMAIN interest
  BY DEF TableInv, KernelAgrees
<1>3. fd[h] \in Fds /\ fd[h] # 0
  BY <1>2, ConstantFacts DEF TableInv, TableShape
<1>4. interest[fd[h]].handler \in Connections /\ fd[interest[fd[h]].handler] = fd[h]
  BY <1>2 DEF TableInv, TableShape, KernelAgrees
<1>5. interest[fd[h]].handler = h
  BY <1>3, <1>4 DEF TableInv, SocketsDiffer
<1> QED
  BY <1>1, <1>2, <1>3, <1>5 DEF TableInv, KernelAgrees

\* The kernel watches socket f for handler g, for what that asked for unless it refused.
WatchedFor(f, g) ==
  /\ g \in Connections /\ Registered(g) /\ fd[g] = f
  /\ interest[f].handler = g /\ (g \in refused \/ interest[f].masks = MasksOf(g))

\* KernelAgrees, socket by socket.
LEMMA KernelWatches ==
  ASSUME TableInv
  PROVE  \A f \in DOMAIN interest : WatchedFor(f, interest[f].handler)
BY DEF TableInv, KernelAgrees, TableShape, WatchedFor

\* What a step has to show for the kernel to agree after it.
LEMMA KernelWillAgree ==
  ASSUME IndexesSound',
         \A g \in Connections : Registered(g)' => fd'[g] \in DOMAIN interest',
         \A f \in DOMAIN interest' : \E g : WatchedFor(f, g)'
  PROVE  KernelAgrees'
<1>1. ASSUME NEW f \in DOMAIN interest' PROVE WatchedFor(f, interest[f].handler)'
  <2>1. PICK g : WatchedFor(f, g)'
    OBVIOUS
  <2>2. interest'[f].handler = g
    BY <2>1 DEF WatchedFor
  <2> QED
    BY <2>1, <2>2 DEF WatchedFor
<1>2. DOMAIN interest' = {fd'[g] : g \in {c \in Connections : Registered(c)'}}
  BY DEF WatchedFor
<1> QED
  BY <1>1, <1>2 DEF KernelAgrees, WatchedFor

\* A new socket has a number that no handler has.
LEMMA OpenSocketKeeps ==
  ASSUME TableInv, NEW h \in Connections, OpenSocket(h)
  PROVE  TableInv' /\ \A g \in Connections : Registered(g)' <=> Registered(g)
<1>1. PICK n : n = Min(Fds \ Range(fd))
  OBVIOUS
<1>2. /\ fd[h] = 0 /\ fd' = [fd EXCEPT ![h] = n]
      /\ UNCHANGED <<entries, freeSet, index, interest, stopped, refused>>
  BY <1>1 DEF OpenSocket
<1>3. n \in Fds \ Range(fd)
  <2>1. Fds \ Range(fd) \in SUBSET Nat
    BY DEF Fds
  <2>2. Fds \ Range(fd) # {}
    BY DEF OpenSocket
  <2> QED
    BY <1>1, <2>1, <2>2, MinOfNumbers
<1>4. n \in 0 .. MaxFd /\ n # 0 /\ \A g \in Connections : fd[g] # n
  BY <1>3, ConstantFacts DEF Fds, Range, TableInv, TableShape
<1>5. /\ fd' \in [Connections -> 0 .. MaxFd] /\ fd'[h] = n
      /\ \A g \in Connections : g # h => fd'[g] = fd[g]
  BY <1>2, <1>4 DEF TableInv, TableShape
<1>6. ~Registered(h)
  BY <1>2, RegisteredFacts
<1>7. \A g \in Connections : (Registered(g)' <=> Registered(g)) /\ MasksOf(g)' = MasksOf(g)
  BY <1>2 DEF Registered, MasksOf
<1>8. TableShape'
  BY <1>2, <1>5 DEF TableInv, TableShape
<1>9. SocketsDiffer'
  BY <1>4, <1>5 DEF TableInv, SocketsDiffer
<1>10. KernelAgrees'
  <2>1. IndexesSound'
    BY <1>2 DEF TableInv, KernelAgrees, IndexesSound
  <2>2. \A g \in Connections : Registered(g)' => fd'[g] \in DOMAIN interest'
    BY <1>2, <1>5, <1>6, <1>7, RegisteredFacts
  <2>3. ASSUME NEW f \in DOMAIN interest' PROVE \E g : WatchedFor(f, g)'
    <3>1. PICK g : WatchedFor(f, g)
      BY <1>2, <2>3, KernelWatches
    <3> QED
      BY <1>2, <1>5, <1>6, <1>7, <3>1 DEF WatchedFor
  <2> QED
    BY <2>1, <2>2, <2>3, KernelWillAgree
<1>11. StopClears'
  BY <1>2 DEF TableInv, StopClears
<1> QED
  BY <1>7, <1>8, <1>9, <1>10, <1>11 DEF TableInv

\* Handler h is in the table afterwards, at index i with masks all, and nobody else is touched.
EnteredAt(h, i, all) ==
  /\ entries' = Set(entries, i, [handler |-> h, masks |-> all])
  /\ interest' = Set(interest, fd[h], [handler |-> h, masks |-> all])
  /\ index' = [index EXCEPT ![h] = i]
  /\ freeSet' = freeSet \ {i}
  /\ refused' = refused \ {h}
  /\ UNCHANGED <<fd, stopped>>

\* A handler takes a free index or keeps its own, and the kernel is told.
LEMMA EnteringKeeps ==
  ASSUME TableInv, NEW h \in Connections, fd[h] # 0, NEW i \in Indexes,
         NEW all \in SUBSET Masks, EnteredAt(h, i, all),
         (~Registered(h) /\ i \in freeSet) \/ (Registered(h) /\ i = index[h]),
         stopped => i \in DOMAIN entries
  PROVE  TableInv' /\ \A g \in Connections : Registered(g) => Registered(g)'
<1> DEFINE info == [handler |-> h, masks |-> all]
<1>1. info.handler = h /\ info.masks = all /\ info \in [handler : Connections, masks : SUBSET Masks]
  OBVIOUS
<1> HIDE DEF info
<1>2. /\ DOMAIN entries' = DOMAIN entries \cup {i} /\ entries'[i] = info
      /\ \A j \in DOMAIN entries : j # i => entries'[j] = entries[j]
  <2>1. entries' = Set(entries, i, info)
    BY DEF EnteredAt, info
  <2> QED
    BY <2>1 DEF Set
<1>3. /\ DOMAIN interest' = DOMAIN interest \cup {fd[h]} /\ interest'[fd[h]] = info
      /\ \A f \in DOMAIN interest : f # fd[h] => interest'[f] = interest[f]
  <2>1. interest' = Set(interest, fd[h], info)
    BY DEF EnteredAt, info
  <2> QED
    BY <2>1 DEF Set
<1>4. /\ index' \in [Connections -> 0 .. HeapSize - 1] /\ index'[h] = i
      /\ \A g \in Connections : g # h => index'[g] = index[g]
  BY DEF EnteredAt, TableInv, TableShape, Indexes
<1>5. fd[h] \in Fds
  BY ConstantFacts DEF TableInv, TableShape, Fds
<1>6. i \in DOMAIN entries => entries[i].handler = h /\ index[h] = i
  <2>1. CASE i \in freeSet
    <3>1. ~stopped
      BY <2>1 DEF TableInv, StopClears
    <3> QED
      BY <2>1, <3>1 DEF TableInv, KernelAgrees, IndexesSound
  <2>2. CASE Registered(h) /\ i = index[h]
    BY <2>2 DEF Registered
  <2> QED
    BY <2>1, <2>2
<1>7. ASSUME NEW g \in Connections, g # h
      PROVE  (Registered(g)' <=> Registered(g)) /\ MasksOf(g)' = MasksOf(g)
  <2>1. index[g] \in DOMAIN entries /\ entries[index[g]].handler = g => index[g] # i
    BY <1>6, <1>7
  <2>2. index[g] \in DOMAIN entries' /\ entries'[index[g]].handler = g => index[g] # i
    BY <1>1, <1>2, <1>7
  <2>3. Registered(g)' <=> Registered(g)
    BY <1>2, <1>4, <1>7, <2>1, <2>2 DEF Registered
  <2> QED
    BY <1>2, <1>4, <1>7, <2>1, <2>3 DEF Registered, MasksOf
<1>8. Registered(h)' /\ MasksOf(h)' = all
  BY <1>1, <1>2, <1>4 DEF Registered, MasksOf
<1>9. TableShape'
  <2>1. DOMAIN entries' \subseteq Indexes
    BY <1>2 DEF TableInv, TableShape
  <2>2. \A j \in DOMAIN entries' : entries'[j] \in [handler : Connections, masks : SUBSET Masks]
    BY <1>1, <1>2 DEF TableInv, TableShape
  <2>3. DOMAIN interest' \subseteq Fds
    BY <1>3, <1>5 DEF TableInv, TableShape
  <2>4. \A f \in DOMAIN interest' :
          interest'[f].handler \in Connections /\ interest'[f].masks \in SUBSET Masks
    BY <1>1, <1>3 DEF TableInv, TableShape
  <2>5. freeSet' \subseteq Indexes /\ fd' \in [Connections -> 0 .. MaxFd]
    BY DEF TableInv, TableShape, EnteredAt
  <2> QED
    BY <1>4, <2>1, <2>2, <2>3, <2>4, <2>5 DEF TableShape
<1>10. IndexesSound'
  <2>1. ASSUME NEW j \in DOMAIN entries' PROVE index'[entries'[j].handler] = j
    <3>1. CASE j = i
      BY <1>1, <1>2, <1>4, <3>1
    <3>2. CASE j # i
      <4>1. j \in DOMAIN entries /\ entries'[j] = entries[j]
        BY <1>2, <2>1, <3>2
      <4>2. entries[j].handler \in Connections /\ index[entries[j].handler] = j
        BY <4>1 DEF TableInv, TableShape, KernelAgrees, IndexesSound
      <4>3. entries[j].handler # h
        <5>1. ASSUME entries[j].handler = h PROVE FALSE
          <6>1. Registered(h)
            BY <4>1, <4>2, <5>1 DEF Registered
          <6> QED
            BY <3>2, <4>2, <5>1, <6>1
        <5> QED
          BY <5>1
      <4> QED
        BY <1>4, <4>1, <4>2, <4>3
    <3> QED
      BY <3>1, <3>2
  <2>2. ~stopped' => freeSet' = Indexes \ DOMAIN entries'
    BY <1>2 DEF EnteredAt, TableInv, KernelAgrees, IndexesSound
  <2> QED
    BY <2>1, <2>2 DEF IndexesSound
<1>11. \A g \in Connections : Registered(g)' => fd'[g] \in DOMAIN interest'
  BY <1>3, <1>7, RegisteredFacts DEF EnteredAt
<1>12. ASSUME NEW f \in DOMAIN interest' PROVE \E g : WatchedFor(f, g)'
  <2>1. CASE f = fd[h]
    <3>1. WatchedFor(f, h)'
      BY <1>1, <1>3, <1>8, <2>1 DEF WatchedFor, EnteredAt
    <3> QED
      BY <3>1
  <2>2. CASE f # fd[h]
    <3>1. PICK g : WatchedFor(f, g)
      BY <1>3, <1>12, <2>2, KernelWatches
    <3>2. g # h
      BY <2>2, <3>1 DEF WatchedFor
    <3>3. WatchedFor(f, g)'
      BY <1>3, <1>7, <1>12, <2>2, <3>1, <3>2 DEF WatchedFor, EnteredAt
    <3> QED
      BY <3>3
  <2> QED
    BY <2>1, <2>2
<1>13. KernelAgrees'
  BY <1>10, <1>11, <1>12, KernelWillAgree
<1>14. SocketsDiffer'
  BY DEF TableInv, SocketsDiffer, EnteredAt
<1>15. StopClears'
  BY <1>2 DEF TableInv, StopClears, EnteredAt
<1> QED
  BY <1>7, <1>8, <1>9, <1>13, <1>14, <1>15 DEF TableInv

\* The kernel keeps what it watches a handler for, and its entry has other masks.
LEMMA RefusalKeeps ==
  ASSUME TableInv, NEW h \in Connections, NEW all \in SUBSET Masks, KernelRefuses(h, all),
         UNCHANGED <<fd, stopped>>
  PROVE  TableInv' /\ \A g \in Connections : Registered(g) => Registered(g)'
<1> DEFINE info == [handler |-> h, masks |-> all]
           i == index[h]
<1>1. /\ info.handler = h /\ info \in [handler : Connections, masks : SUBSET Masks]
      /\ i \in DOMAIN entries /\ i \in Indexes /\ entries[i].handler = h /\ Registered(h)
  BY RegisteredFacts DEF KernelRefuses, Registered
<1>2. /\ entries' = Set(entries, i, info) /\ refused' = refused \cup {h}
      /\ UNCHANGED <<freeSet, index, interest, fd, stopped>>
  BY DEF KernelRefuses
<1> HIDE DEF info
<1>3. /\ DOMAIN entries' = DOMAIN entries /\ entries'[i] = info
      /\ \A j \in DOMAIN entries : j # i => entries'[j] = entries[j]
  BY <1>1, <1>2 DEF Set
<1>4. \A j \in DOMAIN entries : entries'[j].handler = entries[j].handler
  BY <1>1, <1>3
<1>5. \A g : Registered(g)' <=> Registered(g)
  BY <1>2, <1>3, <1>4 DEF Registered
<1>6. ASSUME NEW g \in Connections, g # h PROVE MasksOf(g)' = MasksOf(g)
  <2>1. Registered(g) => index[g] # i
    BY <1>1, <1>6 DEF Registered
  <2> QED
    BY <1>2, <1>3, <1>5, <2>1 DEF Registered, MasksOf
<1>7. TableShape'
  BY <1>1, <1>2, <1>3 DEF TableInv, TableShape
<1>8. IndexesSound'
  BY <1>2, <1>3, <1>4 DEF TableInv, KernelAgrees, IndexesSound
<1>9. \A g \in Connections : Registered(g)' => fd'[g] \in DOMAIN interest'
  BY <1>2, <1>5, RegisteredFacts
<1>10. ASSUME NEW f \in DOMAIN interest' PROVE \E g : WatchedFor(f, g)'
  <2>1. PICK g : WatchedFor(f, g)
    BY <1>2, <1>10, KernelWatches
  <2>2. WatchedFor(f, g)'
    BY <1>2, <1>5, <1>6, <2>1 DEF WatchedFor
  <2> QED
    BY <2>2
<1>11. KernelAgrees'
  BY <1>8, <1>9, <1>10, KernelWillAgree
<1>12. SocketsDiffer' /\ StopClears'
  BY <1>2, <1>3 DEF TableInv, SocketsDiffer, StopClears
<1> QED
  BY <1>5, <1>7, <1>11, <1>12 DEF TableInv

\* A registration: an entry more, one changed, one changed without the kernel, or none.
LEMMA RegisterKeeps ==
  ASSUME TableInv, NEW h \in Connections, NEW masks \in SUBSET Masks, RegisterHandler(h, masks)
  PROVE  TableInv' /\ \A g \in Connections : Registered(g) => Registered(g)'
<1>1. PICK i : i = IF Registered(h) THEN index[h] ELSE Min(freeSet)
  OBVIOUS
<1>2. PICK all : all = MasksOf(h) \cup masks
  OBVIOUS
<1>3. /\ fd[h] # 0 /\ freeSet # {} /\ UNCHANGED <<fd, stopped>>
      /\ EnteredAt(h, i, all) \/ KernelRefuses(h, all)
  BY <1>1, <1>2, Zenon DEF RegisterHandler, KernelTakes, EnteredAt
<1>4. all \in SUBSET Masks
  BY <1>2 DEF MasksOf, Registered, TableInv, TableShape
<1>5. ~stopped
  BY <1>3 DEF TableInv, StopClears
<1>6. CASE KernelRefuses(h, all)
  BY <1>3, <1>4, <1>6, RefusalKeeps
<1>7. CASE EnteredAt(h, i, all) /\ Registered(h)
  <2>1. i \in Indexes /\ i = index[h]
    BY <1>1, <1>7, RegisteredFacts
  <2> QED
    BY <1>3, <1>4, <1>5, <1>7, <2>1, EnteringKeeps
<1>8. CASE EnteredAt(h, i, all) /\ ~Registered(h)
  <2>1. freeSet \in SUBSET Nat
    BY DEF TableInv, TableShape, Indexes
  <2>2. i \in freeSet /\ i \in Indexes
    BY <1>1, <1>3, <1>8, <2>1, MinOfNumbers DEF TableInv, TableShape
  <2> QED
    BY <1>3, <1>4, <1>5, <1>8, <2>2, EnteringKeeps
<1> QED
  BY <1>3, <1>6, <1>7, <1>8

\* A handler asks for less, of its entry and of the kernel, which may refuse.
LEMMA RemoveKeeps ==
  ASSUME TableInv, NEW h \in Connections, NEW masks, RemoveHandler(h, masks)
  PROVE  TableInv' /\ \A g \in Connections : Registered(g) => Registered(g)'
<1>1. PICK left : left = MasksOf(h) \ masks
  OBVIOUS
<1>2. /\ Registered(h) /\ UNCHANGED <<fd, stopped>>
      /\ \/ KernelTakes(h, index[h], left) /\ UNCHANGED <<freeSet, index>>
         \/ KernelRefuses(h, left)
  BY <1>1 DEF RemoveHandler
<1>3. left \in SUBSET Masks
  BY <1>1, <1>2 DEF MasksOf, Registered, TableInv, TableShape
<1>4. CASE KernelRefuses(h, left)
  BY <1>2, <1>3, <1>4, RefusalKeeps
<1>5. CASE KernelTakes(h, index[h], left) /\ UNCHANGED <<freeSet, index>>
  <2>1. index[h] \in Indexes /\ fd[h] # 0 /\ index[h] \in DOMAIN entries
    BY <1>2, RegisteredFacts DEF Registered
  <2>2. index' = [index EXCEPT ![h] = index[h]]
    BY <1>5 DEF TableInv, TableShape
  <2>3. freeSet' = freeSet \ {index[h]}
    BY <1>5, <2>1 DEF TableInv, KernelAgrees, IndexesSound, StopClears
  <2>4. EnteredAt(h, index[h], left)
    BY <1>2, <1>5, <2>2, <2>3 DEF KernelTakes, EnteredAt
  <2> QED
    BY <1>2, <1>3, <2>1, <2>4, EnteringKeeps
<1> QED
  BY <1>2, <1>4, <1>5

\* A handler is taken off the table and off the kernel's list, and its socket is closed.
LEMMA DeleteKeeps ==
  ASSUME TableInv, NEW h \in Connections, Registered(h), DeleteAndClose(h), UNCHANGED stopped
  PROVE  /\ TableInv'
         /\ \A g \in Connections : g # h => (Registered(g)' <=> Registered(g))
<1> DEFINE i == index[h]
<1>1. /\ entries' = Restrict(entries, DOMAIN entries \ {i})
      /\ freeSet' = freeSet \cup {i}
      /\ index' = [index EXCEPT ![h] = 0]
      /\ interest' = Restrict(interest, DOMAIN interest \ {fd[h]})
      /\ fd' = [fd EXCEPT ![h] = 0] /\ refused' = refused \ {h}
  BY DEF DeleteAndClose
<1>2. /\ i \in Indexes /\ i \in DOMAIN entries /\ entries[i].handler = h
      /\ fd[h] \in DOMAIN interest /\ fd[h] # 0
  BY RegisteredFacts DEF Registered
<1>3. /\ DOMAIN entries' = DOMAIN entries \ {i}
      /\ \A j \in DOMAIN entries : j # i => entries'[j] = entries[j]
  BY <1>1 DEF Restrict
<1>4. /\ DOMAIN interest' = DOMAIN interest \ {fd[h]}
      /\ \A f \in DOMAIN interest : f # fd[h] => interest'[f] = interest[f]
  BY <1>1 DEF Restrict
<1>5. /\ index' \in [Connections -> 0 .. HeapSize - 1] /\ index'[h] = 0
      /\ fd' \in [Connections -> 0 .. MaxFd] /\ fd'[h] = 0
      /\ \A g \in Connections : g # h => index'[g] = index[g] /\ fd'[g] = fd[g]
  BY <1>1, ConstantFacts, HeapHasIndexes DEF TableInv, TableShape
<1>6. ASSUME NEW g \in Connections, g # h
      PROVE  (Registered(g)' <=> Registered(g)) /\ MasksOf(g)' = MasksOf(g)
  <2>1. index[g] \in DOMAIN entries /\ entries[index[g]].handler = g => index[g] # i
    BY <1>2, <1>6
  <2>2. Registered(g)' <=> Registered(g)
    BY <1>3, <1>5, <1>6, <2>1 DEF Registered
  <2> QED
    BY <1>3, <1>5, <1>6, <2>1, <2>2 DEF Registered, MasksOf
<1>7. ~Registered(h)'
  <2>1. 0 \notin DOMAIN entries'
    BY <1>3, ConstantFacts DEF TableInv, TableShape
  <2> QED
    BY <1>5, <2>1 DEF Registered
<1>8. TableShape'
  <2>1. DOMAIN entries' \subseteq Indexes
    BY <1>3 DEF TableInv, TableShape
  <2>2. \A j \in DOMAIN entries' : entries'[j] \in [handler : Connections, masks : SUBSET Masks]
    BY <1>3 DEF TableInv, TableShape
  <2>3. DOMAIN interest' \subseteq Fds
    BY <1>4 DEF TableInv, TableShape
  <2>4. \A f \in DOMAIN interest' :
          interest'[f].handler \in Connections /\ interest'[f].masks \in SUBSET Masks
    BY <1>4 DEF TableInv, TableShape
  <2>5. freeSet' \subseteq Indexes
    BY <1>1, <1>2 DEF TableInv, TableShape
  <2> QED
    BY <1>5, <2>1, <2>2, <2>3, <2>4, <2>5 DEF TableShape
<1>9. IndexesSound'
  <2>1. ASSUME NEW j \in DOMAIN entries' PROVE index'[entries'[j].handler] = j
    <3>1. j \in DOMAIN entries /\ entries'[j] = entries[j] /\ j # i
      BY <1>3
    <3>2. entries[j].handler \in Connections /\ index[entries[j].handler] = j
      BY <3>1 DEF TableInv, TableShape, KernelAgrees, IndexesSound
    <3> QED
      BY <1>5, <3>1, <3>2
  <2>2. ~stopped' => freeSet' = Indexes \ DOMAIN entries'
    BY <1>1, <1>2, <1>3 DEF TableInv, TableShape, KernelAgrees, IndexesSound
  <2> QED
    BY <2>1, <2>2 DEF IndexesSound
<1>10. \A g \in Connections : Registered(g)' => fd'[g] \in DOMAIN interest'
  <2> SUFFICES ASSUME NEW g \in Connections, Registered(g)' PROVE fd'[g] \in DOMAIN interest'
    OBVIOUS
  <2>1. g # h /\ Registered(g) /\ fd'[g] = fd[g]
    BY <1>5, <1>6, <1>7
  <2>2. fd[g] # fd[h]
    BY <1>2, <2>1 DEF TableInv, SocketsDiffer
  <2> QED
    BY <1>4, <2>1, <2>2, RegisteredFacts
<1>11. ASSUME NEW f \in DOMAIN interest' PROVE \E g : WatchedFor(f, g)'
  <2>1. f \in DOMAIN interest /\ f # fd[h] /\ interest'[f] = interest[f]
    BY <1>4, <1>11
  <2>2. PICK g : WatchedFor(f, g)
    BY <2>1, KernelWatches
  <2>3. g \in Connections /\ g # h
    BY <2>1, <2>2 DEF WatchedFor
  <2>4. WatchedFor(f, g)'
    BY <1>1, <1>5, <1>6, <2>1, <2>2, <2>3 DEF WatchedFor
  <2> QED
    BY <2>4
<1>12. KernelAgrees'
  BY <1>9, <1>10, <1>11, KernelWillAgree
<1>13. SocketsDiffer'
  BY <1>5 DEF TableInv, SocketsDiffer
<1>14. StopClears'
  BY <1>2, <1>3 DEF TableInv, StopClears
<1> QED
  BY <1>6, <1>8, <1>12, <1>13, <1>14 DEF TableInv

\* Nothing is left of a loop that is stopped: whoever is watched was registered.
LEMMA StopKeeps ==
  ASSUME TableInv, StopEventLoop
  PROVE  TableInv'
<1>1. /\ entries' = <<>> /\ freeSet' = {} /\ stopped' = TRUE /\ UNCHANGED index
      /\ fd' = [h \in Connections |-> IF Registered(h) THEN 0 ELSE fd[h]]
      /\ interest' = Restrict(interest, {f \in DOMAIN interest : ~Registered(interest[f].handler)})
  BY DEF StopEventLoop
<1>2. DOMAIN entries' = {}
  BY <1>1
<1>3. DOMAIN interest' = {}
  <2>1. \A f \in DOMAIN interest : Registered(interest[f].handler)
    BY KernelWatches DEF WatchedFor
  <2> QED
    BY <1>1, <2>1 DEF Restrict
<1>4. \A h : ~Registered(h)'
  BY <1>2 DEF Registered
<1>5. /\ fd' \in [Connections -> 0 .. MaxFd]
      /\ \A h \in Connections : fd'[h] = 0 \/ fd'[h] = fd[h]
  BY <1>1, ConstantFacts DEF TableInv, TableShape
<1>6. TableShape'
  BY <1>1, <1>2, <1>3, <1>5 DEF TableInv, TableShape
<1>7. IndexesSound'
  BY <1>1, <1>2 DEF IndexesSound
<1>8. KernelAgrees'
  BY <1>3, <1>4, <1>7, KernelWillAgree
<1>9. SocketsDiffer'
  BY <1>5 DEF TableInv, SocketsDiffer
<1>10. StopClears'
  BY <1>1, <1>2 DEF StopClears
<1> QED
  BY <1>6, <1>8, <1>9, <1>10 DEF TableInv

-----------------------------------------------------------------------------
\* The loop.

\* Between two batches nothing is left to be handed on.
LEMMA NothingToHandOn ==
  ASSUME BetweenBatches, UNCHANGED <<batch, event, calling>>, LoopShape, stopped' \in BOOLEAN
  PROVE  LoopShape' /\ EventsDiffer' /\ EventsReachRegistered'
BY DEF BetweenBatches, NoEvent, LoopShape, EventsDiffer, EventsReachRegistered

\* Where nobody is taken off the table, events still reach registered handlers.
LEMMA NobodyGoes ==
  ASSUME Inv, UNCHANGED <<batch, event, calling, stopped>>,
         \A g \in Connections : Registered(g) => Registered(g)'
  PROVE  LoopShape' /\ EventsDiffer' /\ EventsReachRegistered'
<1>1. LoopShape' /\ EventsDiffer'
  BY DEF Inv, LoopShape, EventsDiffer
<1>2. \A e \in batch : e.handler \in Connections
  BY DEF Inv, LoopShape
<1>3. event.kinds # {} => event.handler \in Connections
  BY DEF Inv, LoopShape
<1> QED
  BY <1>1, <1>2, <1>3 DEF Inv, EventsReachRegistered

\* The handler of the event goes, and with it what is left of the event.
LEMMA CalledOneGoes ==
  ASSUME Inv, event.kinds # {}, DeleteAndClose(event.handler), UNCHANGED <<batch, stopped>>,
         calling' = FALSE, event' = [event EXCEPT !.kinds = {}]
  PROVE  Inv'
<1> DEFINE h == event.handler
<1>1. h \in Connections /\ Registered(h)
  BY DEF Inv, LoopShape, EventsReachRegistered
<1>2. TableInv' /\ \A g \in Connections : g # h => (Registered(g)' <=> Registered(g))
  BY <1>1, DeleteKeeps DEF Inv
<1>3. /\ event' \in [handler : Connections \cup {"none"}, kinds : SUBSET (Masks \cup {"hup"})]
      /\ event'.kinds = {}
  BY DEF Inv, LoopShape
<1>4. LoopShape'
  BY <1>3 DEF Inv, LoopShape
<1>5. EventsDiffer'
  BY <1>3 DEF Inv, EventsDiffer
<1>6. \A e \in batch : e.handler \in Connections /\ e.handler # h /\ Registered(e.handler)
  BY DEF Inv, LoopShape, EventsDiffer, EventsReachRegistered
<1>7. EventsReachRegistered'
  BY <1>2, <1>3, <1>6 DEF EventsReachRegistered
<1> QED
  BY <1>2, <1>4, <1>5, <1>7 DEF Inv

\* The loop goes on, and the table stays as it is.
LEMMA LoopKeepsTable ==
  ASSUME TableInv, UNCHANGED <<entries, freeSet, index, fd, interest, stopped, refused>>
  PROVE  TableInv' /\ \A g : Registered(g)' <=> Registered(g)
<1>1. \A h : (Registered(h)' <=> Registered(h)) /\ MasksOf(h)' = MasksOf(h)
  BY DEF Registered, MasksOf
<1> QED
  BY <1>1, SMTT(30) DEF TableInv, TableShape, KernelAgrees, IndexesSound, SocketsDiffer, StopClears

\* The kernel reports at most one event for every socket it watches, hence for every handler.
LEMMA EpollWaitKeeps ==
  ASSUME Inv, EpollWait
  PROVE  Inv'
<1>0. PICK ready \in SUBSET DOMAIN interest :
        \E kinds \in [ready -> SUBSET (Masks \cup {"hup"}) \ {{}}] :
          batch' = {[handler |-> interest[f].handler, kinds |-> kinds[f]] : f \in ready}
  BY DEF EpollWait
<1>1. PICK kinds \in [ready -> SUBSET (Masks \cup {"hup"}) \ {{}}] :
        batch' = {[handler |-> interest[f].handler, kinds |-> kinds[f]] : f \in ready}
  BY <1>0
<1>2. /\ UNCHANGED <<entries, freeSet, index, fd, interest, event, calling, stopped, refused>>
      /\ event = NoEvent
  BY DEF EpollWait, BetweenBatches
<1>3. TableInv' /\ \A h : Registered(h)' <=> Registered(h)
  BY <1>2, LoopKeepsTable DEF Inv
<1>5. \A f \in ready : WatchedFor(f, interest[f].handler) /\ f # 0
  BY KernelWatches, ConstantFacts DEF Inv, TableInv, TableShape
<1>6. \A e \in batch' : \E f \in ready :
        e = [handler |-> interest[f].handler, kinds |-> kinds[f]]
  BY <1>1
<1>7. LoopShape'
  <2>1. \A e \in batch' : e \in [handler : Connections, kinds : SUBSET (Masks \cup {"hup"})]
    BY <1>1, <1>5, <1>6 DEF WatchedFor
  <2> QED
    BY <1>2, <2>1 DEF Inv, LoopShape
<1>8. EventsDiffer'
  <2>1. ASSUME NEW e1 \in batch', NEW e2 \in batch', e1.handler = e2.handler PROVE e1 = e2
    <3>1. PICK f1 \in ready, f2 \in ready :
            /\ e1 = [handler |-> interest[f1].handler, kinds |-> kinds[f1]]
            /\ e2 = [handler |-> interest[f2].handler, kinds |-> kinds[f2]]
      BY <1>6, <2>1
    <3>2. interest[f1].handler = interest[f2].handler
      BY <2>1, <3>1
    <3>3. f1 = f2
      BY <1>5, <3>2 DEF WatchedFor
    <3> QED
      BY <3>1, <3>3
  <2> QED
    BY <1>2, <2>1 DEF EventsDiffer, NoEvent
<1>9. EventsReachRegistered'
  <2>1. \A e \in batch' : Registered(e.handler)
    BY <1>5, <1>6 DEF WatchedFor
  <2> QED
    BY <1>2, <1>3, <2>1 DEF EventsReachRegistered, NoEvent
<1> QED
  BY <1>3, <1>7, <1>8, <1>9 DEF Inv

\* The next event is taken from the batch, where its handler has no other.
LEMMA NextEventKeeps ==
  ASSUME Inv, NextEvent
  PROVE  Inv'
<1>1. TableInv' /\ \A g : Registered(g)' <=> Registered(g)
  BY LoopKeepsTable DEF Inv, NextEvent
<1>2. event.kinds = {} /\ ~calling /\ UNCHANGED <<calling, stopped>>
  BY DEF NextEvent
<1>3. CASE batch = {}
  BY <1>1, <1>2, <1>3 DEF NextEvent, NoEvent, Inv, LoopShape, EventsDiffer, EventsReachRegistered
<1>4. CASE batch # {}
  <2>1. PICK e \in batch : event' = e /\ batch' = batch \ {e}
    BY <1>4 DEF NextEvent
  <2>2. e \in [handler : Connections, kinds : SUBSET (Masks \cup {"hup"})]
    BY DEF Inv, LoopShape
  <2>3. LoopShape'
    BY <1>2, <2>1, <2>2 DEF Inv, LoopShape
  <2>4. EventsDiffer'
    BY <2>1 DEF Inv, EventsDiffer
  <2>5. EventsReachRegistered'
    BY <1>1, <2>1 DEF Inv, EventsReachRegistered
  <2> QED
    BY <1>1, <2>3, <2>4, <2>5 DEF Inv
<1> QED
  BY <1>3, <1>4

\* A handler is called for what is left of its event, and returns.
LEMMA CallKeeps ==
  ASSUME Inv, CallHandler \/ HandlerReturns
  PROVE  Inv'
<1>1. TableInv' /\ \A g : Registered(g)' <=> Registered(g)
  BY LoopKeepsTable DEF Inv, CallHandler, HandlerReturns
<1>2. /\ UNCHANGED <<batch, stopped>>
      /\ event'.handler = event.handler /\ event'.kinds \subseteq event.kinds
      /\ event' \in [handler : Connections \cup {"none"}, kinds : SUBSET (Masks \cup {"hup"})]
      /\ calling' \in BOOLEAN
      /\ calling' => event'.kinds \cap Masks # {}
  BY DEF Inv, LoopShape, CallHandler, HandlerReturns
<1>3. LoopShape'
  BY <1>2 DEF Inv, LoopShape
<1>4. EventsDiffer'
  BY <1>2 DEF Inv, EventsDiffer
<1>5. EventsReachRegistered'
  BY <1>1, <1>2 DEF Inv, EventsReachRegistered
<1> QED
  BY <1>1, <1>3, <1>4, <1>5 DEF Inv

-----------------------------------------------------------------------------
\* An empty reactor.
LEMMA InitHolds == EpollInit => Inv
<1> SUFFICES ASSUME EpollInit PROVE Inv
  OBVIOUS
<1> USE DEF EpollInit
<1>1. DOMAIN entries = {} /\ DOMAIN interest = {}
  OBVIOUS
<1>2. \A h : ~Registered(h)
  BY <1>1 DEF Registered
<1>3. TableInv
  BY <1>1, <1>2, HeapHasIndexes
  DEF TableInv, TableShape, KernelAgrees, IndexesSound, SocketsDiffer, StopClears
<1>4. LoopShape /\ EventsDiffer /\ EventsReachRegistered
  BY DEF NoEvent, LoopShape, EventsDiffer, EventsReachRegistered
<1> QED
  BY <1>3, <1>4 DEF Inv

\* One step for every action of the application, of the kernel and of the loop.
LEMMA NextHolds ==
  ASSUME Inv, [EpollNext]_epollVars
  PROVE  Inv'
<1>1. CASE UNCHANGED epollVars
  BY <1>1, LoopKeepsTable, NobodyGoes DEF epollVars, Inv
<1>2. CASE EpollWait
  BY <1>2, EpollWaitKeeps
<1>3. CASE NextEvent
  BY <1>3, NextEventKeeps
<1>4. CASE CallHandler \/ HandlerReturns
  BY <1>4, CallKeeps
<1>5. CASE HandlerFails
  <2>1. event.kinds # {}
    BY <1>5 DEF HandlerFails, Inv, LoopShape
  <2> QED
    BY <1>5, <2>1, CalledOneGoes DEF HandlerFails
<1>6. CASE HungUp
  <2>1. event.kinds # {} /\ calling' = FALSE
    BY <1>6 DEF HungUp, Inv, LoopShape
  <2> QED
    BY <1>6, <2>1, CalledOneGoes DEF HungUp
<1>7. CASE StopEventLoop
  <2>1. TableInv'
    BY <1>7, StopKeeps DEF Inv
  <2>2. LoopShape' /\ EventsDiffer' /\ EventsReachRegistered'
    BY <1>7, NothingToHandOn DEF StopEventLoop, Inv
  <2> QED
    BY <2>1, <2>2 DEF Inv
<1>8. ASSUME NEW h \in Connections, OpenSocket(h) PROVE Inv'
  <2>1. TableInv' /\ \A g \in Connections : Registered(g)' <=> Registered(g)
    BY <1>8, OpenSocketKeeps DEF Inv
  <2>2. LoopShape' /\ EventsDiffer' /\ EventsReachRegistered'
    BY <1>8, <2>1, NobodyGoes DEF OpenSocket
  <2> QED
    BY <2>1, <2>2 DEF Inv
<1>9. ASSUME NEW h \in Connections, DeleteHandler(h) PROVE Inv'
  <2>1. TableInv'
    BY <1>9, DeleteKeeps DEF DeleteHandler, Inv
  <2>2. LoopShape' /\ EventsDiffer' /\ EventsReachRegistered'
    BY <1>9, NothingToHandOn DEF DeleteHandler, Inv, LoopShape
  <2> QED
    BY <2>1, <2>2 DEF Inv
<1>10. ASSUME NEW h \in Connections, NEW masks \in SUBSET Masks \ {{}}, RegisterHandler(h, masks)
       PROVE  Inv'
  <2>1. TableInv' /\ \A g \in Connections : Registered(g) => Registered(g)'
    BY <1>10, RegisterKeeps DEF Inv
  <2>2. LoopShape' /\ EventsDiffer' /\ EventsReachRegistered'
    BY <1>10, <2>1, NobodyGoes DEF RegisterHandler
  <2> QED
    BY <2>1, <2>2 DEF Inv
<1>11. ASSUME NEW h \in Connections, NEW masks, RemoveHandler(h, masks) PROVE Inv'
  <2>1. TableInv' /\ \A g \in Connections : Registered(g) => Registered(g)'
    BY <1>11, RemoveKeeps DEF Inv
  <2>2. LoopShape' /\ EventsDiffer' /\ EventsReachRegistered'
    BY <1>11, <2>1, NobodyGoes DEF RemoveHandler
  <2> QED
    BY <2>1, <2>2 DEF Inv
<1> QED
  BY <1>1, <1>2, <1>3, <1>4, <1>5, <1>6, <1>7, <1>8, <1>9, <1>10, <1>11 DEF EpollNext

\* The table, the sockets, the kernel and the batch agree in every reachable state.
THEOREM Invariance == EpollSpec => []Inv
  BY InitHolds, NextHolds, PTL DEF EpollSpec

\* The kernel watches exactly the sockets of the registered handlers, and for what their entries
\* say, whatever handlers do in their calls and whichever changes of masks it refuses; only a
\* handler whose last change was refused may wait for what it is not watched for, or be watched
\* for what it gave up.  Until the loop is stopped no index of the table is lost or has two
\* handlers (KernelAgrees).
THEOREM KernelAlwaysAgrees == EpollSpec => []KernelAgrees
<1>1. Inv => KernelAgrees
  BY DEF Inv, TableInv
<1> QED
  BY <1>1, Invariance, PTL

\* The loop does not look up the handlers that a batch names, and need not: each is still
\* registered when its event's turn comes (EventsReachRegistered).
THEOREM EventsAlwaysReachRegistered == EpollSpec => []EventsReachRegistered
<1>1. Inv => EventsReachRegistered
  BY DEF Inv
<1> QED
  BY <1>1, Invariance, PTL

-----------------------------------------------------------------------------
(* The select reactor.                                                     *)

\* Nobody registers while it is told that its socket is gone: the loop erases the entry it
\* stands on after such a call, whatever the entry holds by then.
NoRegistrationAtTheEnd == RegisterIn \cap {"close", "exception"} = {}

BitNames == {"read", "write", "except"}

SelectShape ==
  /\ DOMAIN listed \subseteq Descriptors
  /\ \A d \in DOMAIN listed :
       listed[d] \in [client : Clients, closing : BOOLEAN, masks : SUBSET SelectMasks]
  /\ handle \in [Clients -> Descriptors \cup {0}]
  /\ bits \in [BitNames -> SUBSET Descriptors]
  /\ walk \in [loop : {"none", "build", "dispatch"}, from : Nat, bit : BitNames, fd : Nat]
  /\ DOMAIN asked \subseteq Clients
  /\ \A h \in DOMAIN asked : asked[h] \in SUBSET SelectMasks
  /\ inside \in [call : {"none", "close", "exception", "input", "output"},
                 client : Clients \cup {"none"}, fd : Nat, erase : BOOLEAN]

\* No two handlers have one descriptor.
DescriptorsDiffer == \A g, h \in Clients : handle[g] = handle[h] /\ handle[g] # 0 => g = h

\* Who has asked for something is listed, with all of it.
AskedAreListed ==
  \A h \in DOMAIN asked :
    /\ handle[h] \in DOMAIN listed
    /\ LET e == listed[handle[h]] IN e.client = h /\ ~e.closing /\ asked[h] \subseteq e.masks

\* Who is listed, and not marked, has asked, unless its socket is gone.
ListedHaveAsked ==
  \A d \in DOMAIN listed :
    LET e == listed[d] IN
    e.closing \/ handle[e.client] = 0 \/ (handle[e.client] = d /\ e.client \in DOMAIN asked)

\* The bits that the loop has still to look at, or to hand to select.
Ahead(d) ==
  \/ walk.loop = "build"
  \/ walk.loop = "dispatch" /\ d >= walk.from /\ ~(inside.erase /\ d = EntryCalled)

\* Such a bit has its owner, who is registered, and was so when select returned.
BitsHaveOwners ==
  \A s \in BitNames : \A d \in bits[s] :
    Ahead(d) => \E h \in DOMAIN asked :
                  handle[h] = d /\ (walk.loop = "dispatch" => <<h, d>> \in offered)

\* Between two bits of an entry the entry stays, and its descriptor is the one that was read.
WalkStays ==
  /\ walk.loop # "dispatch" => walk.bit = "except"
  /\ walk.bit # "except" => walk.from \in DOMAIN listed /\ walk.fd \in {0, walk.from}

\* A call is for the entry the loop stands on.
CallsAreOwn ==
  /\ inside.call \in {"input", "output"} =>
       /\ walk.loop = "dispatch" /\ ~inside.erase /\ inside.fd \in {0, EntryCalled}
       /\ inside.fd # 0 => <<inside.client, inside.fd>> \in offered
  /\ inside.erase =>
       /\ walk.loop = "dispatch" /\ inside.call \in {"close", "exception"}
       /\ inside.client \in Clients /\ handle[inside.client] \in {0, EntryCalled}
       /\ EntryCalled \in DOMAIN listed /\ listed[EntryCalled].client = inside.client

SInv == SelectShape /\ DescriptorsDiffer /\ AskedAreListed /\ ListedHaveAsked
          /\ BitsHaveOwners /\ WalkStays /\ CallsAreOwn

-----------------------------------------------------------------------------
\* Descriptors are numbers, and 0 is none.
LEMMA DescriptorFacts == Descriptors \subseteq Nat /\ 0 \notin Descriptors
BY DescriptorsAreNumbers

\* A finite set of numbers that is not empty has a largest one.
LEMMA MaxOfNumbers ==
  ASSUME NEW S \in SUBSET Nat, IsFiniteSet(S), S # {}
  PROVE  Max(S) \in S
<1> DEFINE Above(x) == {y \in S : y > x}
           T == {Above(x) : x \in S}
<1>1. T \subseteq FiniteSubsetsOf(Nat) /\ T # {}
  <2>1. ASSUME NEW x \in S PROVE Above(x) \in FiniteSubsetsOf(Nat)
    <3>1. IsFiniteSet(Above(x))
      BY FS_Subset
    <3> QED
      BY <3>1 DEF FiniteSubsetsOf
  <2> QED
    BY <2>1
<1>2. \E t \in T : \A u \in T : ~ (<<u, t>> \in StrictSubsetOrdering(Nat))
  <2> HIDE DEF T
  <2> QED
    BY <1>1, FS_StrictSubsetOrderingWellFounded, WFMin
<1>3. PICK x \in S : \A y \in S : ~ (<<Above(y), Above(x)>> \in StrictSubsetOrdering(Nat))
  BY <1>2
<1>4. ASSUME NEW y \in S, ~ (y <= x) PROVE FALSE
  <2>1. y > x /\ y \in Above(x) /\ y \notin Above(y)
    BY <1>4
  <2>2. Above(y) \subseteq Above(x) /\ Above(y) # Above(x)
    <3>1. ASSUME NEW z \in S, z > y PROVE z > x
      <4>1. x \in Nat /\ y \in Nat /\ z \in Nat
        OBVIOUS
      <4> QED
        BY <2>1, <3>1, <4>1
    <3> QED
      BY <2>1, <3>1
  <2>3. Above(y) \in SUBSET Nat /\ Above(x) \in SUBSET Nat
    OBVIOUS
  <2> QED
    BY <1>3, <2>2, <2>3 DEF StrictSubsetOrdering
<1>5. \A y \in S : x >= y
  BY <1>4
<1> QED
  BY <1>5 DEF Max

\* Where the walk is, and whose bits it has still to look at.
LEMMA WalkFacts ==
  ASSUME SelectShape
  PROVE  /\ walk.loop \in {"none", "build", "dispatch"} /\ walk.from \in Nat
         /\ walk.bit \in BitNames /\ walk.fd \in Nat
         /\ inside.call \in {"none", "close", "exception", "input", "output"}
         /\ inside.client \in Clients \cup {"none"} /\ inside.fd \in Nat /\ inside.erase \in BOOLEAN
         /\ EntryCalled \in Int
         /\ EntryCalled = walk.from \/ EntryCalled = walk.from - 1
BY DEF SelectShape, EntryCalled

\* The next entry of the walk is one of the list.
LEMMA HereFacts ==
  ASSUME SelectShape, From(walk.from) # {}
  PROVE  /\ Here \in DOMAIN listed /\ Here >= walk.from /\ Here \in Nat /\ Here # 0
         /\ walk.from \in DOMAIN listed => Here = walk.from
<1>1. PICK S : S = From(walk.from)
  OBVIOUS
<1>2. S \in SUBSET Nat /\ S \subseteq DOMAIN listed /\ \A x \in S : x >= walk.from /\ x # 0
  BY <1>1, DescriptorFacts DEF SelectShape, From
<1>3. Min(S) \in S /\ \A x \in S : Min(S) <= x
  BY <1>1, <1>2, MinOfNumbers
<1>4. Here = Min(S)
  BY <1>1 DEF Here
<1>5. walk.from \in DOMAIN listed => walk.from \in S
  BY <1>1, WalkFacts DEF From
<1>6. Min(S) \in Nat /\ walk.from \in Nat
  BY <1>2, <1>3, WalkFacts
<1>7. walk.from \in DOMAIN listed => Min(S) = walk.from
  BY <1>2, <1>3, <1>5, <1>6
<1> QED
  BY <1>2, <1>3, <1>4, <1>6, <1>7

\* While somebody may register, nobody is about to be erased.
LEMMA NobodyErased ==
  ASSUME NoRegistrationAtTheEnd, SInv, MayRegister
  PROVE  ~inside.erase
BY DEF NoRegistrationAtTheEnd, SInv, CallsAreOwn, MayRegister, MayAct

-----------------------------------------------------------------------------
(* What a step that leaves the walk where it is has to keep.               *)

\* A bit keeps its owner if the step drops none but of bits it clears or has passed.
LEMMA OwnersKept ==
  ASSUME SInv, SelectShape', \A s \in BitNames : bits'[s] \subseteq bits[s], offered' = offered,
         walk'.loop = walk.loop, \A d \in Descriptors : Ahead(d)' => Ahead(d),
         \A h \in DOMAIN asked : \A s \in BitNames : \A d \in bits'[s] :
           handle[h] = d /\ Ahead(d)' => h \in DOMAIN asked' /\ handle'[h] = d
  PROVE  BitsHaveOwners'
<1> SUFFICES ASSUME NEW s \in BitNames, NEW d \in bits'[s], Ahead(d)'
             PROVE  \E h \in DOMAIN asked' : handle'[h] = d /\
                      (walk'.loop = "dispatch" => <<h, d>> \in offered')
  BY DEF BitsHaveOwners
<1>1. d \in bits[s] /\ d \in Descriptors
  BY DEF SInv, SelectShape
<1>2. PICK h \in DOMAIN asked : handle[h] = d /\ (walk.loop = "dispatch" => <<h, d>> \in offered)
  BY <1>1 DEF SInv, BitsHaveOwners
<1> QED
  BY <1>2

\* The walk and the call stay as they are, and so do the entries' owners.
LEMMA WalkKept ==
  ASSUME SInv, UNCHANGED <<walk, inside, offered>>,
         DOMAIN listed \subseteq DOMAIN listed',
         inside.erase => /\ handle'[inside.client] \in {0, handle[inside.client]}
                         /\ listed'[EntryCalled].client = listed[EntryCalled].client
  PROVE  WalkStays' /\ CallsAreOwn' /\ (\A d : Ahead(d)' <=> Ahead(d))
<1>1. EntryCalled' = EntryCalled
  BY DEF EntryCalled
<1>2. WalkStays'
  BY DEF SInv, WalkStays
<1>3. CallsAreOwn'
  BY <1>1 DEF SInv, CallsAreOwn
<1>4. \A d : Ahead(d)' <=> Ahead(d)
  BY <1>1 DEF Ahead
<1> QED
  BY <1>2, <1>3, <1>4

-----------------------------------------------------------------------------
(* Opening, registering and closing.                                       *)

\* A handler that opens gets a descriptor that nobody has.
LEMMA ClientOpensKeeps ==
  ASSUME NoRegistrationAtTheEnd, SInv, NEW h \in Clients, ClientOpens(h)
  PROVE  SInv'
<1>1. /\ handle[h] = 0 /\ \A d \in DOMAIN listed : listed[d].client = h => listed[d].closing
      /\ UNCHANGED <<listed, bits, walk, inside, asked, offered>> /\ ~inside.erase
  BY NobodyErased DEF ClientOpens
<1>2. PICK d : d = Min(Descriptors \ Range(handle))
  OBVIOUS
<1>3. d \in Descriptors /\ \A g \in Clients : handle[g] # d
  <2>1. PICK S : S = Descriptors \ Range(handle)
    OBVIOUS
  <2>2. S \in SUBSET Nat /\ S # {}
    BY <2>1, DescriptorFacts DEF ClientOpens
  <2>3. d \in S
    BY <1>2, <2>1, <2>2, MinOfNumbers
  <2> QED
    BY <2>1, <2>3 DEF Range, SInv, SelectShape
<1>4. /\ handle' \in [Clients -> Descriptors \cup {0}] /\ handle'[h] = d
      /\ \A g \in Clients : g # h => handle'[g] = handle[g]
  BY <1>2, <1>3 DEF ClientOpens, SInv, SelectShape
<1>5. h \notin DOMAIN asked
  BY <1>1, DescriptorFacts DEF SInv, SelectShape, AskedAreListed
<1>6. SelectShape'
  BY <1>1, <1>4 DEF SInv, SelectShape
<1>7. DescriptorsDiffer'
  BY <1>3, <1>4 DEF SInv, DescriptorsDiffer
<1>8. \A g \in DOMAIN asked : g \in Clients /\ g # h /\ handle'[g] = handle[g]
  BY <1>4, <1>5 DEF SInv, SelectShape
<1>9. AskedAreListed'
  BY <1>1, <1>8 DEF SInv, AskedAreListed
<1>10. ListedHaveAsked'
  <2>1. ASSUME NEW e \in DOMAIN listed, ~listed[e].closing
        PROVE  handle'[listed[e].client] = handle[listed[e].client]
    BY <1>1, <1>4, <2>1 DEF SInv, SelectShape
  <2> QED
    BY <1>1, <2>1 DEF SInv, ListedHaveAsked
<1>11. WalkStays' /\ CallsAreOwn' /\ (\A e : Ahead(e)' <=> Ahead(e))
  BY <1>1, WalkKept
<1>12. BitsHaveOwners'
  BY <1>1, <1>6, <1>8, <1>11, OwnersKept
<1> QED
  BY <1>6, <1>7, <1>9, <1>10, <1>11, <1>12 DEF SInv

\* A handler registers: the entry of its descriptor becomes its own.
LEMMA SelectRegisterKeeps ==
  ASSUME NoRegistrationAtTheEnd, SInv, NEW h \in Clients, NEW masks \in SUBSET SelectMasks,
         SelectRegister(h, masks)
  PROVE  SInv'
<1>1. /\ handle[h] # 0 /\ UNCHANGED <<handle, bits, walk, inside, offered>> /\ ~inside.erase
  BY NobodyErased DEF SelectRegister
<1>2. PICK d : d = handle[h] /\ d \in Descriptors
  BY <1>1 DEF SInv, SelectShape
<1>3. PICK m : m = masks \cup IF d \in DOMAIN listed THEN listed[d].masks ELSE {}
  OBVIOUS
<1>4. PICK e : e = [client |-> h, closing |-> FALSE, masks |-> m]
  OBVIOUS
<1>5. listed' = Updated(listed, d, e)
  BY <1>2, <1>3, <1>4 DEF SelectRegister
<1>6. PICK a : a = masks \cup IF h \in DOMAIN asked THEN asked[h] ELSE {}
  OBVIOUS
<1>7. asked' = Updated(asked, h, a)
  BY <1>6 DEF SelectRegister
<1>8. m \in SUBSET SelectMasks /\ a \in SUBSET SelectMasks
  BY <1>3, <1>6 DEF SInv, SelectShape
<1>9. a \subseteq m
  <2>1. CASE h \in DOMAIN asked
    <3>1. d \in DOMAIN listed /\ asked[h] \subseteq listed[d].masks
      BY <1>2, <2>1 DEF SInv, AskedAreListed
    <3> QED
      BY <1>3, <1>6, <2>1, <3>1
  <2>2. CASE h \notin DOMAIN asked
    BY <1>3, <1>6, <2>2
  <2> QED
    BY <2>1, <2>2
<1>10. /\ DOMAIN listed' = DOMAIN listed \cup {d} /\ listed'[d] = e
       /\ \A x \in DOMAIN listed : x # d => listed'[x] = listed[x]
  BY <1>5 DEF Updated
<1>11. /\ DOMAIN asked' = DOMAIN asked \cup {h} /\ asked'[h] = a
       /\ \A g \in DOMAIN asked : g # h => asked'[g] = asked[g]
  BY <1>7 DEF Updated
<1>12. /\ e \in [client : Clients, closing : BOOLEAN, masks : SUBSET SelectMasks]
       /\ e.client = h /\ ~e.closing /\ e.masks = m
  BY <1>4, <1>8
<1>13. SelectShape'
  <2>1. /\ DOMAIN listed' \subseteq Descriptors
        /\ \A x \in DOMAIN listed' :
             listed'[x] \in [client : Clients, closing : BOOLEAN, masks : SUBSET SelectMasks]
    BY <1>2, <1>10, <1>12 DEF SInv, SelectShape
  <2>2. DOMAIN asked' \subseteq Clients /\ \A g \in DOMAIN asked' : asked'[g] \in SUBSET SelectMasks
    BY <1>8, <1>11 DEF SInv, SelectShape
  <2> QED
    BY <1>1, <2>1, <2>2 DEF SInv, SelectShape
<1>14. DescriptorsDiffer'
  BY <1>1 DEF SInv, DescriptorsDiffer
<1>15. AskedAreListed'
  <2>1. ASSUME NEW g \in DOMAIN asked, g # h PROVE handle[g] # d /\ handle[g] \in DOMAIN listed
    BY <1>1, <1>2, <2>1, DescriptorFacts DEF SInv, SelectShape, DescriptorsDiffer, AskedAreListed
  <2>2. ASSUME NEW g \in DOMAIN asked, g # h
        PROVE  /\ handle[g] \in DOMAIN listed'
               /\ LET f == listed'[handle[g]]
                  IN  f.client = g /\ ~f.closing /\ asked'[g] \subseteq f.masks
    BY <1>10, <1>11, <2>1, <2>2 DEF SInv, AskedAreListed
  <2> QED
    BY <1>1, <1>2, <1>9, <1>10, <1>11, <1>12, <2>2 DEF AskedAreListed
<1>16. ListedHaveAsked'
  BY <1>1, <1>2, <1>10, <1>11, <1>12 DEF SInv, ListedHaveAsked
<1>17. WalkStays' /\ CallsAreOwn' /\ (\A x : Ahead(x)' <=> Ahead(x))
  BY <1>1, <1>10, WalkKept
<1>18. BitsHaveOwners'
  BY <1>1, <1>11, <1>13, <1>17, OwnersKept
<1> QED
  BY <1>13, <1>14, <1>15, <1>16, <1>17, <1>18 DEF SInv

\* An application closes a socket.
LEMMA ClientClosesKeeps ==
  ASSUME SInv, NEW h \in Clients, ClientCloses(h)
  PROVE  SInv'
<1>1. /\ UNCHANGED <<listed, bits, walk, inside, offered>>
      /\ h \notin DOMAIN asked \/ walk = Resting \/ (inside.client = h /\ inside.erase)
  BY DEF ClientCloses
<1>2. /\ handle' \in [Clients -> Descriptors \cup {0}] /\ handle'[h] = 0
      /\ \A g \in Clients : g # h => handle'[g] = handle[g]
  BY DEF ClientCloses, SInv, SelectShape
<1>3. /\ DOMAIN asked' = DOMAIN asked \ {h} /\ \A g \in DOMAIN asked : g # h => asked'[g] = asked[g]
  BY DEF ClientCloses, Without, Restrict
<1>4. SelectShape'
  BY <1>1, <1>2, <1>3 DEF SInv, SelectShape
<1>5. DescriptorsDiffer'
  BY <1>2 DEF SInv, DescriptorsDiffer
<1>6. \A g \in DOMAIN asked' : g \in DOMAIN asked /\ g # h /\ handle'[g] = handle[g]
  BY <1>2, <1>3 DEF SInv, SelectShape
<1>7. AskedAreListed'
  BY <1>1, <1>3, <1>6 DEF SInv, AskedAreListed
<1>8. ListedHaveAsked'
  <2>1. ASSUME NEW d \in DOMAIN listed PROVE listed[d].client \in Clients
    BY DEF SInv, SelectShape
  <2> QED
    BY <1>1, <1>2, <1>3, <2>1 DEF SInv, ListedHaveAsked
<1>9. WalkStays' /\ CallsAreOwn' /\ (\A x : Ahead(x)' <=> Ahead(x))
  <2>1. inside.erase => handle'[inside.client] \in {0, handle[inside.client]}
    BY <1>2 DEF SInv, CallsAreOwn
  <2> QED
    BY <1>1, <2>1, WalkKept
<1>10. ASSUME NEW g \in DOMAIN asked, NEW d \in Descriptors, Ahead(d), handle[g] = d
       PROVE  g \in DOMAIN asked' /\ handle'[g] = d
  <2>1. g # h
    <3>1. CASE inside.client = h /\ inside.erase
      <4>1. handle[h] \in {0, EntryCalled} /\ walk.loop = "dispatch"
        BY <3>1 DEF SInv, CallsAreOwn
      <4>2. d # 0 /\ d # EntryCalled
        BY <1>10, <3>1, <4>1, DescriptorFacts DEF Ahead
      <4> QED
        BY <1>10, <4>1, <4>2
    <3>2. CASE walk = Resting
      BY <1>10, <3>2 DEF Ahead, Resting
    <3> QED
      BY <1>1, <3>1, <3>2
  <2> QED
    BY <1>2, <1>3, <1>10, <2>1 DEF SInv, SelectShape
<1>11. BitsHaveOwners'
  <2>1. \A s \in BitNames : bits'[s] \subseteq Descriptors
    BY <1>4 DEF SelectShape
  <2> QED
    BY <1>1, <1>4, <1>9, <1>10, <2>1, OwnersKept
<1> QED
  BY <1>4, <1>5, <1>7, <1>8, <1>9, <1>11 DEF SInv

-----------------------------------------------------------------------------
(* Asking for less, and being deleted.                                     *)

\* A handler asks for less: its entry has less by the same.
LEMMA SelectRemoveKeeps ==
  ASSUME SInv, NEW h \in Clients, NEW masks \in SUBSET SelectMasks, SelectRemove(h, masks)
  PROVE  SInv'
<1>1. h \in DOMAIN asked /\ UNCHANGED <<handle, bits, walk, inside, offered>>
  BY DEF SelectRemove
<1>2. PICK d : d = handle[h] /\ d \in DOMAIN listed
  BY DEF SelectRemove
<1>3. PICK m : m = listed[d].masks \ masks
  OBVIOUS
<1>4. PICK a : a = asked[h] \ masks
  OBVIOUS
<1>5. m \in SUBSET SelectMasks /\ a \in SUBSET SelectMasks /\ a \subseteq m
  BY <1>1, <1>2, <1>3, <1>4 DEF SInv, SelectShape, AskedAreListed
<1>6. /\ DOMAIN listed' = DOMAIN listed
      /\ listed'[d] = [listed[d] EXCEPT !.masks = m]
      /\ \A x \in DOMAIN listed : x # d => listed'[x] = listed[x]
  BY <1>2, <1>3 DEF SelectRemove
<1>7. /\ DOMAIN asked' = DOMAIN asked /\ asked'[h] = a
      /\ \A g \in DOMAIN asked : g # h => asked'[g] = asked[g]
  BY <1>1, <1>4 DEF SelectRemove
<1>8. /\ listed'[d] \in [client : Clients, closing : BOOLEAN, masks : SUBSET SelectMasks]
      /\ listed'[d].client = listed[d].client /\ listed'[d].closing = listed[d].closing
      /\ listed'[d].masks = m
  BY <1>2, <1>5, <1>6 DEF SInv, SelectShape
<1>9. SelectShape'
  <2>1. \A x \in DOMAIN listed' :
          listed'[x] \in [client : Clients, closing : BOOLEAN, masks : SUBSET SelectMasks]
    BY <1>6, <1>8 DEF SInv, SelectShape
  <2>2. \A g \in DOMAIN asked' : asked'[g] \in SUBSET SelectMasks
    BY <1>5, <1>7 DEF SInv, SelectShape
  <2> QED
    BY <1>1, <1>6, <1>7, <2>1, <2>2 DEF SInv, SelectShape
<1>10. DescriptorsDiffer'
  BY <1>1 DEF SInv, DescriptorsDiffer
<1>11. AskedAreListed'
  <2>1. ASSUME NEW g \in DOMAIN asked, g # h PROVE handle[g] # d
    BY <1>1, <1>2, <2>1 DEF SInv, AskedAreListed
  <2> QED
    BY <1>1, <1>2, <1>5, <1>6, <1>7, <1>8, <2>1 DEF SInv, AskedAreListed
<1>12. ListedHaveAsked'
  BY <1>1, <1>6, <1>7, <1>8 DEF SInv, ListedHaveAsked
<1>13. WalkStays' /\ CallsAreOwn' /\ (\A x : Ahead(x)' <=> Ahead(x))
  <2>1. inside.erase => /\ handle'[inside.client] \in {0, handle[inside.client]}
                        /\ listed'[EntryCalled].client = listed[EntryCalled].client
    BY <1>1, <1>6, <1>8 DEF SInv, CallsAreOwn
  <2> QED
    BY <1>1, <1>6, <2>1, WalkKept
<1>14. BitsHaveOwners'
  BY <1>1, <1>7, <1>9, <1>13, OwnersKept
<1> QED
  BY <1>9, <1>10, <1>11, <1>12, <1>13, <1>14 DEF SInv

\* The deleted handler's bits go at once; its entry is marked.
LEMMA SelectDeleteKeeps ==
  ASSUME SInv, NEW h \in Clients, SelectDelete(h)
  PROVE  SInv'
<1>1. h \in DOMAIN asked /\ UNCHANGED <<handle, walk, inside, offered>>
  BY DEF SelectDelete
<1>2. PICK d : d = handle[h] /\ d \in DOMAIN listed
  BY DEF SelectDelete
<1>3. /\ bits' \in [BitNames -> SUBSET Descriptors]
      /\ \A s \in BitNames : bits'[s] = bits[s] \ {d}
  BY <1>2 DEF SelectDelete, BitsCleared, SInv, SelectShape
<1>4. /\ DOMAIN listed' = DOMAIN listed
      /\ listed'[d] = [listed[d] EXCEPT !.closing = TRUE]
      /\ \A x \in DOMAIN listed : x # d => listed'[x] = listed[x]
  BY <1>2 DEF SelectDelete
<1>5. /\ DOMAIN asked' = DOMAIN asked \ {h} /\ \A g \in DOMAIN asked : g # h => asked'[g] = asked[g]
  BY DEF SelectDelete, Without, Restrict
<1>6. /\ listed'[d] \in [client : Clients, closing : BOOLEAN, masks : SUBSET SelectMasks]
      /\ listed'[d].client = listed[d].client /\ listed'[d].closing
  BY <1>2, <1>4 DEF SInv, SelectShape
<1>7. SelectShape'
  <2>1. \A x \in DOMAIN listed' :
          listed'[x] \in [client : Clients, closing : BOOLEAN, masks : SUBSET SelectMasks]
    BY <1>4, <1>6 DEF SInv, SelectShape
  <2> QED
    BY <1>1, <1>3, <1>4, <1>5, <2>1 DEF SInv, SelectShape
<1>8. DescriptorsDiffer'
  BY <1>1 DEF SInv, DescriptorsDiffer
<1>9. ASSUME NEW g \in DOMAIN asked, g # h PROVE handle[g] # d
  BY <1>1, <1>2, <1>9 DEF SInv, AskedAreListed
<1>10. AskedAreListed'
  BY <1>1, <1>4, <1>5, <1>9 DEF SInv, AskedAreListed
<1>11. ListedHaveAsked'
  <2>1. ASSUME NEW x \in DOMAIN listed, x # d, handle[listed[x].client] = x
        PROVE  listed[x].client # h
    BY <1>2, <2>1
  <2> QED
    BY <1>1, <1>2, <1>4, <1>5, <1>6, <2>1 DEF SInv, ListedHaveAsked
<1>12. WalkStays' /\ CallsAreOwn' /\ (\A x : Ahead(x)' <=> Ahead(x))
  <2>1. inside.erase => /\ handle'[inside.client] \in {0, handle[inside.client]}
                        /\ listed'[EntryCalled].client = listed[EntryCalled].client
    BY <1>1, <1>4, <1>6 DEF SInv, CallsAreOwn
  <2> QED
    BY <1>1, <1>4, <2>1, WalkKept
<1>13. BitsHaveOwners'
  BY <1>1, <1>2, <1>3, <1>5, <1>7, <1>12, OwnersKept
<1> QED
  BY <1>7, <1>8, <1>10, <1>11, <1>12, <1>13 DEF SInv

-----------------------------------------------------------------------------
(* The calls.                                                              *)

\* A call returns, and with it, perhaps, the entry goes that the loop stands on.
LEMMA ClientReturnsKeeps ==
  ASSUME SInv, ClientReturns
  PROVE  SInv'
<1>1. inside' = Nobody /\ UNCHANGED <<handle, bits, offered>>
  BY DEF ClientReturns
<1>2. /\ inside'.call = "none" /\ ~inside'.erase
      /\ inside' \in [call : {"none", "close", "exception", "input", "output"},
                      client : Clients \cup {"none"}, fd : Nat, erase : BOOLEAN]
  BY <1>1 DEF Nobody
<1>3. DescriptorsDiffer' /\ CallsAreOwn'
  BY <1>1, <1>2 DEF SInv, DescriptorsDiffer, CallsAreOwn
<1>4. CASE ~inside.erase
  <2>1. UNCHANGED <<listed, asked, walk>>
    BY <1>4 DEF ClientReturns
  <2>2. SelectShape'
    BY <1>1, <1>2, <2>1 DEF SInv, SelectShape
  <2>3. AskedAreListed' /\ ListedHaveAsked' /\ WalkStays'
    BY <1>1, <2>1 DEF SInv, AskedAreListed, ListedHaveAsked, WalkStays
  <2>4. \A d : Ahead(d)' => Ahead(d)
    BY <1>2, <1>4, <2>1 DEF Ahead
  <2>5. BitsHaveOwners'
    BY <1>1, <2>1, <2>2, <2>4, OwnersKept
  <2> QED
    BY <1>3, <2>2, <2>3, <2>5 DEF SInv
<1>5. CASE inside.erase
  <2>1. PICK c, h : c = EntryCalled /\ h = inside.client
    OBVIOUS
  <2>2. /\ walk.loop = "dispatch" /\ h \in Clients /\ handle[h] \in {0, c}
        /\ c \in DOMAIN listed /\ listed[c].client = h
    BY <1>5, <2>1 DEF SInv, CallsAreOwn
  <2>3. /\ listed' = Without(listed, c) /\ asked' = Without(asked, h)
        /\ walk' = [Resting EXCEPT !.loop = walk.loop, !.from = c + 1]
    BY <1>5, <2>1 DEF ClientReturns
  <2>4. /\ DOMAIN listed' = DOMAIN listed \ {c}
        /\ \A x \in DOMAIN listed : x # c => listed'[x] = listed[x]
    BY <2>3 DEF Without, Restrict
  <2>5. /\ DOMAIN asked' = DOMAIN asked \ {h}
        /\ \A g \in DOMAIN asked : g # h => asked'[g] = asked[g]
    BY <2>3 DEF Without, Restrict
  <2>6. c \in Nat /\ c # 0
    BY <2>2, DescriptorFacts DEF SInv, SelectShape
  <2>7. /\ walk'.loop = walk.loop /\ walk'.from = c + 1 /\ walk'.bit = "except"
        /\ walk' \in [loop : {"none", "build", "dispatch"}, from : Nat, bit : BitNames, fd : Nat]
    <3>1. walk' = [loop |-> walk.loop, from |-> c + 1, bit |-> "except", fd |-> 0]
      BY <2>3 DEF Resting
    <3>2. c + 1 \in Nat
      BY <2>6
    <3> QED
      BY <2>2, <3>1, <3>2 DEF BitNames
  <2>8. SelectShape'
    BY <1>1, <1>2, <2>4, <2>5, <2>7 DEF SInv, SelectShape
  <2>9. ASSUME NEW g \in DOMAIN asked, g # h PROVE handle[g] # c
    BY <2>2, <2>9 DEF SInv, AskedAreListed
  <2>10. AskedAreListed'
    BY <1>1, <2>4, <2>5, <2>9 DEF SInv, AskedAreListed
  <2>11. ListedHaveAsked'
    BY <1>1, <2>2, <2>4, <2>5 DEF SInv, ListedHaveAsked
  <2>12. WalkStays'
    BY <2>2, <2>7 DEF WalkStays
  <2>13. ASSUME NEW d \in Descriptors, Ahead(d)' PROVE Ahead(d) /\ d # c
    <3>1. d \in Nat /\ walk.from \in Nat /\ (c = walk.from \/ c = walk.from - 1)
      BY <2>1, DescriptorFacts, WalkFacts DEF SInv
    <3>2. d >= c + 1
      BY <2>2, <2>7, <2>13 DEF Ahead
    <3> QED
      BY <2>1, <2>2, <2>6, <3>1, <3>2 DEF Ahead
  <2>14. BitsHaveOwners'
    <3>1. ASSUME NEW g \in DOMAIN asked, NEW d \in Descriptors, Ahead(d)', handle[g] = d
          PROVE  g \in DOMAIN asked'
      BY <2>2, <2>5, <2>6, <2>13, <3>1, DescriptorFacts
    <3>2. \A s \in BitNames : bits'[s] \subseteq Descriptors
      BY <2>8 DEF SelectShape
    <3> QED
      BY <1>1, <2>7, <2>8, <2>13, <3>1, <3>2, OwnersKept
  <2> QED
    BY <1>3, <2>8, <2>10, <2>11, <2>12, <2>14 DEF SInv
<1> QED
  BY <1>4, <1>5, WalkFacts DEF SInv

\* A call fails: it becomes the one that tells the handler of its end.
LEMMA ClientFailsKeeps ==
  ASSUME SInv, ClientFails
  PROVE  SInv'
<1>1. PICK call \in {"close", "exception"} :
        inside' = [inside EXCEPT !.call = call, !.erase = TRUE]
  BY DEF ClientFails
<1>2. /\ inside.call \in {"input", "output"} /\ inside.client \in DOMAIN asked
      /\ handle[inside.client] = inside.fd
      /\ UNCHANGED <<listed, handle, bits, walk, asked, offered>>
  BY DEF ClientFails
<1>3. /\ inside'.call = call /\ inside'.erase /\ inside'.client = inside.client
      /\ inside' \in [call : {"none", "close", "exception", "input", "output"},
                      client : Clients \cup {"none"}, fd : Nat, erase : BOOLEAN]
  BY <1>1 DEF SInv, SelectShape
<1>4. EntryCalled' = EntryCalled
  BY <1>2 DEF EntryCalled
<1>5. SelectShape'
  BY <1>2, <1>3 DEF SInv, SelectShape
<1>6. DescriptorsDiffer' /\ AskedAreListed' /\ ListedHaveAsked' /\ WalkStays'
  BY <1>2 DEF SInv, DescriptorsDiffer, AskedAreListed, ListedHaveAsked, WalkStays
<1>7. CallsAreOwn'
  <2>1. walk.loop = "dispatch" /\ inside.fd \in {0, EntryCalled}
    BY <1>2 DEF SInv, CallsAreOwn
  <2>2. inside.fd \in DOMAIN listed /\ listed[inside.fd].client = inside.client
    BY <1>2 DEF SInv, AskedAreListed
  <2>3. inside.fd # 0 /\ inside.client \in Clients
    BY <1>2, <2>2, DescriptorFacts DEF SInv, SelectShape
  <2> QED
    BY <1>2, <1>3, <1>4, <2>1, <2>2, <2>3 DEF CallsAreOwn
<1>8. \A d : Ahead(d)' => Ahead(d)
  <2>1. ~inside.erase
    BY <1>2 DEF SInv, CallsAreOwn
  <2> QED
    BY <1>2, <1>4, <2>1 DEF Ahead
<1>9. BitsHaveOwners'
  BY <1>2, <1>5, <1>8, OwnersKept
<1> QED
  BY <1>5, <1>6, <1>7, <1>9 DEF SInv

-----------------------------------------------------------------------------
(* The loops.                                                              *)

\* Outside a walk nobody is in a call that has to do with one.
LEMMA NobodyCalled ==
  ASSUME SInv, inside = Nobody
  PROVE  inside.call = "none" /\ ~inside.erase
BY DEF Nobody

\* What a step of a loop leaves alone.
LEMMA ListKept ==
  ASSUME SInv, UNCHANGED <<listed, handle, asked>>
  PROVE  /\ DescriptorsDiffer' /\ AskedAreListed' /\ ListedHaveAsked'
         /\ bits' \in [BitNames -> SUBSET Descriptors] /\
            walk' \in [loop : {"none", "build", "dispatch"}, from : Nat, bit : BitNames,
                       fd : Nat] /\
            inside' \in [call : {"none", "close", "exception", "input", "output"},
                         client : Clients \cup {"none"}, fd : Nat, erase : BOOLEAN]
              => SelectShape'
<1>1. DescriptorsDiffer' /\ AskedAreListed' /\ ListedHaveAsked'
  BY DEF SInv, DescriptorsDiffer, AskedAreListed, ListedHaveAsked
<1>2. ASSUME bits' \in [BitNames -> SUBSET Descriptors],
             walk' \in [loop : {"none", "build", "dispatch"}, from : Nat, bit : BitNames, fd : Nat],
             inside' \in [call : {"none", "close", "exception", "input", "output"},
                          client : Clients \cup {"none"}, fd : Nat, erase : BOOLEAN]
      PROVE  SelectShape'
  BY <1>2 DEF SInv, SelectShape
<1> QED
  BY <1>1, <1>2

\* Where a loop begins or ends, or passes an entry over, no input or output is handled.
LEMMA QuietWalk ==
  ASSUME inside.call \notin {"input", "output"}, ~inside.erase, inside' = inside,
         walk'.bit = "except"
  PROVE  WalkStays' /\ CallsAreOwn'
BY DEF WalkStays, CallsAreOwn

\* The bits are cleared when a round begins, ends, or breaks off.
LEMMA NoBitsKeeps ==
  ASSUME SInv, inside.call \notin {"input", "output"}, ~inside.erase, bits' = NoBits,
         UNCHANGED <<listed, handle, inside, asked>>,
         walk' = Resting \/ walk' = [Resting EXCEPT !.loop = "build"]
  PROVE  SInv'
<1>1. /\ walk' \in [loop : {"none", "build", "dispatch"}, from : Nat, bit : BitNames, fd : Nat]
      /\ walk'.bit = "except"
  BY DEF Resting, BitNames
<1>2. /\ bits' \in [BitNames -> SUBSET Descriptors]
      /\ \A s \in BitNames : bits'[s] = {}
  BY DEF NoBits, BitNames
<1>3. SelectShape'
  BY <1>1, <1>2, ListKept DEF SInv, SelectShape
<1>4. BitsHaveOwners'
  BY <1>2 DEF BitsHaveOwners
<1> QED
  BY <1>1, <1>3, <1>4, ListKept, QuietWalk DEF SInv

\* Behind every entry lies another place of the walk.
LEMMA NextFacts ==
  ASSUME SelectShape, NEW d \in DOMAIN listed
  PROVE  NextOf(d) \in Nat
<1>1. Descriptors # {} /\ IsFiniteSet(Descriptors)
  BY DescriptorsAreNumbers DEF SelectShape
<1>2. Max(Descriptors) \in Nat
  BY <1>1, DescriptorFacts, MaxOfNumbers
<1>3. PICK S : S = From(d + 1)
  OBVIOUS
<1>4. S \in SUBSET Nat
  BY <1>3, DescriptorFacts DEF SelectShape, From
<1>5. S # {} => Min(S) \in Nat
  BY <1>4, MinOfNumbers
<1> QED
  BY <1>2, <1>3, <1>5 DEF NextOf

\* Sets are built, entry by entry.
LEMMA BuildEntryKeeps ==
  ASSUME SInv, BuildEntry
  PROVE  SInv'
<1>1. walk.loop = "build" /\ inside = Nobody /\ From(walk.from) # {}
      /\ UNCHANGED <<handle, asked, offered>>
  BY DEF BuildEntry
<1>2. PICK d : d = Here
  OBVIOUS
<1>3. d \in DOMAIN listed /\ d \in Nat
  BY <1>1, <1>2, HereFacts DEF SInv
<1>4. PICK e : e = listed[d]
  OBVIOUS
<1>5. e \in [client : Clients, closing : BOOLEAN, masks : SUBSET SelectMasks]
  BY <1>3, <1>4 DEF SInv, SelectShape
<1>6. PICK f : f = handle[e.client] /\ f \in Descriptors \cup {0}
  BY <1>5 DEF SInv, SelectShape
<1>7. walk.bit = "except"
  BY <1>1 DEF SInv, WalkStays
<1>8. inside.call = "none" /\ ~inside.erase
  BY <1>1, NobodyCalled
<1>9. DescriptorsDiffer'
  BY <1>1 DEF SInv, DescriptorsDiffer
<1>10. ASSUME NEW n \in Nat, walk' = [walk EXCEPT !.from = n]
       PROVE  /\ walk' \in [loop : {"none", "build", "dispatch"}, from : Nat,
                            bit : BitNames, fd : Nat]
              /\ walk'.loop = "build" /\ walk'.bit = "except"
  BY <1>1, <1>7, <1>10 DEF SInv, SelectShape
<1>11. d + 1 \in Nat
  BY <1>3
<1>12. CASE e.closing /\ listed' = Without(listed, d) /\ walk' = [walk EXCEPT !.from = d + 1]
            /\ UNCHANGED <<bits, inside>>
  <2>1. /\ DOMAIN listed' = DOMAIN listed \ {d}
        /\ \A x \in DOMAIN listed : x # d => listed'[x] = listed[x]
    BY <1>12 DEF Without, Restrict
  <2>2. SelectShape'
    BY <1>1, <1>10, <1>11, <1>12, <2>1 DEF SInv, SelectShape
  <2>3. AskedAreListed'
    BY <1>1, <1>4, <1>12, <2>1 DEF SInv, AskedAreListed
  <2>4. ListedHaveAsked'
    BY <1>1, <2>1 DEF SInv, ListedHaveAsked
  <2>5. WalkStays' /\ CallsAreOwn'
    BY <1>1, <1>8, <1>10, <1>11, <1>12, QuietWalk
  <2>6. BitsHaveOwners'
    <3>1. \A x \in Descriptors : Ahead(x)' => Ahead(x)
      BY <1>1 DEF Ahead
    <3> QED
      BY <1>1, <1>10, <1>11, <1>12, <2>2, <3>1, OwnersKept
  <2> QED
    BY <1>9, <2>2, <2>3, <2>4, <2>5, <2>6 DEF SInv
<1>13. CASE /\ ~e.closing /\ f = 0 /\ walk' = [walk EXCEPT !.from = NextOf(d)]
            /\ inside' = [call |-> "close", client |-> e.client, fd |-> 0, erase |-> FALSE]
            /\ UNCHANGED <<listed, bits>>
  <2>1. NextOf(d) \in Nat
    BY <1>3, NextFacts DEF SInv
  <2>2. /\ inside' \in [call : {"none", "close", "exception", "input", "output"},
                        client : Clients \cup {"none"}, fd : Nat, erase : BOOLEAN]
        /\ inside'.call = "close" /\ ~inside'.erase
    BY <1>5, <1>13
  <2>3. SelectShape' /\ AskedAreListed' /\ ListedHaveAsked'
    BY <1>1, <1>10, <1>13, <2>1, <2>2, ListKept DEF SInv, SelectShape
  <2>4. WalkStays' /\ CallsAreOwn'
    BY <1>10, <1>13, <2>1, <2>2 DEF WalkStays, CallsAreOwn
  <2>5. BitsHaveOwners'
    <3>1. \A x \in Descriptors : Ahead(x)' => Ahead(x)
      BY <1>1 DEF Ahead
    <3> QED
      BY <1>1, <1>10, <1>13, <2>1, <2>3, <3>1, OwnersKept
  <2> QED
    BY <1>9, <2>3, <2>4, <2>5 DEF SInv
<1>14. CASE /\ ~e.closing /\ f # 0 /\ walk' = [walk EXCEPT !.from = d + 1]
            /\ bits' = [s \in DOMAIN bits |->
                          bits[s] \cup IF s = "except" \/ s \in e.masks THEN {f} ELSE {}]
            /\ UNCHANGED <<listed, inside>>
  <2>1. f = d /\ e.client \in DOMAIN asked
    BY <1>3, <1>4, <1>6, <1>14 DEF SInv, ListedHaveAsked
  <2>2. /\ bits' \in [BitNames -> SUBSET Descriptors]
        /\ \A s \in BitNames : \A x \in bits'[s] : x \in bits[s] \/ x = f
    BY <1>6, <1>14 DEF SInv, SelectShape
  <2>3. SelectShape' /\ AskedAreListed' /\ ListedHaveAsked'
    BY <1>1, <1>10, <1>11, <1>14, <2>2, ListKept DEF SInv, SelectShape
  <2>4. WalkStays' /\ CallsAreOwn'
    BY <1>1, <1>8, <1>10, <1>11, <1>14, QuietWalk
  <2>5. BitsHaveOwners'
    <3> SUFFICES ASSUME NEW s \in BitNames, NEW x \in bits'[s]
                 PROVE  \E h \in DOMAIN asked : handle[h] = x
      BY <1>1, <1>10, <1>11, <1>14 DEF BitsHaveOwners
    <3>1. CASE x = f
      BY <1>6, <2>1, <3>1
    <3>2. CASE x \in bits[s]
      BY <1>1, <3>2 DEF SInv, BitsHaveOwners, Ahead
    <3> QED
      BY <2>2, <3>1, <3>2
  <2> QED
    BY <1>9, <2>3, <2>4, <2>5 DEF SInv
<1> QED
  BY <1>2, <1>4, <1>6, <1>12, <1>13, <1>14 DEF BuildEntry

\* select returns: the bits that are left are of handlers registered now.
LEMMA SelectKeeps ==
  ASSUME SInv, Select
  PROVE  SInv'
<1>1. walk.loop = "build" /\ inside = Nobody /\ UNCHANGED <<listed, handle, inside, asked>>
  BY DEF Select
<1>2. CASE walk' = Resting /\ bits' = NoBits
  BY <1>1, <1>2, NoBitsKeeps, NobodyCalled
<1>3. ASSUME NEW r \in SUBSET bits.read, NEW w \in SUBSET bits.write, NEW x \in SUBSET bits.except,
             bits' = [read |-> r, write |-> w, except |-> x],
             walk' = [Resting EXCEPT !.loop = "dispatch"],
             offered' = {<<h, handle[h]>> : h \in DOMAIN asked}
      PROVE  SInv'
  <2>1. /\ walk' \in [loop : {"none", "build", "dispatch"}, from : Nat, bit : BitNames, fd : Nat]
        /\ walk'.bit = "except" /\ walk'.loop = "dispatch"
    BY <1>3 DEF Resting, BitNames
  <2>2. \A s \in BitNames : bits'[s] \subseteq bits[s]
    BY <1>3 DEF BitNames
  <2>3. bits' \in [BitNames -> SUBSET Descriptors]
    <3>1. r \in SUBSET Descriptors /\ w \in SUBSET Descriptors /\ x \in SUBSET Descriptors
      BY DEF SInv, SelectShape, BitNames
    <3> QED
      BY <1>3, <3>1 DEF BitNames
  <2>4. SelectShape'
    BY <1>1, <2>1, <2>3, ListKept DEF SInv, SelectShape
  <2>5. BitsHaveOwners'
    <3> SUFFICES ASSUME NEW s \in BitNames, NEW d \in bits'[s]
                 PROVE  \E h \in DOMAIN asked : handle[h] = d /\ <<h, d>> \in offered'
      BY <1>1 DEF BitsHaveOwners
    <3>1. PICK h \in DOMAIN asked : handle[h] = d
      BY <1>1, <2>2 DEF SInv, BitsHaveOwners, Ahead
    <3> QED
      BY <1>3, <3>1
  <2> QED
    BY <1>1, <2>1, <2>4, <2>5, ListKept, QuietWalk, NobodyCalled DEF SInv
<1> QED
  BY <1>2, <1>3 DEF Select

\* One bit of the next entry: whoever is called is the owner of the bit.
LEMMA DispatchBitKeeps ==
  ASSUME SInv, DispatchBit
  PROVE  SInv'
<1>1. walk.loop = "dispatch" /\ inside = Nobody /\ From(walk.from) # {}
      /\ UNCHANGED <<listed, handle, bits, asked, offered>>
  BY DEF DispatchBit
<1>2. PICK d : d = Here
  OBVIOUS
<1>3. /\ d \in DOMAIN listed /\ d >= walk.from /\ d \in Nat /\ d # 0
      /\ walk.from \in DOMAIN listed => d = walk.from
  BY <1>1, <1>2, HereFacts DEF SInv
<1>4. PICK e : e = listed[d]
  OBVIOUS
<1>5. e \in [client : Clients, closing : BOOLEAN, masks : SUBSET SelectMasks]
  BY <1>3, <1>4 DEF SInv, SelectShape
<1>6. PICK f : f = IF walk.bit = "except" THEN handle[e.client] ELSE walk.fd
  OBVIOUS
<1>7. /\ inside.call = "none" /\ ~inside.erase
      /\ walk \in [loop : {"none", "build", "dispatch"}, from : Nat, bit : BitNames, fd : Nat]
  BY <1>1, NobodyCalled DEF SInv, SelectShape
<1>8. /\ d + 1 \in Nat /\ (d + 1) - 1 = d /\ d + 1 >= walk.from /\ walk.from \in Nat
  BY <1>3, <1>7
\* A set bit of the descriptor the loop stands on is its owner's.
<1>9. ASSUME NEW s \in BitNames, d \in bits[s] PROVE <<e.client, d>> \in offered
  <2>1. Ahead(d)
    BY <1>1, <1>3, <1>7 DEF Ahead
  <2>2. PICK h \in DOMAIN asked : handle[h] = d /\ <<h, d>> \in offered
    BY <1>1, <1>9, <2>1 DEF SInv, BitsHaveOwners
  <2>3. e.client = h
    BY <1>4, <2>2 DEF SInv, AskedAreListed
  <2> QED
    BY <2>2, <2>3
\* The bits that are still ahead were so before.
<1>10. ASSUME walk'.from \in Nat, walk'.from >= walk.from, walk'.loop = "dispatch"
       PROVE  \A x \in Descriptors : Ahead(x)' => Ahead(x)
  <2>1. ASSUME NEW x \in Descriptors, Ahead(x)' PROVE Ahead(x)
    <3>1. x \in Nat /\ x >= walk'.from
      BY <1>10, <2>1, DescriptorFacts DEF Ahead
    <3>2. x >= walk.from
      BY <1>8, <1>10, <3>1
    <3> QED
      BY <1>1, <1>7, <3>2 DEF Ahead
  <2> QED
    BY <2>1
<1>11. ASSUME NEW call \in {"exception", "input", "output"}, NEW n \in Nat, n \in {d, d + 1},
              NEW b \in BitNames, NEW v \in Nat,
              walk' = [loop |-> "dispatch", from |-> n, bit |-> b, fd |-> v],
              b # "except" => n = d /\ v \in {0, d}, b = "except" => n = d + 1,
              f \in {0, d},
              \/ inside' = Nobody
              \/ /\ inside' = Calling(e.client, call, f, call = "exception")
                 /\ call = "exception" => handle[e.client] = f
                 /\ call # "exception" /\ f # 0 => <<e.client, f>> \in offered
       PROVE  SInv'
  <2>1. /\ walk' \in [loop : {"none", "build", "dispatch"}, from : Nat, bit : BitNames, fd : Nat]
        /\ walk'.loop = "dispatch" /\ walk'.from = n /\ walk'.bit = b /\ walk'.fd = v
    BY <1>11
  <2>2. f \in Nat
    BY <1>3, <1>11
  <2>3. /\ inside' \in [call : {"none", "close", "exception", "input", "output"},
                        client : Clients \cup {"none"}, fd : Nat, erase : BOOLEAN]
        /\ \/ inside'.call = "none" /\ ~inside'.erase
           \/ /\ inside'.call = call /\ inside'.client = e.client /\ inside'.fd = f
              /\ inside'.erase <=> call = "exception"
              /\ call = "exception" => handle[e.client] = f
              /\ call # "exception" /\ f # 0 => <<e.client, f>> \in offered
    <3>1. CASE inside' = Nobody
      BY <3>1 DEF Nobody
    <3>2. CASE inside' = Calling(e.client, call, f, call = "exception")
      <4>1. inside' = [call |-> call, client |-> e.client, fd |-> f, erase |-> call = "exception"]
        BY <3>2 DEF Calling
      <4>2. (call = "exception") \in BOOLEAN /\ e.client \in Clients
        BY <1>5
      <4>3. /\ call = "exception" => handle[e.client] = f
            /\ call # "exception" /\ f # 0 => <<e.client, f>> \in offered
        BY <1>11, <3>2 DEF Calling, Nobody
      <4> QED
        BY <2>2, <4>1, <4>2, <4>3
    <3> QED
      BY <1>11, <3>1, <3>2
  <2>4. SelectShape' /\ DescriptorsDiffer' /\ AskedAreListed' /\ ListedHaveAsked'
    BY <1>1, <2>1, <2>3, ListKept DEF SInv, SelectShape
  <2>5. WalkStays'
    BY <1>1, <1>3, <1>11, <2>1 DEF WalkStays
  <2>6. EntryCalled' = d
    <3>1. CASE b = "except"
      BY <1>8, <1>11, <2>1, <3>1 DEF EntryCalled
    <3>2. CASE b # "except"
      BY <1>11, <2>1, <3>2 DEF EntryCalled
    <3> QED
      BY <3>1, <3>2
  <2>7. CallsAreOwn'
    <3>1. inside'.call \in {"input", "output"} =>
            /\ walk'.loop = "dispatch" /\ ~inside'.erase /\ inside'.fd \in {0, EntryCalled'}
            /\ inside'.fd # 0 => <<inside'.client, inside'.fd>> \in offered'
      BY <1>1, <1>11, <2>1, <2>3, <2>6
    <3>2. inside'.erase =>
            /\ walk'.loop = "dispatch" /\ inside'.call \in {"close", "exception"}
            /\ inside'.client \in Clients /\ handle'[inside'.client] \in {0, EntryCalled'}
            /\ EntryCalled' \in DOMAIN listed' /\ listed'[EntryCalled'].client = inside'.client
      BY <1>1, <1>3, <1>4, <1>5, <1>11, <2>1, <2>3, <2>6
    <3> QED
      BY <3>1, <3>2 DEF CallsAreOwn
  <2>8. BitsHaveOwners'
    <3>1. walk'.from >= walk.from
      BY <1>3, <1>8, <1>11, <2>1
    <3> QED
      BY <1>1, <1>10, <2>1, <2>4, <3>1, OwnersKept
  <2> QED
    BY <2>4, <2>5, <2>7, <2>8 DEF SInv
\* The descriptor is that of the entry, or none.
<1>12. (walk.bit = "except" => ~e.closing) => f \in {0, d}
  <2>1. CASE walk.bit = "except"
    BY <1>3, <1>4, <1>6, <2>1 DEF SInv, ListedHaveAsked
  <2>2. CASE walk.bit # "except"
    BY <1>3, <1>6, <2>2 DEF SInv, WalkStays
  <2> QED
    BY <2>1, <2>2
<1>13. ASSUME NEW s \in BitNames, NEW wanted, NEW call,
              \E set \in MaySet(f, s) :
                 inside' = IF set /\ wanted THEN Calling(e.client, call, f, call = "exception")
                           ELSE Nobody
       PROVE  \/ inside' = Nobody
              \/ /\ inside' = Calling(e.client, call, f, call = "exception")
                 /\ f # 0 => f \in bits[s]
  <2>1. PICK set \in MaySet(f, s) :
          inside' = IF set /\ wanted THEN Calling(e.client, call, f, call = "exception")
                    ELSE Nobody
    BY <1>13
  <2>2. f # 0 => set = (f \in bits[s])
    BY <2>1 DEF MaySet
  <2> QED
    BY <2>1, <2>2
<1>14. CASE /\ walk.bit = "except" /\ e.closing /\ walk' = [walk EXCEPT !.from = d + 1]
            /\ UNCHANGED inside
  <2>1. walk' \in [loop : {"none", "build", "dispatch"}, from : Nat, bit : BitNames, fd : Nat]
        /\ walk'.bit = "except" /\ walk'.loop = "dispatch" /\ walk'.from = d + 1
    BY <1>1, <1>7, <1>8, <1>14
  <2>2. SelectShape' /\ DescriptorsDiffer' /\ AskedAreListed' /\ ListedHaveAsked'
    BY <1>1, <1>14, <2>1, ListKept DEF SInv, SelectShape
  <2>3. BitsHaveOwners'
    BY <1>1, <1>8, <1>10, <2>1, <2>2, OwnersKept
  <2> QED
    BY <1>1, <1>7, <1>14, <2>1, <2>2, <2>3, QuietWalk DEF SInv
<1>15. CASE /\ walk.bit = "except" /\ ~e.closing
            /\ \E set \in MaySet(f, walk.bit) :
                 inside' = IF set /\ TRUE
                           THEN Calling(e.client, "exception", f, "exception" = "exception")
                           ELSE Nobody
            /\ walk' = [walk EXCEPT !.from = d, !.bit = "read", !.fd = f]
  <2>1. f \in {0, d} /\ handle[e.client] = f /\ f \in Nat
    BY <1>3, <1>6, <1>12, <1>15
  <2>2. walk' = [loop |-> "dispatch", from |-> d, bit |-> "read", fd |-> f]
    BY <1>1, <1>7, <1>15
  <2> QED
    BY <1>3, <1>11, <1>13, <1>15, <2>1, <2>2, ZenonT(30) DEF BitNames
<1>16. CASE /\ walk.bit = "read"
            /\ \E set \in MaySet(f, walk.bit) :
                 inside' = IF set /\ "read" \in e.masks
                           THEN Calling(e.client, "input", f, "input" = "exception") ELSE Nobody
            /\ walk' = [walk EXCEPT !.bit = "write"]
  <2>1. f \in {0, d} /\ f = walk.fd /\ f \in Nat /\ walk.from = d
    BY <1>3, <1>6, <1>12, <1>16 DEF SInv, WalkStays
  <2>2. walk' = [loop |-> "dispatch", from |-> d, bit |-> "write", fd |-> f]
    BY <1>1, <1>7, <1>16, <2>1
  <2>3. \/ inside' = Nobody
        \/ /\ inside' = Calling(e.client, "input", f, "input" = "exception")
           /\ f # 0 => f \in bits["read"]
    BY <1>13, <1>16 DEF BitNames
  <2>4. f # 0 /\ f \in bits["read"] => <<e.client, f>> \in offered
    BY <1>9, <2>1 DEF BitNames
  <2> QED
    BY <1>3, <1>11, <2>1, <2>2, <2>3, <2>4 DEF BitNames
<1>17. CASE /\ walk.bit = "write"
            /\ \E set \in MaySet(f, walk.bit) :
                 inside' = IF set /\ "write" \in e.masks
                           THEN Calling(e.client, "output", f, "output" = "exception") ELSE Nobody
            /\ walk' = [Resting EXCEPT !.loop = "dispatch", !.from = d + 1]
  <2>1. f \in {0, d} /\ f \in Nat
    BY <1>3, <1>6, <1>12, <1>17
  <2>2. walk' = [loop |-> "dispatch", from |-> d + 1, bit |-> "except", fd |-> 0]
    BY <1>17 DEF Resting
  <2>3. \/ inside' = Nobody
        \/ /\ inside' = Calling(e.client, "output", f, "output" = "exception")
           /\ f # 0 => f \in bits["write"]
    BY <1>13, <1>17 DEF BitNames
  <2>4. f # 0 /\ f \in bits["write"] => <<e.client, f>> \in offered
    BY <1>9, <2>1 DEF BitNames
  <2> QED
    BY <1>8, <1>11, <2>1, <2>2, <2>3, <2>4 DEF BitNames
<1> QED
  BY <1>2, <1>4, <1>6, <1>14, <1>15, <1>16, <1>17 DEF DispatchBit

\* A round begins, or ends, or the loop is stopped.
LEMMA RoundsKeep ==
  ASSUME SInv, BuildSets \/ RoundEnds
  PROVE  SInv'
<1>1. CASE RoundEnds
  BY <1>1, NoBitsKeeps, NobodyCalled DEF RoundEnds
<1>2. CASE BuildSets
  <2>1. inside.call \notin {"input", "output"} /\ ~inside.erase
    BY <1>2 DEF BuildSets, Resting, SInv, CallsAreOwn
  <2> QED
    BY <1>2, <2>1, NoBitsKeeps DEF BuildSets
<1> QED
  BY <1>1, <1>2

\* The loop is stopped between two rounds, and its list emptied.
LEMMA SelectStopKeeps ==
  ASSUME SInv, SelectStop
  PROVE  SInv'
<1>1. /\ walk = Resting /\ listed' = <<>> /\ asked' = <<>>
      /\ UNCHANGED <<handle, bits, walk, inside, offered>>
  BY DEF SelectStop
<1>2. DOMAIN listed' = {} /\ DOMAIN asked' = {}
  BY <1>1
<1>3. walk.loop = "none"
  BY <1>1 DEF Resting
<1>4. inside.call \notin {"input", "output"} /\ ~inside.erase /\ walk.bit = "except"
  BY <1>3 DEF SInv, CallsAreOwn, WalkStays
<1>5. SelectShape'
  BY <1>1, <1>2 DEF SInv, SelectShape
<1>6. DescriptorsDiffer' /\ AskedAreListed' /\ ListedHaveAsked'
  BY <1>1, <1>2 DEF SInv, DescriptorsDiffer, AskedAreListed, ListedHaveAsked
<1>7. BitsHaveOwners'
  BY <1>1, <1>3 DEF BitsHaveOwners, Ahead
<1>8. WalkStays' /\ CallsAreOwn'
  BY <1>1, <1>4 DEF WalkStays, CallsAreOwn
<1> QED
  BY <1>5, <1>6, <1>7, <1>8 DEF SInv

-----------------------------------------------------------------------------
(* The theorem.                                                            *)

\* At the start the list is empty, and no loop walks.
LEMMA SelectInitHolds == SelectInit => SInv
<1> SUFFICES ASSUME SelectInit PROVE SInv
  OBVIOUS
<1>1. /\ DOMAIN listed = {} /\ DOMAIN asked = {} /\ handle = [h \in Clients |-> 0]
      /\ bits = NoBits /\ walk = Resting /\ inside = Nobody
  BY DEF SelectInit
<1>2. /\ walk \in [loop : {"none", "build", "dispatch"}, from : Nat, bit : BitNames, fd : Nat]
      /\ walk.loop = "none" /\ walk.bit = "except"
  BY <1>1 DEF Resting, BitNames
<1>3. /\ inside \in [call : {"none", "close", "exception", "input", "output"},
                      client : Clients \cup {"none"}, fd : Nat, erase : BOOLEAN]
      /\ inside.call = "none" /\ ~inside.erase
  BY <1>1 DEF Nobody
<1>4. bits \in [BitNames -> SUBSET Descriptors]
  BY <1>1 DEF NoBits, BitNames
<1>5. SelectShape
  BY <1>1, <1>2, <1>3, <1>4 DEF SelectShape
<1>6. DescriptorsDiffer /\ AskedAreListed /\ ListedHaveAsked
  BY <1>1 DEF DescriptorsDiffer, AskedAreListed, ListedHaveAsked
<1>7. BitsHaveOwners
  BY <1>2 DEF BitsHaveOwners, Ahead
<1>8. WalkStays /\ CallsAreOwn
  BY <1>2, <1>3 DEF WalkStays, CallsAreOwn
<1> QED
  BY <1>5, <1>6, <1>7, <1>8 DEF SInv

\* Every step of the loop, of a handler and of the application keeps the invariant.
LEMMA SelectNextHolds ==
  ASSUME NoRegistrationAtTheEnd, SInv, [SelectNext]_selectVars
  PROVE  SInv'
<1>1. CASE UNCHANGED selectVars
  <2>1. UNCHANGED <<listed, handle, bits, walk, inside, asked, offered>>
    BY <1>1 DEF selectVars
  <2>2. SelectShape'
    BY <2>1 DEF SInv, SelectShape
  <2>3. DescriptorsDiffer' /\ AskedAreListed' /\ ListedHaveAsked'
    BY <2>1, ListKept
  <2>4. WalkStays' /\ CallsAreOwn' /\ (\A x : Ahead(x)' <=> Ahead(x))
    BY <2>1, WalkKept DEF SInv, CallsAreOwn
  <2>5. BitsHaveOwners'
    BY <2>1, <2>2, <2>4, OwnersKept
  <2> QED
    BY <2>2, <2>3, <2>4, <2>5 DEF SInv
<1>2. ASSUME NEW h \in Clients, ClientOpens(h) \/ SelectDelete(h) \/ ClientCloses(h)
      PROVE  SInv'
  BY <1>2, ClientOpensKeeps, SelectDeleteKeeps, ClientClosesKeeps
<1>3. ASSUME NEW h \in Clients, NEW m \in SelectMasks,
             SelectRegister(h, {m}) \/ SelectRemove(h, {m})
      PROVE  SInv'
  <2>1. {m} \in SUBSET SelectMasks
    OBVIOUS
  <2> QED
    BY <1>3, <2>1, SelectRegisterKeeps, SelectRemoveKeeps
<1> QED
  BY <1>1, <1>2, <1>3, RoundsKeep, BuildEntryKeeps, SelectKeeps, DispatchBitKeeps,
     ClientReturnsKeeps, ClientFailsKeeps, SelectStopKeeps DEF SelectNext

\* If no handler registers while it is told that its socket is gone, select's loop calls none
\* for an event that was not reported for it while it was registered, whoever has its
\* descriptor by now, and loses no registration (SelectServesItsOwn).
THEOREM EventsFindTheirOwners ==
  ASSUME NoRegistrationAtTheEnd
  PROVE  SelectSpec => []SelectServesItsOwn
<1>1. SInv /\ [SelectNext]_selectVars => SInv'
  BY SelectNextHolds
<1>2. SInv => SelectServesItsOwn
  BY DEF SInv, CallsAreOwn, AskedAreListed, SelectServesItsOwn
<1> QED
  BY <1>1, <1>2, SelectInitHolds, PTL DEF SelectSpec
=============================================================================
