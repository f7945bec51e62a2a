------------------------- MODULE RudpTimerWheelProofs -------------------------
(***************************************************************************)
(* No timer of the wheel is lost, doubled or late, as long as the loop is  *)
(* not so far behind that a timer asked for now lies a turn ahead.  Nothing *)
(* in the code bounds this: it is a hypothesis here, and where it fails a  *)
(* session may wait for ever, as the run wheel_stall shows.                *)
(*                                                                         *)
(* The SYN times a session asks for, which come from RateCtrl, are at most *)
(* 1815 ms, whatever pings are measured.                                   *)
(*                                                                         *)
(* The same is proved of the timer queue of the reactors: its handlers,    *)
(* its heap and its free list agree, every timer is in the one slot of one *)
(* ring that its time stamp names, and it goes off in its turn although    *)
(* the rings' cascades move it.  A time stamp is read as a number whose    *)
(* digits are the slots; a ring turns when counting on carries into it.    *)
(***************************************************************************)
EXTENDS RudpTimerWheel, RateCtrl, TimerQueue, Integers, FiniteSetTheorems, SequenceTheorems,
        FunctionTheorems, WellFoundedInduction, TLAPS

\* A SYN time lies ahead, but by less than a turn, though the loop is late.
LagLeavesRoom == \A t \in SynTimes : t > 0 /\ t + MaxLag < WheelSize

\* One slot has room for a timer of every session.
RoomForAll == IsFiniteSet(Sessions) /\ Cardinality(Sessions) <= SlotRoom

-----------------------------------------------------------------------------
(* Remainders.                                                             *)

\* What division and remainder are.
LEMMA RemainderFacts ==
  ASSUME NEW w \in Nat \ {0}, NEW x \in Nat
  PROVE  x % w \in 0 .. w - 1 /\ x \div w \in Nat /\ x = (w * (x \div w)) + (x % w)
<1>1. x % w \in 0 .. w - 1
  OBVIOUS
<1>2. x \div w \in Int
  OBVIOUS
<1>3. x = (w * (x \div w)) + (x % w)
  OBVIOUS
<1>4. ~(x \div w < 0)
  OBVIOUS
<1> QED
  BY <1>1, <1>2, <1>3, <1>4

\* Two numbers less than w apart do not have the same remainder.
LEMMA RemaindersDiffer ==
  ASSUME NEW w \in Nat \ {0}, NEW x \in Nat, NEW y \in Nat, x % w = y % w, x - y < w, y - x < w
  PROVE  x = y
<1>1. PICK p \in Nat, q \in Nat : p = x \div w /\ q = y \div w
  BY RemainderFacts
<1>2. x - y = w * p - w * q
  <2>1. PICK r \in Nat : r = x % w /\ r = y % w
    BY RemainderFacts
  <2>2. x = (w * p) + r
    BY <1>1, <2>1, RemainderFacts
  <2>3. y = (w * q) + r
    BY <1>1, <2>1, RemainderFacts
  <2>4. w * p \in Nat /\ w * q \in Nat
    OBVIOUS
  <2> QED
    BY <2>2, <2>3, <2>4
<1>3. ASSUME p >= q + 1 PROVE FALSE
  <2>1. w * p >= w * (q + 1)
    BY <1>3
  <2>2. w * (q + 1) = w * q + w
    OBVIOUS
  <2>3. w * p \in Nat /\ w * q \in Nat
    OBVIOUS
  <2> QED
    BY <1>2, <2>1, <2>2, <2>3
<1>4. ASSUME q >= p + 1 PROVE FALSE
  <2>1. w * q >= w * (p + 1)
    BY <1>4
  <2>2. w * (p + 1) = w * p + w
    OBVIOUS
  <2>3. w * p \in Nat /\ w * q \in Nat
    OBVIOUS
  <2> QED
    BY <1>2, <2>1, <2>2, <2>3
<1>5. p = q
  BY <1>3, <1>4
<1> QED
  BY <1>2, <1>5

\* The remainder is the number in a window of w, by its quotient.
LEMMA RemainderIs ==
  ASSUME NEW w \in Nat \ {0}, NEW q \in Nat, NEW r \in 0 .. w - 1
  PROVE  (w * q + r) % w = r
<1> DEFINE x == w * q + r
<1>1. w * q \in Nat /\ x \in Nat
  OBVIOUS
<1>2. PICK p \in Nat, s \in 0 .. w - 1 : p = x \div w /\ s = x % w /\ x = w * p + s
  BY <1>1, RemainderFacts
<1>3. w * p \in Nat
  OBVIOUS
<1>4. ASSUME p >= q + 1 PROVE FALSE
  <2>1. w * p >= w * (q + 1)
    BY <1>4
  <2>2. w * (q + 1) = w * q + w
    OBVIOUS
  <2> QED
    BY <1>1, <1>2, <1>3, <2>1, <2>2
<1>5. ASSUME q >= p + 1 PROVE FALSE
  <2>1. w * q >= w * (p + 1)
    BY <1>5
  <2>2. w * (p + 1) = w * p + w
    OBVIOUS
  <2> QED
    BY <1>1, <1>2, <1>3, <2>1, <2>2
<1>6. p = q
  BY <1>4, <1>5
<1> QED
  BY <1>1, <1>2, <1>3, <1>6

\* A step of one, and of a whole turn.
LEMMA RemainderSteps ==
  ASSUME NEW w \in Nat \ {0}, NEW x \in Nat
  PROVE  (x + w) % w = x % w /\ (x + 1) % w = ((x % w) + 1) % w
<1>1. PICK q \in Nat, r \in 0 .. w - 1 : q = x \div w /\ r = x % w /\ x = w * q + r
  BY RemainderFacts
<1>2. w * q \in Nat /\ w * (q + 1) = w * q + w
  OBVIOUS
<1>3. (x + w) % w = r
  <2>1. x + w = w * (q + 1) + r
    BY <1>1, <1>2
  <2>2. (w * (q + 1) + r) % w = r
    BY RemainderIs
  <2> QED
    BY <2>1, <2>2
<1>4. (x + 1) % w = (r + 1) % w
  <2>1. CASE r + 1 < w
    <3>1. r + 1 \in 0 .. w - 1 /\ x + 1 = w * q + (r + 1) /\ r + 1 = w * 0 + (r + 1)
      BY <1>1, <1>2, <2>1
    <3>2. (x + 1) % w = r + 1
      BY <3>1, RemainderIs
    <3>3. (w * 0 + (r + 1)) % w = r + 1
      BY <3>1, RemainderIs
    <3> QED
      BY <3>1, <3>2, <3>3
  <2>2. CASE r + 1 = w
    <3>1. x + 1 = w * (q + 1) + 0 /\ r + 1 = w * 1 + 0 /\ 0 \in 0 .. w - 1
      BY <1>1, <1>2, <2>2
    <3>2. (w * (q + 1) + 0) % w = 0 /\ (w * 1 + 0) % w = 0
      BY <3>1, RemainderIs
    <3> QED
      BY <3>1, <3>2
  <2> QED
    BY <1>1, <2>1, <2>2
<1> QED
  BY <1>1, <1>3, <1>4

-----------------------------------------------------------------------------
(* The invariant.                                                          *)

Events == [session : Sessions, due : Nat]

WheelShape ==
  /\ clock \in Nat /\ timeNow \in Nat
  /\ tick \in [WheelSlots -> Nat] /\ current \in WheelSlots
  /\ slots \in [WheelSlots -> Seq(Events)]
  /\ \A j \in WheelSlots : Len(slots[j]) <= SlotRoom
  /\ round \in [i : Nat, count : Nat]
  /\ open \subseteq Sessions /\ unsent \subseteq armed /\ armed \subseteq open

\* The loop and the clock: the slot it is at is not ahead of its time by more than one.
ClocksAgree ==
  /\ timeNow <= clock /\ clock <= tick[current] + MaxLag /\ tick[current] <= timeNow + 1
  /\ round = NoRound \/ /\ round.i >= 1 /\ round.i <= round.count + 1 /\ InRound
                        /\ round.count = Len(slots[current]) /\ tick[current] <= timeNow

\* Every slot stands for the next time that falls on it.
TicksAhead ==
  \A j \in WheelSlots :
    tick[j] % WheelSize = j /\ tick[current] <= tick[j] /\ tick[j] < tick[current] + WheelSize

DueInTheirSlot == \A j \in WheelSlots : \A i \in 1 .. Len(slots[j]) : slots[j][i].due = tick[j]

\* Event i of slot j is session s's, and has not gone off.
Pending(j, i, s) ==
  /\ j \in WheelSlots /\ i \in 1 .. Len(slots[j]) /\ slots[j][i].session = s
  /\ ~(j = current /\ InRound /\ i < round.i)

OneTimerEach ==
  \A s \in Sessions : \A j, k \in WheelSlots : \A i, l \in Nat :
    Pending(j, i, s) /\ Pending(k, l, s) => j = k /\ i = l

ArmedHaveTimers ==
  \A s \in open : s \in armed <=> \E j \in WheelSlots : \E i \in Nat : Pending(j, i, s)

Inv ==
  /\ WheelShape /\ ClocksAgree /\ TicksAhead /\ DueInTheirSlot /\ OneTimerEach /\ ArmedHaveTimers

\* The constants, and that every time stands for a slot.
LEMMA WheelFacts ==
  /\ WheelSize \in Nat \ {0} /\ SlotRoom \in Nat /\ MaxLag \in Nat /\ SynTimes \subseteq Nat
  /\ WheelSlots = 0 .. WheelSize - 1
  /\ \A n \in Nat : n % WheelSize \in WheelSlots
BY WheelHasSlots, TimesAreNaturals, RemainderFacts DEF WheelSlots

\* A time less than a turn ahead falls on the slot that stands for it.
LEMMA SlotOfTime ==
  ASSUME WheelShape, TicksAhead, NEW d \in Nat, tick[current] <= d, d < tick[current] + WheelSize
  PROVE  tick[d % WheelSize] = d
<1>1. PICK j \in WheelSlots : j = d % WheelSize
  BY WheelFacts
<1>2. /\ tick[j] \in Nat /\ tick[current] \in Nat /\ tick[j] % WheelSize = j
      /\ tick[current] <= tick[j] /\ tick[j] < tick[current] + WheelSize
  BY DEF WheelShape, TicksAhead
<1>3. PICK w \in Nat \ {0} : w = WheelSize
  BY WheelFacts
<1>4. tick[j] - d < w /\ d - tick[j] < w
  BY <1>2, <1>3
<1> QED
  BY <1>1, <1>2, <1>3, <1>4, RemaindersDiffer

\* The slot behind the current one stands for the next time, and one turn on, the current one does.
LEMMA TicksGoOn ==
  ASSUME WheelShape, TicksAhead,
         tick' = [tick EXCEPT ![current] = @ + WheelSize], current' = (current + 1) % WheelSize
  PROVE  /\ tick' \in [WheelSlots -> Nat] /\ current' \in WheelSlots
         /\ tick'[current'] = tick[current] + 1
         /\ TicksAhead'
<1>1. PICK w \in Nat \ {0} : w = WheelSize
  BY WheelFacts
<1>2. PICK c \in 0 .. w - 1 : c = current
  BY <1>1, WheelFacts DEF WheelShape
<1>3. PICK t \in Nat : t = tick[c] /\ t % w = c
  BY <1>1, <1>2, WheelFacts DEF WheelShape, TicksAhead
<1>4. PICK n \in 0 .. w - 1 : n = (c + 1) % w /\ n = current'
  <2>1. c + 1 \in Nat /\ current' = (c + 1) % w
    BY <1>1, <1>2
  <2> QED
    BY <2>1, RemainderFacts
<1>5. /\ tick' \in [WheelSlots -> Nat] /\ tick'[c] = t + w
      /\ \A j \in WheelSlots : j # c => tick'[j] = tick[j]
  <2>1. t + w \in Nat /\ tick' = [tick EXCEPT ![c] = t + w]
    BY <1>1, <1>2, <1>3
  <2>2. tick \in [WheelSlots -> Nat] /\ c \in WheelSlots
    BY <1>2 DEF WheelShape
  <2> QED
    BY <2>1, <2>2
<1>6. (t + 1) % w = n /\ (t + w) % w = c
  BY <1>3, <1>4, RemainderSteps
<1>7. tick'[n] = t + 1
  <2>1. CASE w = 1
    BY <1>2, <1>4, <1>5, <2>1
  <2>2. CASE w # 1
    <3>1. tick[n] = t + 1
      <4>1. t + 1 \in Nat /\ tick[current] <= t + 1 /\ t + 1 < tick[current] + WheelSize
        BY <1>1, <1>2, <1>3, <2>2
      <4>2. tick[(t + 1) % WheelSize] = t + 1
        BY <4>1, SlotOfTime
      <4> QED
        BY <1>1, <1>6, <4>2
    <3>2. n # c
      BY <1>2, <1>3, <3>1
    <3> QED
      BY <1>1, <1>5, <3>1, <3>2, WheelFacts
  <2> QED
    BY <2>1, <2>2
<1>8. ASSUME NEW j \in WheelSlots
      PROVE  tick'[j] % WheelSize = j /\ t + 1 <= tick'[j] /\ tick'[j] < t + 1 + WheelSize
  <2>1. CASE j = c
    BY <1>1, <1>5, <1>6, <2>1
  <2>2. CASE j # c
    <3>1. /\ tick[j] \in Nat /\ tick[j] % WheelSize = j /\ t <= tick[j] /\ tick[j] < t + w
      BY <1>1, <1>2, <1>3 DEF WheelShape, TicksAhead
    <3>2. tick[j] # t
      BY <1>1, <1>3, <2>2, <3>1
    <3> QED
      BY <1>1, <1>3, <1>5, <2>2, <3>1, <3>2
  <2> QED
    BY <2>1, <2>2
<1>9. current' \in WheelSlots /\ tick'[current'] = t + 1
  BY <1>1, <1>4, <1>7, WheelFacts
<1>10. TicksAhead'
  BY <1>8, <1>9 DEF TicksAhead
<1> QED
  BY <1>2, <1>3, <1>5, <1>9, <1>10

-----------------------------------------------------------------------------
(* Registering.                                                            *)

\* The timers that are to come in a slot are of different sessions.
LEMMA RoomLeft ==
  ASSUME RoomForAll, WheelShape, OneTimerEach, NEW j \in WheelSlots, ~(j = current /\ InRound),
         NEW s \in Sessions, \A l \in Nat : ~Pending(j, l, s)
  PROVE  Len(slots[j]) < SlotRoom
<1> DEFINE N == Len(slots[j])
           f == [i \in 1 .. N |-> slots[j][i].session]
<1>1. slots[j] \in Seq(Events) /\ N \in Nat
  BY DEF WheelShape
<1>2. \A i \in 1 .. N : slots[j][i].session \in Sessions /\ Pending(j, i, slots[j][i].session)
  <2> SUFFICES ASSUME NEW i \in 1 .. N
               PROVE  slots[j][i].session \in Sessions /\ Pending(j, i, slots[j][i].session)
    OBVIOUS
  <2>1. slots[j][i] \in Events
    BY <1>1
  <2> QED
    BY <2>1 DEF Events, Pending
<1>3. f \in [1 .. N -> Sessions \ {s}]
  BY <1>2
<1>4. /\ IsFiniteSet(Sessions \ {s}) /\ Cardinality(Sessions \ {s}) = Cardinality(Sessions) - 1
      /\ Cardinality(Sessions) \in Nat
  BY FS_RemoveElement, FS_CardinalityType DEF RoomForAll
<1>5. IsFiniteSet(1 .. N) /\ Cardinality(1 .. N) = N
  BY <1>1, FS_Interval, SMTT(30)
<1>6. ASSUME N >= SlotRoom PROVE FALSE
  <2>1. Cardinality(Sessions \ {s}) < Cardinality(1 .. N)
    BY <1>1, <1>4, <1>5, <1>6, WheelHasSlots DEF RoomForAll
  <2> HIDE DEF N, f
  <2>2. PICK x \in 1 .. N, y \in 1 .. N : x # y /\ f[x] = f[y]
    <3>1. PICK T : T = Sessions \ {s}
      OBVIOUS
    <3>2. PICK D : D = 1 .. N
      OBVIOUS
    <3>3. /\ IsFiniteSet(T) /\ IsFiniteSet(D) /\ Cardinality(T) < Cardinality(D)
          /\ f \in [D -> T]
      BY <1>3, <1>4, <1>5, <2>1, <3>1, <3>2
    <3>4. \E x, y \in D : x # y /\ f[x] = f[y]
      BY <3>3, FS_PigeonHole
    <3> QED
      BY <3>2, <3>4
  <2>3. slots[j][x].session = slots[j][y].session
    BY <2>2 DEF f
  <2>4. x \in Nat /\ y \in Nat
    BY <1>1
  <2> QED
    BY <1>2, <2>2, <2>3, <2>4 DEF OneTimerEach
<1> QED
  BY <1>1, <1>6, WheelHasSlots

\* Session s may register a timer for time d: that lies ahead, and the session has none, or
\* the one that is going off.
MayRegister(s, d) ==
  /\ s \in Sessions /\ d \in Nat
  /\ tick[current] <= d /\ d < tick[current] + WheelSize
  /\ InRound => d # tick[current]
  /\ \A k \in WheelSlots : \A l \in Nat : Pending(k, l, s) => k = current /\ InRound

\* Timer s is registered: it is the one timer that has come.
LEMMA Registered ==
  ASSUME RoomForAll, WheelShape, TicksAhead, OneTimerEach, DueInTheirSlot,
         NEW s, NEW d, MayRegister(s, d), RegisterTimer(s, d)
  PROVE  \E j \in WheelSlots :
           /\ ~(j = current /\ InRound) /\ tick[j] = d
           /\ Len(slots[j]) < SlotRoom
           /\ slots' = [slots EXCEPT ![j] = Append(slots[j], [session |-> s, due |-> d])]
<1> USE DEF MayRegister
<1>1. PICK j \in WheelSlots : j = d % WheelSize
  BY WheelFacts
<1>2. tick[j] = d
  BY <1>1, SlotOfTime
<1>3. ~(j = current /\ InRound)
  BY <1>2
<1>4. Len(slots[j]) < SlotRoom
  BY <1>3, RoomLeft
<1> QED
  BY <1>1, <1>2, <1>3, <1>4 DEF RegisterTimer

\* What the slots hold after an event was put at the end of slot j.
LEMMA AppendedFacts ==
  ASSUME WheelShape, NEW j \in WheelSlots, Len(slots[j]) < SlotRoom, NEW e \in Events,
         slots' = [slots EXCEPT ![j] = Append(slots[j], e)]
  PROVE  /\ slots' \in [WheelSlots -> Seq(Events)]
         /\ \A k \in WheelSlots : Len(slots'[k]) <= SlotRoom
         /\ Len(slots'[j]) = Len(slots[j]) + 1 /\ Len(slots[j]) \in Nat
         /\ slots'[j][Len(slots[j]) + 1] = e
         /\ \A i \in 1 .. Len(slots[j]) : slots'[j][i] = slots[j][i]
         /\ \A k \in WheelSlots : k # j => slots'[k] = slots[k]
<1>1. slots[j] \in Seq(Events) /\ Len(slots[j]) \in Nat
  BY DEF WheelShape
<1>2. PICK q : q = Append(slots[j], e)
  OBVIOUS
<1>3. /\ q \in Seq(Events) /\ Len(q) = Len(slots[j]) + 1 /\ q[Len(slots[j]) + 1] = e
      /\ \A i \in 1 .. Len(slots[j]) : q[i] = slots[j][i]
  BY <1>1, <1>2
<1>4. slots' \in [WheelSlots -> Seq(Events)] /\ slots'[j] = q
      /\ \A k \in WheelSlots : k # j => slots'[k] = slots[k]
  BY <1>2, <1>3 DEF WheelShape
<1>5. Len(q) <= SlotRoom
  BY <1>1, <1>3, WheelHasSlots
<1> QED
  BY <1>1, <1>3, <1>4, <1>5 DEF WheelShape

\* The steps that touch no slot, no round and no time but the clock's.
LEMMA SameSlots ==
  ASSUME UNCHANGED <<tick, slots, current, round>>
  PROVE  /\ \A j, i, s : Pending(j, i, s)' <=> Pending(j, i, s)
         /\ OneTimerEach => OneTimerEach'
         /\ DueInTheirSlot => DueInTheirSlot'
         /\ TicksAhead => TicksAhead'
<1>1. \A j, i, s : Pending(j, i, s)' <=> Pending(j, i, s)
  BY DEF Pending, InRound
<1> QED
  BY <1>1 DEF OneTimerEach, DueInTheirSlot, TicksAhead

\* Event i of slot j is session s's.
Holds(j, i, s) == j \in WheelSlots /\ i \in 1 .. Len(slots[j]) /\ slots[j][i].session = s

\* What is pending is what a slot holds, without the part of a round that was run.
LEMMA PendingHolds ==
  \A j, i, s : Pending(j, i, s) <=> Holds(j, i, s) /\ ~(j = current /\ InRound /\ i < round.i)
BY DEF Pending, Holds

\* What the slots hold when session s's event came to slot j.
LEMMA HoldsAppended ==
  ASSUME WheelShape, NEW j \in WheelSlots, Len(slots[j]) < SlotRoom, NEW e \in Events,
         slots' = [slots EXCEPT ![j] = Append(slots[j], e)]
  PROVE  \A k, l, s : Holds(k, l, s)' <=>
           Holds(k, l, s) \/ (k = j /\ l = Len(slots[j]) + 1 /\ s = e.session)
<1>0. PICK n : n = Len(slots[j])
  OBVIOUS
<1>1. /\ Len(slots'[j]) = n + 1 /\ n \in Nat /\ slots'[j][n + 1] = e
      /\ \A i \in 1 .. n : slots'[j][i] = slots[j][i]
      /\ \A k \in WheelSlots : k # j => slots'[k] = slots[k]
  BY <1>0, AppendedFacts
<1>2. n + 1 \in 1 .. n + 1
  BY <1>1
<1>3. Holds(j, n + 1, e.session)'
  BY <1>1, <1>2 DEF Holds
<1>4. ASSUME NEW k, NEW l, NEW s, Holds(k, l, s)'
      PROVE  Holds(k, l, s) \/ (k = j /\ l = n + 1 /\ s = e.session)
  <2>1. k \in WheelSlots /\ l \in 1 .. Len(slots'[k]) /\ slots'[k][l].session = s
    BY <1>4 DEF Holds
  <2>2. CASE k = j /\ l = n + 1
    BY <1>1, <2>1, <2>2
  <2>3. CASE k = j /\ l # n + 1
    <3>1. l \in 1 .. n
      BY <1>1, <2>1, <2>3
    <3> QED
      BY <1>0, <1>1, <2>1, <2>3, <3>1 DEF Holds
  <2>4. CASE k # j
    BY <1>1, <2>1, <2>4 DEF Holds
  <2> QED
    BY <2>2, <2>3, <2>4
<1>5. ASSUME NEW k, NEW l, NEW s, Holds(k, l, s) PROVE Holds(k, l, s)'
  <2>1. k \in WheelSlots /\ l \in 1 .. Len(slots[k]) /\ slots[k][l].session = s
    BY <1>5 DEF Holds
  <2>2. CASE k = j
    <3>1. l \in 1 .. n /\ l \in 1 .. n + 1
      BY <1>0, <1>1, <2>1, <2>2
    <3> QED
      BY <1>1, <2>1, <2>2, <3>1 DEF Holds
  <2>3. CASE k # j
    BY <1>1, <2>1, <2>3 DEF Holds
  <2> QED
    BY <2>2, <2>3
<1> QED
  BY <1>0, <1>3, <1>4, <1>5

\* What is to come then, if slot j is not the one being run.
LEMMA PendingAppended ==
  ASSUME WheelShape, NEW j \in WheelSlots, Len(slots[j]) < SlotRoom, NEW e \in Events,
         ~(j = current /\ InRound),
         slots' = [slots EXCEPT ![j] = Append(slots[j], e)], UNCHANGED <<current, round>>
  PROVE  \A k, l, s : Pending(k, l, s)' <=>
           Pending(k, l, s) \/ (k = j /\ l = Len(slots[j]) + 1 /\ s = e.session)
<1>1. \A k, l, s : Holds(k, l, s)' <=>
        Holds(k, l, s) \/ (k = j /\ l = Len(slots[j]) + 1 /\ s = e.session)
  BY HoldsAppended
<1>2. \A k, l, s : Pending(k, l, s)' <=>
        Holds(k, l, s)' /\ ~(k = current /\ InRound /\ l < round.i)
  BY DEF Pending, Holds, InRound
<1> QED
  BY <1>1, <1>2, PendingHolds

\* Nothing but the slot of the new event changes, and that for the time it stands for.
LEMMA DueAppended ==
  ASSUME WheelShape, DueInTheirSlot, NEW j \in WheelSlots, Len(slots[j]) < SlotRoom,
         NEW e \in Events, e.due = tick[j],
         slots' = [slots EXCEPT ![j] = Append(slots[j], e)], UNCHANGED tick
  PROVE  DueInTheirSlot'
<1>1. /\ Len(slots'[j]) = Len(slots[j]) + 1 /\ Len(slots[j]) \in Nat
      /\ slots'[j][Len(slots[j]) + 1] = e
      /\ \A i \in 1 .. Len(slots[j]) : slots'[j][i] = slots[j][i]
      /\ \A k \in WheelSlots : k # j => slots'[k] = slots[k]
  BY AppendedFacts
<1> SUFFICES ASSUME NEW k \in WheelSlots, NEW i \in 1 .. Len(slots'[k])
             PROVE  slots'[k][i].due = tick[k]
  BY DEF DueInTheirSlot
<1>2. CASE k = j /\ i = Len(slots[j]) + 1
  BY <1>1, <1>2
<1>3. CASE k = j /\ i # Len(slots[j]) + 1
  <2>1. i \in 1 .. Len(slots[j])
    BY <1>1, <1>3
  <2> QED
    BY <1>1, <1>3, <2>1 DEF DueInTheirSlot
<1>4. CASE k # j
  BY <1>1, <1>4 DEF DueInTheirSlot
<1> QED
  BY <1>2, <1>3, <1>4

\* Data handed over: the session asks for a timer unless it has one.
LEMMA SendKeeps ==
  ASSUME LagLeavesRoom, RoomForAll, Inv, NEW s \in Sessions, Send(s)
  PROVE  Inv'
<1>1. /\ s \in open /\ unsent' = unsent \cup {s}
      /\ UNCHANGED <<clock, timeNow, tick, current, round, open>>
  BY DEF Send
<1>2. CASE s \in armed
  <2>1. UNCHANGED <<slots, armed>>
    BY <1>2 DEF Send
  <2>2. WheelShape' /\ ClocksAgree'
    BY <1>1, <1>2, <2>1 DEF Inv, WheelShape, ClocksAgree, InRound
  <2>3. ArmedHaveTimers'
    BY <1>1, <2>1, SameSlots DEF Inv, ArmedHaveTimers
  <2> QED
    BY <1>1, <2>1, <2>2, <2>3, SameSlots DEF Inv
<1>3. CASE s \notin armed
  <2>1. PICK t \in SynTimes : armed' = armed \cup {s} /\ RegisterTimer(s, clock + t)
    BY <1>3 DEF Send
  <2>0. \A k \in WheelSlots : \A l \in Nat : ~Pending(k, l, s)
    BY <1>1, <1>3 DEF Inv, ArmedHaveTimers
  <2>2. MayRegister(s, clock + t)
    <3>1. t \in Nat /\ t > 0 /\ t + MaxLag < WheelSize /\ MaxLag \in Nat /\ WheelSize \in Nat
      BY WheelFacts DEF LagLeavesRoom
    <3>2. /\ clock \in Nat /\ timeNow \in Nat /\ tick[current] \in Nat
          /\ clock <= tick[current] + MaxLag /\ timeNow <= clock /\ tick[current] <= timeNow + 1
          /\ InRound => tick[current] <= timeNow
      BY DEF Inv, WheelShape, ClocksAgree, InRound, NoRound
    <3> QED
      BY <2>0, <3>1, <3>2 DEF MayRegister
  <2> DEFINE e == [session |-> s, due |-> clock + t]
  <2>3. PICK j \in WheelSlots :
           /\ ~(j = current /\ InRound) /\ tick[j] = clock + t
           /\ Len(slots[j]) < SlotRoom
           /\ slots' = [slots EXCEPT ![j] = Append(slots[j], e)]
    BY <2>1, <2>2, Registered DEF Inv
  <2>4. e \in Events /\ e.session = s /\ e.due = tick[j]
    BY <2>2, <2>3 DEF MayRegister, Events
  <2> HIDE DEF e
  <2>5. /\ slots' \in [WheelSlots -> Seq(Events)]
        /\ \A k \in WheelSlots : Len(slots'[k]) <= SlotRoom
        /\ \A k \in WheelSlots : k # j => slots'[k] = slots[k]
        /\ Len(slots[j]) \in Nat
    BY <2>3, <2>4, AppendedFacts DEF Inv
  <2>6. \A k, l, z : Pending(k, l, z)' <=>
          Pending(k, l, z) \/ (k = j /\ l = Len(slots[j]) + 1 /\ z = s)
    BY <1>1, <2>3, <2>4, PendingAppended DEF Inv
  <2>7. WheelShape'
    BY <1>1, <2>1, <2>5 DEF Inv, WheelShape
  <2>8. ClocksAgree'
    BY <1>1, <2>3, <2>5 DEF Inv, ClocksAgree, WheelShape, InRound, NoRound
  <2>9. TicksAhead' /\ DueInTheirSlot'
    BY <1>1, <2>3, <2>4, DueAppended DEF Inv, TicksAhead
  <2>10. OneTimerEach'
    BY <2>0, <2>6 DEF Inv, OneTimerEach
  <2>11. ArmedHaveTimers'
    BY <1>1, <2>1, <2>5, <2>6 DEF Inv, ArmedHaveTimers
  <2> QED
    BY <2>7, <2>8, <2>9, <2>10, <2>11 DEF Inv
<1> QED
  BY <1>2, <1>3

\* The other end has acknowledged, or the session leaves NORMAL: the slots stay as they are.
LEMMA ForgetKeeps ==
  ASSUME Inv, NEW s \in Sessions, Acknowledged(s) \/ Leave(s)
  PROVE  Inv'
<1>1. UNCHANGED <<clock, timeNow, tick, slots, current, round>>
  BY DEF Acknowledged, Leave
<1>2. /\ open' \subseteq open /\ unsent' \subseteq armed' /\ armed' \subseteq open'
      /\ \A z \in open' : z \in armed' <=> z \in armed
  BY DEF Inv, WheelShape, Acknowledged, Leave
<1>3. WheelShape' /\ ClocksAgree'
  BY <1>1, <1>2 DEF Inv, WheelShape, ClocksAgree, InRound
<1>4. ArmedHaveTimers'
  BY <1>1, <1>2, SameSlots DEF Inv, ArmedHaveTimers
<1> QED
  BY <1>1, <1>3, <1>4, SameSlots DEF Inv

\* The loop starts with a slot: all its events are to come still.
LEMMA BeginKeeps ==
  ASSUME Inv, BeginSlot
  PROVE  Inv'
<1>1. /\ ~InRound /\ tick[current] <= timeNow /\ slots[current] # <<>>
      /\ round' = [i |-> 1, count |-> Len(slots[current])]
      /\ UNCHANGED <<clock, timeNow, tick, slots, current, open, unsent, armed>>
  BY DEF BeginSlot
<1>2. slots[current] \in Seq(Events) /\ Len(slots[current]) \in Nat /\ Len(slots[current]) > 0
  BY <1>1 DEF Inv, WheelShape
<1>3. /\ round'.i = 1 /\ round'.count = Len(slots[current]) /\ round' \in [i : Nat, count : Nat]
      /\ InRound'
  BY <1>1, <1>2 DEF InRound
<1>4. \A j, i, s : Pending(j, i, s)' <=> Pending(j, i, s)
  <2>1. \A j, i, s : Pending(j, i, s) <=> Holds(j, i, s)
    BY <1>1, PendingHolds
  <2>2. \A j, i, s : Pending(j, i, s)' <=> Holds(j, i, s) /\ ~(j = current /\ i < 1)
    BY <1>1, <1>3 DEF Pending, Holds
  <2>3. \A j, i, s : Holds(j, i, s) => ~(i < 1)
    BY DEF Holds, Inv, WheelShape
  <2> QED
    BY <2>1, <2>2, <2>3
<1>5. WheelShape' /\ ClocksAgree'
  BY <1>1, <1>2, <1>3 DEF Inv, WheelShape, ClocksAgree
<1>6. TicksAhead' /\ DueInTheirSlot'
  BY <1>1 DEF Inv, TicksAhead, DueInTheirSlot
<1>7. OneTimerEach' /\ ArmedHaveTimers'
  BY <1>1, <1>4 DEF Inv, OneTimerEach, ArmedHaveTimers
<1> QED
  BY <1>5, <1>6, <1>7 DEF Inv

\* The loop is through with a slot, of which nothing is to come.
LEMMA GoNextKeeps ==
  ASSUME Inv, GoNext
  PROVE  Inv'
<1>1. /\ tick[current] <= timeNow
      /\ tick' = [tick EXCEPT ![current] = @ + WheelSize]
      /\ slots' = [slots EXCEPT ![current] = <<>>]
      /\ current' = (current + 1) % WheelSize
      /\ round' = NoRound
      /\ UNCHANGED <<clock, timeNow, open, unsent, armed>>
  BY DEF GoNext
<1>2. \A i, s : ~Pending(current, i, s)
  <2> SUFFICES ASSUME NEW i, NEW s, Pending(current, i, s) PROVE FALSE
    OBVIOUS
  <2>1. /\ current \in WheelSlots /\ i \in 1 .. Len(slots[current])
        /\ slots[current] \in Seq(Events)
        /\ ~(InRound /\ i < round.i)
    BY DEF Pending, Inv, WheelShape
  <2>2. CASE InRound
    <3>1. round.i > round.count /\ round.count = Len(slots[current]) /\ round.i \in Nat
      BY <2>2 DEF GoNext, Inv, ClocksAgree, NoRound, InRound, WheelShape
    <3> QED
      BY <2>1, <2>2, <3>1
  <2>3. CASE ~InRound
    BY <2>1, <2>3 DEF GoNext
  <2> QED
    BY <2>2, <2>3
<1>3. /\ slots' \in [WheelSlots -> Seq(Events)] /\ slots'[current] = <<>>
      /\ \A j \in WheelSlots : j # current => slots'[j] = slots[j]
      /\ current \in WheelSlots
  BY <1>1 DEF Inv, WheelShape
<1>4. /\ tick' \in [WheelSlots -> Nat] /\ current' \in WheelSlots
      /\ tick'[current'] = tick[current] + 1
      /\ TicksAhead'
  BY <1>1, TicksGoOn DEF Inv
<1>5. \A j \in WheelSlots : j # current => tick'[j] = tick[j]
  BY <1>1 DEF Inv, WheelShape
<1>6. ~InRound'
  BY <1>1 DEF InRound, NoRound
<1>7. \A j, i, s : Pending(j, i, s)' <=> Pending(j, i, s)
  <2> SUFFICES ASSUME NEW j, NEW i, NEW s PROVE Pending(j, i, s)' <=> Pending(j, i, s)
    OBVIOUS
  <2>1. CASE j = current
    <3>1. ~(i \in 1 .. Len(slots'[j]))
      BY <1>3, <2>1
    <3> QED
      BY <1>2, <2>1, <3>1 DEF Pending
  <2>2. CASE j # current
    BY <1>3, <1>6, <2>2 DEF Pending
  <2> QED
    BY <2>1, <2>2
<1>8. WheelShape'
  <2>1. \A j \in WheelSlots : Len(slots'[j]) <= SlotRoom
    <3> SUFFICES ASSUME NEW j \in WheelSlots PROVE Len(slots'[j]) <= SlotRoom
      OBVIOUS
    <3>1. CASE j = current
      <4>1. Len(slots'[j]) = 0
        BY <1>3, <3>1
      <4> QED
        BY <4>1, WheelHasSlots
    <3>2. CASE j # current
      BY <1>3, <3>2 DEF Inv, WheelShape
    <3> QED
      BY <3>1, <3>2
  <2>2. round' \in [i : Nat, count : Nat]
    BY <1>1 DEF NoRound
  <2> QED
    BY <1>1, <1>3, <1>4, <2>1, <2>2 DEF Inv, WheelShape
<1>9. ClocksAgree'
  <2>1. tick[current] \in Nat /\ clock \in Nat /\ timeNow \in Nat /\ MaxLag \in Nat
    BY WheelFacts DEF Inv, WheelShape
  <2>2. /\ timeNow <= clock /\ clock <= tick[current] + 1 + MaxLag
        /\ tick[current] + 1 <= timeNow + 1
    BY <1>1, <2>1 DEF Inv, ClocksAgree
  <2> QED
    BY <1>1, <1>4, <2>2 DEF ClocksAgree
<1>10. DueInTheirSlot'
  <2> SUFFICES ASSUME NEW j \in WheelSlots, NEW i \in 1 .. Len(slots'[j])
               PROVE  slots'[j][i].due = tick'[j]
    BY DEF DueInTheirSlot
  <2>1. j # current
    BY <1>3
  <2> QED
    BY <1>3, <1>5, <2>1 DEF Inv, DueInTheirSlot
<1>11. OneTimerEach' /\ ArmedHaveTimers'
  BY <1>1, <1>7 DEF Inv, OneTimerEach, ArmedHaveTimers
<1> QED
  BY <1>4, <1>8, <1>9, <1>10, <1>11 DEF Inv

\* The loop reads the clock, or time goes by.
LEMMA TimeKeeps ==
  ASSUME Inv, ReadClock \/ ClockTick
  PROVE  Inv'
<1>1. UNCHANGED <<tick, slots, current, round, open, unsent, armed>>
  BY DEF ReadClock, ClockTick
<1>2. clock \in Nat /\ timeNow \in Nat /\ tick[current] \in Nat /\ MaxLag \in Nat
  BY WheelFacts DEF Inv, WheelShape
<1>3. clock' \in Nat /\ timeNow' \in Nat /\ timeNow <= timeNow' /\ timeNow' <= clock'
      /\ clock' <= tick[current] + MaxLag
  BY <1>2 DEF ReadClock, ClockTick, Inv, ClocksAgree
<1>4. WheelShape'
  BY <1>1, <1>3 DEF Inv, WheelShape
<1>5. ClocksAgree'
  BY <1>1, <1>2, <1>3 DEF Inv, ClocksAgree, InRound
<1>6. ArmedHaveTimers'
  BY <1>1, SameSlots DEF Inv, ArmedHaveTimers
<1> QED
  BY <1>1, <1>4, <1>5, <1>6, SameSlots DEF Inv

\* One event of the slot goes off: its session's timer is registered again, or it has none.
LEMMA ProcTimerEventKeeps ==
  ASSUME LagLeavesRoom, RoomForAll, Inv, ProcTimerEvent
  PROVE  Inv'
<1>1. /\ InRound /\ round.i <= round.count
      /\ round' = [round EXCEPT !.i = @ + 1]
      /\ UNCHANGED <<clock, timeNow, tick, current, open, unsent>>
  BY DEF ProcTimerEvent
<1>2. /\ round.i \in Nat /\ round.count \in Nat /\ round.i >= 1
      /\ round.count = Len(slots[current]) /\ tick[current] <= timeNow
      /\ current \in WheelSlots
  BY <1>1 DEF Inv, WheelShape, ClocksAgree, InRound, NoRound
<1>3. /\ round' \in [i : Nat, count : Nat] /\ round'.i = round.i + 1
      /\ round'.count = round.count /\ InRound'
  BY <1>1, <1>2 DEF Inv, WheelShape, InRound
<1>4. PICK s : s = slots[current][round.i].session
  OBVIOUS
<1>5. s \in Sessions /\ Pending(current, round.i, s)
  <2>1. slots[current] \in Seq(Events) /\ round.i \in 1 .. Len(slots[current])
    BY <1>1, <1>2 DEF Inv, WheelShape
  <2>2. slots[current][round.i] \in Events
    BY <2>1
  <2> QED
    BY <1>2, <1>4, <2>1, <2>2 DEF Events, Pending
<1>6. \A k \in WheelSlots : \A l \in Nat : Pending(k, l, s) => k = current /\ l = round.i
  BY <1>2, <1>5 DEF Inv, OneTimerEach
<1>7. \A k, l, z : Pending(k, l, z) => k \in WheelSlots /\ l \in Nat
  BY DEF Pending, Inv, WheelShape
<1>8. \A k, l, z : Pending(k, l, z)' <=> Holds(k, l, z)' /\ ~(k = current /\ l < round.i + 1)
  BY <1>1, <1>3 DEF Pending, Holds
<1>9. \A k, l, z : Pending(k, l, z) <=> Holds(k, l, z) /\ ~(k = current /\ l < round.i)
  BY <1>1, PendingHolds
<1>10. \A k, l, z : Holds(k, l, z) => l \in Nat
  BY DEF Holds, Inv, WheelShape
<1>11. \A l \in Nat : l < round.i + 1 <=> (l < round.i \/ l = round.i)
  BY <1>2
<1>12. CASE s \in unsent
  <2>1. PICK t \in SynTimes : armed' = armed \cup {s} /\ RegisterTimer(s, timeNow + t)
    BY <1>4, <1>12 DEF ProcTimerEvent
  <2>2. MayRegister(s, timeNow + t)
    <3>1. t \in Nat /\ t > 0 /\ t + MaxLag < WheelSize /\ MaxLag \in Nat /\ WheelSize \in Nat
      BY WheelFacts DEF LagLeavesRoom
    <3>2. /\ clock \in Nat /\ timeNow \in Nat /\ tick[current] \in Nat
          /\ clock <= tick[current] + MaxLag /\ timeNow <= clock
      BY DEF Inv, WheelShape, ClocksAgree
    <3> QED
      BY <1>1, <1>2, <1>5, <1>6, <3>1, <3>2, SMTT(30) DEF MayRegister
  <2>3. PICK d : d = timeNow + t
    OBVIOUS
  <2>4. PICK e : e = [session |-> s, due |-> d]
    OBVIOUS
  <2>5. PICK j \in WheelSlots :
           /\ ~(j = current /\ InRound) /\ tick[j] = d
           /\ Len(slots[j]) < SlotRoom
           /\ slots' = [slots EXCEPT ![j] = Append(slots[j], e)]
    BY <2>1, <2>2, <2>3, <2>4, Registered DEF Inv
  <2>6. e \in Events /\ e.session = s /\ e.due = tick[j] /\ j # current
    BY <1>1, <2>2, <2>3, <2>4, <2>5 DEF MayRegister, Events
  <2>7. PICK n : n = Len(slots[j])
    OBVIOUS
  <2>8. /\ slots' \in [WheelSlots -> Seq(Events)]
        /\ \A k \in WheelSlots : Len(slots'[k]) <= SlotRoom
        /\ \A k \in WheelSlots : k # j => slots'[k] = slots[k]
        /\ n \in Nat
    BY <2>5, <2>6, <2>7, AppendedFacts DEF Inv
  <2>9. \A k, l, z : Holds(k, l, z)' <=> Holds(k, l, z) \/ (k = j /\ l = n + 1 /\ z = s)
    BY <2>5, <2>6, <2>7, HoldsAppended DEF Inv
  <2>10. \A k, l, z : Pending(k, l, z)' <=>
           (Pending(k, l, z) /\ ~(k = current /\ l = round.i)) \/ (k = j /\ l = n + 1 /\ z = s)
    BY <1>8, <1>9, <1>10, <1>11, <2>6, <2>9
  <2>11. WheelShape'
    BY <1>1, <1>3, <1>12, <2>1, <2>8 DEF Inv, WheelShape
  <2>12. ClocksAgree'
    <3>1. Len(slots'[current]) = Len(slots[current])
      BY <1>2, <2>6, <2>8
    <3> QED
      BY <1>1, <1>2, <1>3, <3>1 DEF Inv, ClocksAgree
  <2>13. TicksAhead' /\ DueInTheirSlot'
    BY <1>1, <2>5, <2>6, DueAppended DEF Inv, TicksAhead
  <2>14. OneTimerEach'
    BY <1>6, <2>10 DEF Inv, OneTimerEach
  <2>15. ArmedHaveTimers'
    <3> SUFFICES ASSUME NEW z \in open
                 PROVE  z \in armed' <=> \E k \in WheelSlots : \E l \in Nat : Pending(k, l, z)'
      BY <1>1 DEF ArmedHaveTimers
    <3>1. CASE z = s
      <4>1. Pending(j, n + 1, s)' /\ n + 1 \in Nat
        BY <2>8, <2>10
      <4> QED
        BY <2>1, <3>1, <4>1
    <3>2. CASE z # s
      <4>1. ~Pending(current, round.i, z)
        BY <1>4, <3>2 DEF Pending
      <4>2. \A k, l : Pending(k, l, z)' <=> Pending(k, l, z)
        BY <2>10, <3>2, <4>1
      <4> QED
        BY <2>1, <3>2, <4>2 DEF Inv, ArmedHaveTimers
    <3> QED
      BY <3>1, <3>2
  <2> QED
    BY <2>11, <2>12, <2>13, <2>14, <2>15 DEF Inv
<1>13. CASE s \notin unsent
  <2>1. armed' = armed \ {s} /\ slots' = slots
    BY <1>4, <1>13 DEF ProcTimerEvent
  <2>2. \A k, l, z : Holds(k, l, z)' <=> Holds(k, l, z)
    BY <2>1 DEF Holds
  <2>3. \A k, l, z : Pending(k, l, z)' <=> Pending(k, l, z) /\ ~(k = current /\ l = round.i)
    BY <1>8, <1>9, <1>10, <1>11, <2>2
  <2>4. WheelShape'
    BY <1>1, <1>3, <1>13, <2>1 DEF Inv, WheelShape
  <2>5. ClocksAgree'
    BY <1>1, <1>2, <1>3, <2>1 DEF Inv, ClocksAgree
  <2>6. TicksAhead' /\ DueInTheirSlot'
    BY <1>1, <2>1 DEF Inv, TicksAhead, DueInTheirSlot
  <2>7. OneTimerEach'
    BY <2>3 DEF Inv, OneTimerEach
  <2>8. ArmedHaveTimers'
    <3> SUFFICES ASSUME NEW z \in open
                 PROVE  z \in armed' <=> \E k \in WheelSlots : \E l \in Nat : Pending(k, l, z)'
      BY <1>1 DEF ArmedHaveTimers
    <3>1. CASE z = s
      BY <1>6, <2>1, <2>3, <3>1
    <3>2. CASE z # s
      <4>1. ~Pending(current, round.i, z)
        BY <1>4, <3>2 DEF Pending
      <4>2. \A k, l : Pending(k, l, z)' <=> Pending(k, l, z)
        BY <2>3, <4>1
      <4> QED
        BY <2>1, <3>2, <4>2 DEF Inv, ArmedHaveTimers
    <3> QED
      BY <3>1, <3>2
  <2> QED
    BY <2>4, <2>5, <2>6, <2>7, <2>8 DEF Inv
<1> QED
  BY <1>12, <1>13

-----------------------------------------------------------------------------
(* The theorems.                                                           *)

\* What remains of a sequence from a place on.
LEMMA RestOfSeq ==
  ASSUME NEW S, NEW q \in Seq(S), NEW i \in Nat, i >= 1, i <= Len(q) + 1
  PROVE  /\ Len(SubSeq(q, i, Len(q))) = Len(q) - (i - 1)
         /\ \A m \in 1 .. Len(q) - (i - 1) : SubSeq(q, i, Len(q))[m] = q[m + (i - 1)]
<1>1. PICK n : n = Len(q)
  OBVIOUS
<1>2. n \in Nat /\ i \in Int /\ n \in Int /\ \A m \in i .. n : q[m] \in S
  BY <1>1
<1>3. /\ Len(SubSeq(q, i, n)) = IF i <= n THEN n - i + 1 ELSE 0
      /\ \A m \in 1 .. n - i + 1 : SubSeq(q, i, n)[m] = q[i + m - 1]
  BY <1>2, SubSeqProperties
<1>4. n - i + 1 = n - (i - 1) /\ (IF i <= n THEN n - i + 1 ELSE 0) = n - (i - 1)
  BY <1>1, <1>2
<1>5. \A m \in 1 .. n - (i - 1) : i + m - 1 = m + (i - 1)
  BY <1>2
<1> QED
  BY <1>1, <1>3, <1>4, <1>5

\* What is left of a slot that is being run begins behind what went off.
Off(j) == IF j = current /\ InRound THEN round.i - 1 ELSE 0

\* What is to come of a slot, place by place.
LEMMA ToComeFacts ==
  ASSUME Inv, NEW j \in WheelSlots
  PROVE  /\ Off(j) \in Nat /\ Len(ToCome(j)) = Len(slots[j]) - Off(j) /\ Len(ToCome(j)) \in Nat
         /\ Len(slots[j]) \in Nat
         /\ \A m \in 1 .. Len(ToCome(j)) : ToCome(j)[m] = slots[j][m + Off(j)]
<1>1. slots[j] \in Seq(Events) /\ Len(slots[j]) \in Nat
  BY DEF Inv, WheelShape
<1>2. CASE j = current /\ InRound
  <2>1. PICK i : i = round.i
    OBVIOUS
  <2>2. i \in Nat /\ i >= 1 /\ i <= Len(slots[j]) + 1
    BY <1>1, <1>2, <2>1 DEF Inv, ClocksAgree, InRound, NoRound, WheelShape
  <2>3. ToCome(j) = SubSeq(slots[j], i, Len(slots[j])) /\ Off(j) = i - 1
    BY <1>2, <2>1 DEF ToCome, Off
  <2>4. PICK n : n = Len(slots[j])
    OBVIOUS
  <2>5. /\ Len(SubSeq(slots[j], i, n)) = n - (i - 1)
        /\ \A m \in 1 .. n - (i - 1) : SubSeq(slots[j], i, n)[m] = slots[j][m + (i - 1)]
    BY <1>1, <2>2, <2>4, RestOfSeq
  <2>6. n - (i - 1) \in Nat /\ i - 1 \in Nat
    BY <1>1, <2>2, <2>4
  <2> QED
    BY <1>1, <2>3, <2>4, <2>5, <2>6
<1>3. CASE ~(j = current /\ InRound)
  <2>1. ToCome(j) = slots[j] /\ Off(j) = 0
    BY <1>3 DEF ToCome, Off
  <2>2. \A m \in 1 .. Len(slots[j]) : m + 0 = m
    BY <1>1
  <2> QED
    BY <1>1, <2>1, <2>2
<1> QED
  BY <1>2, <1>3

\* The timers that the property counts are the pending ones.
LEMMA TimersArePending ==
  ASSUME Inv, NEW s
  PROVE  /\ \A je \in Timers(s) : /\ je[1] \in WheelSlots /\ je[2] \in Nat
                                  /\ je = <<je[1], je[2]>>
                                  /\ Pending(je[1], je[2] + Off(je[1]), s)
         /\ \A j \in WheelSlots : \A i \in Nat : Pending(j, i, s) => <<j, i - Off(j)>> \in Timers(s)
<1>1. ASSUME NEW je \in Timers(s)
      PROVE  /\ je[1] \in WheelSlots /\ je[2] \in Nat /\ je = <<je[1], je[2]>>
             /\ Pending(je[1], je[2] + Off(je[1]), s)
  <2>1. PICK j \in WheelSlots, m \in 1 .. SlotRoom :
          je = <<j, m>> /\ m <= Len(ToCome(j)) /\ ToCome(j)[m].session = s
    BY <1>1 DEF Timers
  <2>2. m \in Nat /\ m \in 1 .. Len(ToCome(j))
    BY <2>1, WheelHasSlots, ToComeFacts
  <2>3. slots[j][m + Off(j)].session = s /\ m + Off(j) \in 1 .. Len(slots[j])
    BY <2>1, <2>2, ToComeFacts, SMTT(30)
  <2>4. ~(j = current /\ InRound /\ m + Off(j) < round.i)
    <3>1. CASE j = current /\ InRound
      <4>1. Off(j) = round.i - 1 /\ round.i \in Nat
        BY <3>1 DEF Off, Inv, WheelShape
      <4> QED
        BY <2>2, <4>1
    <3> QED
      BY <3>1
  <2>5. Pending(j, m + Off(j), s)
    BY <2>3, <2>4 DEF Pending
  <2> QED
    BY <2>1, <2>2, <2>5
<1>2. ASSUME NEW j \in WheelSlots, NEW i \in Nat, Pending(j, i, s)
      PROVE  <<j, i - Off(j)>> \in Timers(s)
  <2>1. PICK m : m = i - Off(j)
    OBVIOUS
  <2>2. /\ i \in 1 .. Len(slots[j]) /\ slots[j][i].session = s
        /\ ~(j = current /\ InRound /\ i < round.i)
    BY <1>2 DEF Pending
  <2>3. Off(j) < i
    <3>1. CASE j = current /\ InRound
      <4>1. Off(j) = round.i - 1 /\ round.i \in Nat
        BY <3>1 DEF Off, Inv, WheelShape
      <4> QED
        BY <2>2, <3>1, <4>1
    <3>2. CASE ~(j = current /\ InRound)
      BY <2>2, <3>2 DEF Off
    <3> QED
      BY <3>1, <3>2
  <2>4. m \in 1 .. Len(ToCome(j)) /\ m + Off(j) = i
    BY <2>1, <2>2, <2>3, ToComeFacts
  <2>5. ToCome(j)[m].session = s
    BY <2>2, <2>4, ToComeFacts
  <2>6. m \in 1 .. SlotRoom
    <3>1. Len(ToCome(j)) <= Len(slots[j]) /\ Len(slots[j]) <= SlotRoom
      BY ToComeFacts DEF Inv, WheelShape
    <3> QED
      BY <2>4, <3>1, ToComeFacts, WheelHasSlots
  <2>7. <<j, m>> \in WheelSlots \X (1 .. SlotRoom) /\ m <= Len(ToCome(j))
    BY <2>4, <2>6, ToComeFacts
  <2> QED
    BY <2>1, <2>5, <2>7 DEF Timers
<1> QED
  BY <1>1, <1>2

\* The invariant says what the two properties say.
LEMMA InvGivesTimers ==
  ASSUME Inv
  PROVE  ArmedHasOneTimer /\ UnsentHasTimer
<1>1. ASSUME NEW s \in armed PROVE s \in open /\ Timers(s) # {} /\ Cardinality(Timers(s)) = 1
  <2>1. s \in open /\ s \in Sessions
    BY DEF Inv, WheelShape
  <2>2. PICK j \in WheelSlots, i \in Nat : Pending(j, i, s)
    BY <2>1 DEF Inv, ArmedHaveTimers
  <2>3. PICK x : x = <<j, i - Off(j)>>
    OBVIOUS
  <2>4. x \in Timers(s)
    BY <2>2, <2>3, TimersArePending
  <2>5. ASSUME NEW y \in Timers(s) PROVE y = x
    <3>1. /\ y[1] \in WheelSlots /\ y[2] \in Nat /\ y = <<y[1], y[2]>>
          /\ Pending(y[1], y[2] + Off(y[1]), s) /\ y[2] + Off(y[1]) \in Nat
      BY TimersArePending, ToComeFacts
    <3>2. y[1] = j /\ y[2] + Off(j) = i
      BY <2>1, <2>2, <3>1 DEF Inv, OneTimerEach
    <3>3. y[2] = i - Off(j)
      BY <3>1, <3>2, ToComeFacts
    <3> QED
      BY <2>3, <3>1, <3>2, <3>3
  <2>6. Timers(s) = {x}
    BY <2>4, <2>5
  <2> QED
    BY <2>1, <2>6, FS_Singleton
<1>2. ASSUME NEW s \in open, s \notin armed PROVE Cardinality(Timers(s)) = 0
  <2>1. \A k \in WheelSlots : \A l \in Nat : ~Pending(k, l, s)
    BY <1>2 DEF Inv, ArmedHaveTimers
  <2>2. ASSUME NEW y \in Timers(s) PROVE FALSE
    <3>1. y[1] \in WheelSlots /\ y[2] \in Nat /\ Pending(y[1], y[2] + Off(y[1]), s)
      BY TimersArePending
    <3>2. y[2] + Off(y[1]) \in Nat
      BY <3>1, ToComeFacts
    <3> QED
      BY <2>1, <3>1, <3>2
  <2>3. Timers(s) = {}
    BY <2>2
  <2> QED
    BY <2>3, FS_EmptySet
<1>3. \A s \in open : Cardinality(Timers(s)) = IF s \in armed THEN 1 ELSE 0
  BY <1>1, <1>2
<1>4. ASSUME NEW j \in WheelSlots, NEW i \in 1 .. Len(ToCome(j)) PROVE ToCome(j)[i].due = tick[j]
  <2>1. ToCome(j)[i] = slots[j][i + Off(j)] /\ i + Off(j) \in 1 .. Len(slots[j])
    BY ToComeFacts
  <2> QED
    BY <2>1 DEF Inv, DueInTheirSlot
<1>5. ArmedHasOneTimer
  BY <1>3, <1>4 DEF ArmedHasOneTimer
<1>6. UnsentHasTimer
  BY <1>1 DEF UnsentHasTimer, Inv, WheelShape
<1> QED
  BY <1>5, <1>6

\* An empty wheel.
LEMMA InitHolds == WheelInit => Inv
<1> SUFFICES ASSUME WheelInit PROVE Inv
  OBVIOUS
<1> USE DEF WheelInit
<1>1. \A j, i, s : ~Pending(j, i, s)
  BY DEF Pending
<1>2. 0 \in WheelSlots /\ \A j \in WheelSlots : j \in Nat /\ j < WheelSize /\ j % WheelSize = j
  <2>1. PICK w \in Nat \ {0} : w = WheelSize
    BY WheelHasSlots
  <2>2. ASSUME NEW j \in 0 .. w - 1 PROVE j % w = j
    <3>1. w * 0 + j = j
      BY <2>2
    <3> QED
      BY <3>1, RemainderIs
  <2> QED
    BY <2>1, <2>2 DEF WheelSlots
<1>3. WheelShape
  <2>1. \A j \in WheelSlots : slots[j] = <<>> /\ Len(slots[j]) = 0
    OBVIOUS
  <2>2. slots \in [WheelSlots -> Seq(Events)] /\ tick \in [WheelSlots -> Nat]
    BY <1>2
  <2> QED
    BY <1>2, <2>1, <2>2, WheelHasSlots DEF WheelShape, NoRound
<1>4. ClocksAgree
  BY <1>2, TimesAreNaturals DEF ClocksAgree
<1>5. TicksAhead
  BY <1>2, WheelHasSlots DEF TicksAhead
<1>6. DueInTheirSlot /\ OneTimerEach /\ ArmedHaveTimers
  BY <1>1 DEF DueInTheirSlot, OneTimerEach, ArmedHaveTimers
<1> QED
  BY <1>3, <1>4, <1>5, <1>6 DEF Inv

\* Every step of the loop and of the sessions keeps the invariant.
LEMMA NextHolds ==
  ASSUME LagLeavesRoom, RoomForAll, Inv, [WheelNext]_wheelVars
  PROVE  Inv'
<1>1. CASE UNCHANGED wheelVars
  <2>1. UNCHANGED <<clock, timeNow, tick, slots, current, round, open, unsent, armed>>
    BY <1>1 DEF wheelVars
  <2>2. WheelShape' /\ ClocksAgree' /\ ArmedHaveTimers'
    BY <2>1, SameSlots DEF Inv, WheelShape, ClocksAgree, ArmedHaveTimers, InRound
  <2> QED
    BY <2>1, <2>2, SameSlots DEF Inv
<1>2. ASSUME NEW s \in Sessions, Send(s) \/ Acknowledged(s) \/ Leave(s) PROVE Inv'
  BY <1>2, SendKeeps, ForgetKeeps
<1> QED
  BY <1>1, <1>2, BeginKeeps, ProcTimerEventKeeps, GoNextKeeps, TimeKeeps DEF WheelNext

\* If the loop is never behind by so much that a SYN time reaches the slot it is at, and a slot
\* has room for all sessions, then every session that believes its timer registered has
\* exactly one to come, in the slot of the time it asked for (ArmedHasOneTimer).
THEOREM TimersAreKept ==
  ASSUME LagLeavesRoom, RoomForAll
  PROVE  WheelSpec => []ArmedHasOneTimer
<1>1. Inv /\ [WheelNext]_wheelVars => Inv'
  BY NextHolds
<1>2. Inv => ArmedHasOneTimer
  BY InvGivesTimers
<1> QED
  BY <1>1, <1>2, InitHolds, PTL DEF WheelSpec

\* Under the same two hypotheses no data waits without a timer: what the run wheel_stall finds
\* takes a stall of the loop or an overfull slot (UnsentHasTimer).
THEOREM UnsentIsTimed ==
  ASSUME LagLeavesRoom, RoomForAll
  PROVE  WheelSpec => []UnsentHasTimer
<1>1. Inv /\ [WheelNext]_wheelVars => Inv'
  BY NextHolds
<1>2. Inv => UnsentHasTimer
  BY InvGivesTimers
<1> QED
  BY <1>1, <1>2, InitHolds, PTL DEF WheelSpec

-----------------------------------------------------------------------------
(* The SYN times.  Ping and variation bound each other: a large variation  *)
(* takes a jump of the ping, and after the jump the ping is halfway.       *)
(* RateInv says so with three linear inequalities, that keep each other:   *)
(*   - 2p + 3v after a jump up to n is half of 3v - p + 5n before it;      *)
(*   - 3v - p after a jump up is half of 3v - 4p + 2n, and after a jump    *)
(*     down half of 3v + 2p - 4n;                                          *)
(*   - 3v - 4p after a jump down is half of 3v - p - 7n.                   *)

Bounded(p, v) == 2 * p + 3 * v <= 3320 /\ 3 * v <= p + 1641 /\ 3 * v <= 4 * p + 1282

RateInv == RateTypeOK /\ Bounded(rate.ping, rate.variation)

\* Numbers of 16 bits have room for any window that is computed.
LEMMA WidthRange == Width \in Nat /\ Width > 1000
BY SMT DEF Width

\* A number that is cut to 16 bits is below their width.
LEMMA UInt16Range ==
  ASSUME NEW n \in Nat
  PROVE  UInt16(n) \in 0 .. Width - 1
BY WidthRange DEF UInt16

\* What setPing takes for the ping is between 10 and 1000, whatever was measured.
LEMMA NormalisedRange ==
  ASSUME NEW n \in Nat
  PROVE  Normalised(n) \in PingValues
<1>1. UInt16(n) \in Nat
  BY UInt16Range, WidthRange
<1> QED BY <1>1 DEF Normalised, PingValues

\* A window that is clamped is between 16 and 128.
LEMMA ClampRange ==
  ASSUME NEW n \in Nat
  PROVE  Clamp(n) \in 16 .. 128
BY DEF Clamp

\* The two means of setPing keep ping and variation bounded.
LEMMA MeansBounded ==
  ASSUME NEW p \in PingValues, NEW v \in VariationValues, NEW n \in PingValues, Bounded(p, v)
  PROVE  /\ (p + n) \div 2 \in PingValues
         /\ (v + Distance(n, p)) \div 2 \in VariationValues
         /\ Bounded((p + n) \div 2, (v + Distance(n, p)) \div 2)
<1> USE DEF PingValues, VariationValues
<1>1. CASE n < p
  <2>1. Distance(n, p) = p - n
    BY <1>1 DEF Distance
  <2> QED BY <1>1, <2>1 DEF Bounded
<1>2. CASE ~(n < p)
  <2>1. Distance(n, p) = n - p
    BY <1>2 DEF Distance
  <2> QED BY <1>2, <2>1 DEF Bounded
<1> QED BY <1>1, <1>2, SMTT(30)

\* A record of the type of rate keeps its type and the fields that are not set.
LEMMA RecordUpdate ==
  ASSUME NEW P, NEW V, NEW W,
         NEW r \in [ping : P, variation : V, window : W, auto : BOOLEAN],
         NEW p \in P, NEW v \in V, NEW w \in W
  PROVE  /\ LET q == [r EXCEPT !.ping = p, !.variation = v, !.window = w]
            IN  /\ q \in [ping : P, variation : V, window : W, auto : BOOLEAN]
                /\ q.ping = p /\ q.variation = v
         /\ LET q == [r EXCEPT !.window = w, !.auto = FALSE]
            IN  /\ q \in [ping : P, variation : V, window : W, auto : BOOLEAN]
                /\ q.ping = r.ping /\ q.variation = r.variation
         /\ r.ping \in P /\ r.variation \in V /\ r.window \in W
OBVIOUS

\* A new session has ping 50 and no variation.
LEMMA InitBounded == RateInit => RateInv
BY WidthRange DEF RateInit, RateInv, RateTypeOK, Bounded, PingValues, VariationValues

\* No ping that is measured, and no window that is set, breaks the bounds.
LEMMA NextBounded == RateInv /\ [RateNext]_rate => RateInv'
<1> SUFFICES ASSUME RateInv, [RateNext]_rate PROVE RateInv'
  OBVIOUS
<1>0. RateTypeOK /\ Bounded(rate.ping, rate.variation)
  BY DEF RateInv
<1>1. ASSUME NEW n \in Pings, SetPing(n) PROVE RateInv'
  <2> DEFINE m == Normalised(n)
             p == (rate.ping + m) \div 2
             v == (rate.variation + Distance(m, rate.ping)) \div 2
             w == IF rate.auto THEN Clamp((200 * p) \div 1000) ELSE rate.window
  <2>1. m \in PingValues
    BY NormalisedRange, PingsAreTimes
  <2>2. rate.ping \in PingValues /\ rate.variation \in VariationValues /\ rate.window \in 0 .. Width - 1
    BY <1>0 DEF RateTypeOK
  <2>3. p \in PingValues /\ v \in VariationValues /\ Bounded(p, v)
    <3> HIDE DEF m
    <3> QED BY <1>0, <2>1, <2>2, MeansBounded
  <2>4. w \in 0 .. Width - 1
    <3>1. (200 * p) \div 1000 \in Nat
      <4> HIDE DEF p
      <4> QED BY <2>3 DEF PingValues
    <3>2. Clamp((200 * p) \div 1000) \in 0 .. Width - 1
      <4> HIDE DEF p
      <4> QED BY <3>1, ClampRange, WidthRange
    <3> QED BY <2>2, <3>2
  <2>5. rate' = [rate EXCEPT !.ping = p, !.variation = v, !.window = w]
    BY <1>1 DEF SetPing
  <2> HIDE DEF p, v, w
  <2> QED BY <1>0, <2>3, <2>4, <2>5, RecordUpdate DEF RateInv, RateTypeOK
<1>2. ASSUME NEW n \in WindowSizes, SetWindowSize(n) PROVE RateInv'
  <2>1. UInt16(n) \in 0 .. Width - 1
    BY WindowsAreSizes, UInt16Range
  <2>2. rate' = [rate EXCEPT !.window = UInt16(n), !.auto = FALSE]
    BY <1>2 DEF SetWindowSize
  <2>3. rate.ping \in PingValues /\ rate.variation \in VariationValues
    BY <1>0 DEF RateTypeOK
  <2> QED BY <1>0, <2>1, <2>2, <2>3, RecordUpdate DEF RateInv, RateTypeOK
<1>3. CASE UNCHANGED rate
  BY <1>0, <1>3 DEF RateInv, RateTypeOK
<1> QED BY <1>1, <1>2, <1>3 DEF RateNext

\* The fields keep their types, and ping and variation their bounds.
THEOREM RateBounded == RateSpec => []RateInv
BY InitBounded, NextBounded, PTL DEF RateSpec

\* However the pings jump, a SYN is due early enough for the timer wheel.
THEOREM SynTimeFits == RateSpec => []SynTimeFitsWheel
<1>1. RateInv => SynTimeFitsWheel
  <2> SUFFICES ASSUME RateInv PROVE SynTimeFitsWheel
    OBVIOUS
  <2> DEFINE p == rate.ping
             v == rate.variation
  <2>1. p \in PingValues /\ v \in VariationValues
    BY DEF RateInv, RateTypeOK
  <2>2. 2 * p + 3 * v <= 3320
    BY DEF RateInv, Bounded
  <2>3. SynTime(rate) = p + (3 * v + 310) \div 2
    BY DEF SynTime
  <2> HIDE DEF p, v
  <2>4. p + (3 * v + 310) \div 2 <= 1815
    BY <2>1, <2>2 DEF PingValues, VariationValues
  <2> QED BY <2>3, <2>4 DEF SynTimeFitsWheel
<1> QED BY <1>1, RateBounded, PTL

-----------------------------------------------------------------------------
(* The timer queue: numbers.                                               *)

\* A set of numbers has a smallest one.
LEMMA Smallest ==
  ASSUME NEW S \in SUBSET Nat, S # {}
  PROVE  \E i \in S : \A j \in S : i <= j
<1> DEFINE T == {0 .. n : n \in S}
<1>1. T \subseteq FiniteSubsetsOf(Nat) /\ T # {}
  <2>1. ASSUME NEW n \in S PROVE 0 .. n \in FiniteSubsetsOf(Nat)
    <3>1. IsFiniteSet(0 .. n)
      BY FS_Interval
    <3>2. 0 .. n \in SUBSET Nat
      OBVIOUS
    <3> QED
      BY <3>1, <3>2 DEF FiniteSubsetsOf
  <2> QED
    BY <2>1
<1>2. \E t \in T : \A u \in T : ~ (<<u, t>> \in StrictSubsetOrdering(Nat))
  <2> HIDE DEF T
  <2> QED
    BY <1>1, FS_StrictSubsetOrderingWellFounded, WFMin
<1>3. PICK n \in S : \A x \in S : ~ (<<0 .. x, 0 .. n>> \in StrictSubsetOrdering(Nat))
  BY <1>2
<1>4. ASSUME NEW x \in S, ~ (n <= x) PROVE FALSE
  <2>1. 0 .. x \subseteq 0 .. n /\ 0 .. x # 0 .. n
    BY <1>4
  <2>2. 0 .. x \in SUBSET Nat /\ 0 .. n \in SUBSET Nat
    OBVIOUS
  <2> QED
    BY <1>3, <2>1, <2>2 DEF StrictSubsetOrdering
<1> QED
  BY <1>4

\* Induction, for a set of numbers.
LEMMA AllUpTo ==
  ASSUME NEW m \in Nat, NEW T \in SUBSET Nat, 0 \in T, \A n \in T : n < m => n + 1 \in T
  PROVE  \A n \in 0 .. m : n \in T
<1> DEFINE Bad == {n \in 0 .. m : n \notin T}
<1>1. SUFFICES ASSUME Bad # {} PROVE FALSE
  OBVIOUS
<1>2. Bad \in SUBSET Nat
  OBVIOUS
<1>3. PICK n \in Bad : \A j \in Bad : n <= j
  BY <1>1, <1>2, Smallest
<1>4. n # 0 /\ n \in Nat /\ n <= m
  BY <1>3
<1>5. n - 1 \in 0 .. m /\ n - 1 \in T
  BY <1>3, <1>4
<1>6. n \in T
  <2>1. (n - 1) + 1 = n /\ n - 1 < m
    BY <1>4
  <2> QED
    BY <1>5, <2>1
<1> QED
  BY <1>3, <1>6

\* A quotient is known from its bounds.
LEMMA QuotientIs ==
  ASSUME NEW w \in Nat \ {0}, NEW x \in Nat, NEW q \in Nat, w * q <= x, x < w * q + w
  PROVE  x \div w = q
<1>1. PICK p \in Nat : p = x \div w /\ w * p <= x /\ x < w * p + w
  <2>1. PICK p \in Nat, r \in 0 .. w - 1 : p = x \div w /\ r = x % w /\ x = w * p + r
    BY RemainderFacts
  <2>2. w * p \in Nat
    BY <2>1
  <2>3. w * p <= x /\ x < w * p + w
    BY <2>1, <2>2
  <2> QED
    BY <2>1, <2>3
<1>2. w * p \in Nat /\ w * q \in Nat
  OBVIOUS
<1>3. ASSUME p >= q + 1 PROVE FALSE
  <2>1. w * p >= w * (q + 1) /\ w * (q + 1) = w * q + w
    BY <1>3
  <2> QED
    BY <1>1, <1>2, <2>1
<1>4. ASSUME q >= p + 1 PROVE FALSE
  <2>1. w * q >= w * (p + 1) /\ w * (p + 1) = w * p + w
    BY <1>4
  <2> QED
    BY <1>1, <1>2, <2>1
<1>5. p = q
  BY <1>3, <1>4
<1> QED
  BY <1>1, <1>5

\* Dividing twice is dividing by the product.
LEMMA DividedTwice ==
  ASSUME NEW w \in Nat \ {0}, NEW v \in Nat \ {0}, NEW x \in Nat
  PROVE  x \div (v * w) = (x \div w) \div v
<1>1. PICK q \in Nat, r \in 0 .. w - 1 : q = x \div w /\ x = w * q + r
  BY RemainderFacts
<1>2. PICK p \in Nat, s \in 0 .. v - 1 : p = q \div v /\ q = v * p + s
  BY RemainderFacts
<1>3. v * w \in Nat \ {0}
  OBVIOUS
<1>4. x = (v * w) * p + (w * s + r)
  <2>1. w * (v * p + s) = w * (v * p) + w * s
    BY <1>2
  <2>2. w * (v * p) = (v * w) * p
    BY <1>2
  <2>3. (v * w) * p \in Nat /\ w * s \in Nat
    BY <1>2, <1>3
  <2>4. w * q = (v * w) * p + w * s
    BY <1>2, <2>1, <2>2
  <2> QED
    BY <1>1, <2>3, <2>4
<1>5. w * s + r \in 0 .. (v * w) - 1
  <2>1. w * s <= w * (v - 1)
    BY <1>2
  <2>2. w * (v - 1) = v * w - w
    OBVIOUS
  <2>3. w * s \in Nat
    BY <1>2
  <2> QED
    BY <1>1, <1>3, <2>1, <2>2, <2>3
<1>6. PICK u \in Nat \ {0}, y \in Nat : u = v * w /\ y = w * s + r /\ y < u
  BY <1>3, <1>5
<1>7. x \div u = p
  <2>1. u * p \in Nat /\ x = u * p + y
    BY <1>4, <1>6
  <2> QED
    BY <2>1, <1>6, QuotientIs
<1> QED
  BY <1>1, <1>2, <1>6, <1>7

-----------------------------------------------------------------------------
(* What a slot of a ring stands for. *)

IsWidth(f, n) == f = [k \in 0 .. n |-> IF k = 0 THEN 1 ELSE SlotCount * f[k - 1]]

LEMMA WidthExists == ASSUME NEW m \in Nat PROVE \E f : IsWidth(f, m)
<1> DEFINE T == {n \in Nat : \E f : IsWidth(f, n)}
<1>1. 0 \in T
  <2>1. IsWidth([k \in 0 .. 0 |-> 1], 0)
    BY DEF IsWidth
  <2> QED
    BY <2>1
<1>2. ASSUME NEW n \in T PROVE n + 1 \in T
  <2>1. n \in Nat
    OBVIOUS
  <2>2. PICK f : IsWidth(f, n)
    OBVIOUS
  <2> DEFINE g == [k \in 0 .. n + 1 |-> IF k = n + 1 THEN SlotCount * f[n] ELSE f[k]]
  <2>3. ASSUME NEW k \in 0 .. n + 1 PROVE g[k] = IF k = 0 THEN 1 ELSE SlotCount * g[k - 1]
    <3>1. CASE k = 0
      BY <3>1, <2>1, <2>2 DEF IsWidth
    <3>2. CASE k = n + 1
      BY <3>2, <2>1
    <3>3. CASE k \in 1 .. n
      <4>1. f[k] = SlotCount * f[k - 1]
        BY <3>3, <2>2 DEF IsWidth
      <4>2. g[k] = f[k] /\ g[k - 1] = f[k - 1]
        BY <3>3, <2>1
      <4> QED
        BY <3>3, <4>1, <4>2
    <3> QED
      BY <3>1, <3>2, <3>3, <2>1
  <2>4. g = [k \in 0 .. n + 1 |-> g[k]]
    OBVIOUS
  <2>5. IsWidth(g, n + 1)
    <3> HIDE DEF g
    <3> QED
      BY <2>3, <2>4 DEF IsWidth
  <2> QED
    BY <2>1, <2>5
<1>3. T \in SUBSET Nat
  OBVIOUS
<1>4. m \in T
  <2> HIDE DEF T
  <2> QED
    BY <1>1, <1>2, <1>3, AllUpTo
<1> QED
  BY <1>4

LEMMA WidthIs ==
  /\ RoundWidth[0] = 1
  /\ \A k \in 1 .. RingCount : RoundWidth[k] = SlotCount * RoundWidth[k - 1]
<1>1. RingCount \in Nat
  BY RingsTurn
<1>2. RoundWidth = CHOOSE f : IsWidth(f, RingCount)
  BY DEF RoundWidth, IsWidth
<1>3. IsWidth(RoundWidth, RingCount)
  BY <1>1, <1>2, WidthExists
<1>4. RoundWidth = [k \in 0 .. RingCount |-> IF k = 0 THEN 1 ELSE SlotCount * RoundWidth[k - 1]]
  BY <1>3 DEF IsWidth
<1> HIDE DEF RoundWidth
<1> QED
  BY <1>1, <1>4

LEMMA WidthsArePositive == \A k \in 0 .. RingCount : RoundWidth[k] \in Nat \ {0}
<1> DEFINE T == {n \in Nat : n <= RingCount => RoundWidth[n] \in Nat \ {0}}
<1>1. RingCount \in Nat /\ SlotCount \in Nat \ {0}
  BY RingsTurn
<1>2. 0 \in T
  BY WidthIs
<1>3. ASSUME NEW n \in T, n < RingCount PROVE n + 1 \in T
  <2>1. n \in Nat /\ n + 1 \in 1 .. RingCount /\ (n + 1) - 1 = n
    BY <1>1, <1>3
  <2>2. RoundWidth[n + 1] = SlotCount * RoundWidth[n]
    BY <2>1, WidthIs
  <2>3. PICK v \in Nat \ {0} : v = RoundWidth[n]
    <3>1. n <= RingCount => RoundWidth[n] \in Nat \ {0}
      OBVIOUS
    <3>2. n <= RingCount
      BY <1>1, <2>1
    <3> QED
      BY <3>1, <3>2
  <2>4. SlotCount * v \in Nat \ {0}
    BY <1>1, <2>3
  <2> QED
    BY <2>1, <2>2, <2>3, <2>4
<1>4. T \in SUBSET Nat
  OBVIOUS
<1>5. \A n \in 0 .. RingCount : n \in T
  <2> HIDE DEF T
  <2> QED
    BY <1>1, <1>2, <1>3, <1>4, AllUpTo
<1> QED
  BY <1>1, <1>5

LEMMA WidthsGrow == \A j, k \in 0 .. RingCount : j <= k => RoundWidth[j] <= RoundWidth[k]
<1> DEFINE T == {n \in Nat : n <= RingCount => \A j \in 0 .. n : RoundWidth[j] <= RoundWidth[n]}
<1>1. RingCount \in Nat /\ SlotCount \in Nat \ {0}
  BY RingsTurn
<1>2. 0 \in T
  BY WidthsArePositive, <1>1
<1>3. ASSUME NEW n \in T, n < RingCount PROVE n + 1 \in T
  <2>1. n \in Nat /\ n + 1 \in 1 .. RingCount /\ (n + 1) - 1 = n /\ n \in 0 .. RingCount
    BY <1>1, <1>3
  <2>2. RoundWidth[n + 1] = SlotCount * RoundWidth[n]
    BY <2>1, WidthIs
  <2>3. PICK v \in Nat \ {0} : v = RoundWidth[n]
    BY <2>1, WidthsArePositive
  <2>4. SlotCount * v \in Nat /\ v <= SlotCount * v
    BY <1>1, <2>3
  <2>5. ASSUME NEW j \in 0 .. n + 1 PROVE RoundWidth[j] <= RoundWidth[n + 1]
    <3>1. CASE j = n + 1
      BY <3>1, <2>2, <2>3, <2>4
    <3>2. CASE j \in 0 .. n
      <4>1. j \in 0 .. RingCount
        BY <3>2, <2>1, <1>1
      <4>2. PICK u \in Nat : u = RoundWidth[j]
        BY <4>1, WidthsArePositive
      <4>3. RoundWidth[j] <= RoundWidth[n]
        BY <1>3, <2>1, <3>2
      <4> QED
        BY <4>2, <4>3, <2>2, <2>3, <2>4
    <3> QED
      BY <3>1, <3>2, <2>1
  <2> QED
    BY <2>1, <2>5
<1>4. T \in SUBSET Nat
  OBVIOUS
<1>5. \A n \in 0 .. RingCount : n \in T
  <2> HIDE DEF T
  <2> QED
    BY <1>1, <1>2, <1>3, <1>4, AllUpTo
<1> QED
  BY <1>1, <1>5

-----------------------------------------------------------------------------
(* The slots that a time stamp names, as the digits of a number. *)

Quot(t, k)  == t \div RoundWidth[k]
Digit(t, k) == Quot(t, k) % SlotCount

LEMMA RingFacts ==
  /\ SlotCount \in Nat /\ SlotCount >= 2 /\ RingCount \in Nat /\ RingCount >= 2
  /\ \A k : k \in Rings <=> k \in 0 .. RingCount /\ k < RingCount
  /\ \A k \in Rings : k \in Nat /\ k + 1 \in 0 .. RingCount /\ (k + 1) - 1 = k
  /\ 0 \in Rings /\ RingCount - 1 \in Rings /\ 0 \in 0 .. RingCount /\ RingCount \in 0 .. RingCount
BY RingsTurn DEF Rings

LEMMA QuotIsNat ==
  ASSUME NEW t \in Nat, NEW k \in 0 .. RingCount
  PROVE  /\ Quot(t, k) \in Nat
         /\ RoundWidth[k] * Quot(t, k) \in Nat
         /\ RoundWidth[k] * Quot(t, k) <= t /\ t < RoundWidth[k] * Quot(t, k) + RoundWidth[k]
<1>1. PICK w \in Nat \ {0} : w = RoundWidth[k]
  BY WidthsArePositive
<1>2. PICK q \in Nat, r \in 0 .. w - 1 : q = t \div w /\ t = w * q + r
  BY RemainderFacts
<1>3. w * q \in Nat
  OBVIOUS
<1>4. w * q <= t /\ t < w * q + w
  BY <1>2, <1>3
<1> QED
  BY <1>1, <1>2, <1>3, <1>4 DEF Quot

LEMMA QuotFacts ==
  ASSUME NEW t \in Nat, NEW k \in Rings
  PROVE  /\ Digit(t, k) \in Slots
         /\ Quot(t, k + 1) = Quot(t, k) \div SlotCount
         /\ Quot(t, k) = SlotCount * Quot(t, k + 1) + Digit(t, k)
<1>1. k \in 0 .. RingCount /\ k + 1 \in 1 .. RingCount /\ (k + 1) - 1 = k
  BY RingFacts
<1>2. PICK w \in Nat \ {0} : w = RoundWidth[k]
  BY <1>1, WidthsArePositive
<1>3. RoundWidth[k + 1] = SlotCount * w
  BY <1>1, <1>2, WidthIs
<1>4. SlotCount \in Nat \ {0}
  BY RingFacts
<1>5. t \div (SlotCount * w) = (t \div w) \div SlotCount
  BY <1>2, <1>4, DividedTwice
<1>6. PICK q \in Nat : q = t \div w
  BY RemainderFacts
<1>7. q % SlotCount \in 0 .. SlotCount - 1 /\ q = (SlotCount * (q \div SlotCount)) + (q % SlotCount)
  BY <1>4, RemainderFacts
<1> QED
  BY <1>2, <1>3, <1>5, <1>6, <1>7 DEF Quot, Digit, Slots

LEMMA QuotEnds ==
  ASSUME NEW t \in Nat
  PROVE  Quot(t, 0) = t /\ (t < Span => Quot(t, RingCount) = 0)
<1>1. t \div 1 = t
  OBVIOUS
<1>2. Quot(t, 0) = t
  BY <1>1, WidthIs DEF Quot
<1>3. ASSUME t < Span PROVE Quot(t, RingCount) = 0
  <2>1. PICK w \in Nat \ {0} : w = RoundWidth[RingCount] /\ w = Span
    BY RingFacts, WidthsArePositive DEF Span
  <2>2. w * 0 = 0
    OBVIOUS
  <2>3. t \div w = 0
    BY <1>3, <2>1, <2>2, QuotientIs
  <2> QED
    BY <2>1, <2>3 DEF Quot
<1> QED
  BY <1>2, <1>3

\* Two stamps that name the same slots from ring k on.
Agree(t, v, k) == \A j \in Rings : j >= k => Digit(t, j) = Digit(v, j)

LEMMA AgreeingQuots ==
  ASSUME NEW t \in Nat, NEW v \in Nat, t < Span, v < Span, NEW k \in 0 .. RingCount, Agree(t, v, k)
  PROVE  Quot(t, k) = Quot(v, k)
<1> DEFINE T == {n \in Nat : RingCount - n >= k =>
                   Quot(t, RingCount - n) = Quot(v, RingCount - n)}
<1>1. 0 \in T
  BY RingFacts, QuotEnds
<1>2. ASSUME NEW n \in T, n < RingCount PROVE n + 1 \in T
  <2>1. n \in Nat /\ RingCount - (n + 1) \in Rings /\ (RingCount - (n + 1)) + 1 = RingCount - n
    <3>1. n \in Nat /\ n < RingCount
      BY <1>2
    <3> HIDE DEF T
    <3> QED
      BY <3>1, RingsTurn DEF Rings
  <2>2. SUFFICES ASSUME RingCount - (n + 1) >= k
                 PROVE  Quot(t, RingCount - (n + 1)) = Quot(v, RingCount - (n + 1))
    BY <2>1
  <2>3. PICK j \in Rings : j = RingCount - (n + 1) /\ j >= k /\ j + 1 = RingCount - n
    BY <2>1, <2>2
  <2>4. Quot(t, j + 1) = Quot(v, j + 1)
    <3>1. RingCount - n >= k
      BY <2>2, <2>1, RingFacts
    <3> QED
      BY <3>1, <2>3
  <2>5. Digit(t, j) = Digit(v, j)
    BY <2>3 DEF Agree
  <2> QED
    BY <2>3, <2>4, <2>5, QuotFacts
<1>3. T \in SUBSET Nat
  OBVIOUS
<1>4. \A n \in 0 .. RingCount : n \in T
  <2> HIDE DEF T
  <2> QED
    BY RingFacts, <1>1, <1>2, <1>3, AllUpTo
<1>5. RingCount - k \in 0 .. RingCount /\ RingCount - (RingCount - k) = k
  <2> HIDE DEF T
  <2> QED
    BY RingsTurn
<1>6. RingCount - k \in T
  BY <1>4, <1>5
<1>7. RingCount - (RingCount - k) >= k
  BY <1>5
<1>8. Quot(t, RingCount - (RingCount - k)) = Quot(v, RingCount - (RingCount - k))
  BY <1>6, <1>7
<1> QED
  BY <1>5, <1>8

LEMMA QuotsAgreeing ==
  ASSUME NEW t \in Nat, NEW v \in Nat, NEW k \in 0 .. RingCount, Quot(t, k) = Quot(v, k)
  PROVE  Agree(t, v, k)
<1> DEFINE T == {n \in Nat : n >= k /\ n <= RingCount => Quot(t, n) = Quot(v, n)}
<1>1. 0 \in T
  BY RingFacts
<1>2. ASSUME NEW n \in T, n < RingCount PROVE n + 1 \in T
  <2>1. n \in Nat /\ n \in Rings
    <3>1. n \in Nat /\ n < RingCount
      BY <1>2
    <3> HIDE DEF T
    <3> QED
      BY <3>1, RingsTurn DEF Rings
  <2>2. CASE n + 1 = k
    BY <2>1, <2>2
  <2>3. CASE n >= k
    <3>1. Quot(t, n) = Quot(v, n)
      <4>1. n >= k /\ n <= RingCount => Quot(t, n) = Quot(v, n)
        OBVIOUS
      <4>2. n <= RingCount
        BY <1>2, <2>1, RingsTurn
      <4> QED
        BY <2>3, <4>1, <4>2
    <3>2. Quot(t, n + 1) = Quot(v, n + 1)
      BY <3>1, <2>1, QuotFacts
    <3> QED
      BY <3>2, <2>1
  <2>4. CASE n + 1 < k
    BY <2>1, <2>4
  <2> QED
    BY <2>1, <2>2, <2>3, <2>4, RingFacts
<1>3. T \in SUBSET Nat
  OBVIOUS
<1>4. \A n \in 0 .. RingCount : n \in T
  <2> HIDE DEF T
  <2> QED
    BY RingFacts, <1>1, <1>2, <1>3, AllUpTo
<1>5. ASSUME NEW j \in Rings, j >= k PROVE Digit(t, j) = Digit(v, j)
  <2>1. j \in T /\ j \in Nat /\ j <= RingCount
    BY <1>4, RingFacts
  <2>2. Quot(t, j) = Quot(v, j)
    BY <2>1, <1>5
  <2> QED
    BY <2>2 DEF Digit
<1> QED
  BY <1>5 DEF Agree

\* Counting on by one carries into ring k.
Carry(v, k) == \A j \in Rings : j < k => Digit(v, j) = SlotCount - 1

\* One more, as a digit of a number and a carry.
LEMMA OneMore ==
  ASSUME NEW s \in Nat, s >= 2, NEW q \in Nat, NEW d \in 0 .. s - 1
  PROVE  /\ d = s - 1 => s * q + d + 1 = s * (q + 1)
         /\ d # s - 1 => (s * q + d + 1) \div s = q
         /\ (s * q + d + 1) % s = (d + 1) % s
<1>1. s * (q + 1) = s * q + s /\ s * q \in Nat
  OBVIOUS
<1>2. CASE d = s - 1
  <2>1. (s * (q + 1) + 0) % s = 0
    BY RemainderIs
  <2>2. s % s = 0
    <3>1. (s * 1 + 0) % s = 0
      BY RemainderIs
    <3>2. s * 1 + 0 = s
      OBVIOUS
    <3> QED
      BY <3>1, <3>2
  <2>3. s * q + d + 1 = s * (q + 1) + 0 /\ d + 1 = s
    BY <1>1, <1>2
  <2> QED
    BY <1>1, <1>2, <2>1, <2>2, <2>3
<1>3. CASE d # s - 1
  <2>1. d + 1 \in 0 .. s - 1
    BY <1>3
  <2>2. (s * q + (d + 1)) % s = d + 1
    BY <2>1, RemainderIs
  <2>3. (s * 0 + (d + 1)) % s = d + 1
    BY <2>1, RemainderIs
  <2>4. s * 0 + (d + 1) = d + 1 /\ s * q + (d + 1) = s * q + d + 1
    BY <1>1
  <2>5. PICK x \in Nat : x = s * q + d + 1 /\ s * q <= x /\ x < s * q + s
    BY <1>1, <1>3
  <2>6. x \div s = q
    BY <2>5, QuotientIs
  <2>7. (s * q + d + 1) % s = (d + 1) % s
    BY <2>2, <2>3, <2>4
  <2> QED
    BY <1>3, <2>5, <2>6, <2>7
<1> QED
  BY <1>2, <1>3

LEMMA CarryNext ==
  ASSUME NEW v \in Nat, NEW k \in Rings
  PROVE  Carry(v, k + 1) <=> Carry(v, k) /\ Digit(v, k) = SlotCount - 1
<1>1. \A j \in Rings : j < k + 1 <=> j < k \/ j = k
  BY RingsTurn DEF Rings
<1>2. k < k + 1
  BY RingsTurn DEF Rings
<1> QED
  BY <1>1, <1>2 DEF Carry

\* What the next number is in ring k.
CountsOn(v, k) ==
  IF Carry(v, k) THEN Quot(v + 1, k) = Quot(v, k) + 1 /\ v + 1 = RoundWidth[k] * Quot(v + 1, k)
  ELSE Quot(v + 1, k) = Quot(v, k)

LEMMA CountingOn ==
  ASSUME NEW v \in Nat, NEW k \in 0 .. RingCount
  PROVE  CountsOn(v, k)
<1> DEFINE T == {n \in Nat : n <= RingCount => CountsOn(v, n)}
<1>1. 0 \in T
  <2>1. Carry(v, 0)
    BY RingsTurn DEF Carry, Rings
  <2>2. Quot(v, 0) = v /\ Quot(v + 1, 0) = v + 1
    BY QuotEnds
  <2>3. RoundWidth[0] = 1 /\ 1 * (v + 1) = v + 1
    BY WidthIs
  <2> QED
    BY <2>1, <2>2, <2>3 DEF CountsOn
<1>2. ASSUME NEW n \in T, n < RingCount PROVE n + 1 \in T
  <2>1. n \in Nat /\ n \in Rings /\ (n <= RingCount => CountsOn(v, n))
    <3>1. n \in Nat /\ n < RingCount /\ (n <= RingCount => CountsOn(v, n))
      BY <1>2
    <3> HIDE DEF T
    <3> QED
      BY <3>1, RingsTurn DEF Rings
  <2>2. CountsOn(v, n)
    BY <1>2, <2>1, RingsTurn
  <2>3. v + 1 \in Nat /\ n \in 0 .. RingCount /\ n + 1 \in 1 .. RingCount /\ (n + 1) - 1 = n
    BY <2>1, RingsTurn DEF Rings
  <2>4. PICK q \in Nat, d \in Slots : q = Quot(v, n + 1) /\ d = Digit(v, n) /\ Quot(v, n) = SlotCount * q + d
    BY <2>1, <2>3, QuotFacts, QuotIsNat, RingFacts
  <2>5. PICK p \in Nat : p = Quot(v + 1, n + 1) /\ p = Quot(v + 1, n) \div SlotCount
    <3>1. v + 1 \in Nat /\ n \in Rings /\ n + 1 \in 0 .. RingCount
      BY <2>1, <2>3, RingFacts
    <3>2. Quot(v + 1, n + 1) = Quot(v + 1, n) \div SlotCount
      BY <3>1, QuotFacts
    <3>3. Quot(v + 1, n + 1) \in Nat
      BY <3>1, QuotIsNat
    <3> QED
      BY <3>2, <3>3
  <2>6. CASE ~ Carry(v, n)
    <3>1. ~ Carry(v, n + 1)
      BY <2>1, <2>6, CarryNext
    <3>2. Quot(v + 1, n) = Quot(v, n)
      BY <2>2, <2>6 DEF CountsOn
    <3>3. Quot(v + 1, n + 1) = Quot(v, n + 1)
      BY <2>1, <2>3, <3>2, QuotFacts
    <3> QED
      BY <2>1, <3>1, <3>3 DEF CountsOn
  <2>7. CASE Carry(v, n) /\ d # SlotCount - 1
    <3>1. ~ Carry(v, n + 1)
      BY <2>1, <2>4, <2>7, CarryNext
    <3>2. Quot(v + 1, n) = SlotCount * q + d + 1
      BY <2>2, <2>4, <2>7 DEF CountsOn
    <3>3. (SlotCount * q + d + 1) \div SlotCount = q
      BY <2>4, <2>7, OneMore, RingsTurn DEF Slots
    <3>4. Quot(v + 1, n + 1) = Quot(v, n + 1)
      BY <2>4, <2>5, <3>2, <3>3
    <3> QED
      BY <2>1, <3>1, <3>4 DEF CountsOn
  <2>8. CASE Carry(v, n) /\ d = SlotCount - 1
    <3>1. Carry(v, n + 1)
      BY <2>1, <2>4, <2>8, CarryNext
    <3>2. Quot(v + 1, n) = SlotCount * q + d + 1 /\ v + 1 = RoundWidth[n] * Quot(v + 1, n)
      BY <2>2, <2>4, <2>8 DEF CountsOn
    <3>3. SlotCount * q + d + 1 = SlotCount * (q + 1)
      BY <2>4, <2>8, OneMore, RingsTurn DEF Slots
    <3>4. (SlotCount * (q + 1)) \div SlotCount = q + 1
      <4>1. PICK u \in Nat : u = SlotCount * (q + 1)
        BY RingsTurn
      <4>2. SlotCount * (q + 1) <= u /\ u < SlotCount * (q + 1) + SlotCount
        BY <4>1, RingsTurn
      <4>3. u \div SlotCount = q + 1
        BY <4>1, <4>2, QuotientIs, RingsTurn
      <4> QED
        BY <4>1, <4>3
    <3>5. p = q + 1
      BY <2>5, <3>2, <3>3, <3>4
    <3>6. v + 1 = RoundWidth[n + 1] * p
      <4>1. PICK w \in Nat : w = RoundWidth[n] /\ RoundWidth[n + 1] = SlotCount * w
        BY <2>3, WidthsArePositive, WidthIs
      <4>2. v + 1 = w * (SlotCount * (q + 1))
        BY <3>2, <3>3, <4>1
      <4>3. w * (SlotCount * (q + 1)) = (SlotCount * w) * (q + 1)
        BY <4>1, RingsTurn
      <4> QED
        BY <3>5, <4>1, <4>2, <4>3
    <3> QED
      BY <2>1, <2>4, <2>5, <3>1, <3>5, <3>6 DEF CountsOn
  <2> QED
    BY <2>6, <2>7, <2>8, <2>4
<1>3. T \in SUBSET Nat
  OBVIOUS
<1>4. \A n \in 0 .. RingCount : n \in T
  <2> HIDE DEF T
  <2> QED
    BY RingFacts, <1>1, <1>2, <1>3, AllUpTo
<1>5. k <= RingCount
  BY RingsTurn
<1> QED
  BY <1>4, <1>5

\* Ring k turns by one slot if the next number carries into it, and not otherwise.
LEMMA DigitsCountOn ==
  ASSUME NEW v \in Nat, NEW k \in Rings
  PROVE  Digit(v + 1, k) = IF Carry(v, k) THEN (Digit(v, k) + 1) % SlotCount ELSE Digit(v, k)
<1>1. k \in 0 .. RingCount /\ v + 1 \in Nat /\ k + 1 \in 0 .. RingCount
  BY RingFacts
<1>2. CountsOn(v, k)
  BY <1>1, CountingOn
<1>3. CASE ~ Carry(v, k)
  BY <1>2, <1>3 DEF CountsOn, Digit
<1>4. CASE Carry(v, k)
  <2>1. PICK q \in Nat, d \in Slots : d = Digit(v, k) /\ Quot(v, k) = SlotCount * q + d
    BY <1>1, QuotFacts, QuotIsNat
  <2>2. Quot(v + 1, k) = SlotCount * q + d + 1
    BY <1>2, <1>4, <2>1 DEF CountsOn
  <2>3. (SlotCount * q + d + 1) % SlotCount = (d + 1) % SlotCount
    <3>1. SlotCount \in Nat /\ SlotCount >= 2 /\ q \in Nat /\ d \in 0 .. SlotCount - 1
      BY <2>1, RingFacts DEF Slots
    <3> QED
      BY <3>1, OneMore, Zenon
  <2> QED
    BY <1>4, <2>1, <2>2, <2>3 DEF Digit
<1> QED
  BY <1>3, <1>4

-----------------------------------------------------------------------------
(* Where a timer goes. *)

LEMMA Largest ==
  ASSUME NEW m \in Nat, NEW S \in SUBSET (0 .. m), S # {}
  PROVE  Max(S) \in S /\ \A y \in S : Max(S) >= y
<1> DEFINE Below == {n \in Nat : m - n \in S}
<1>1. PICK z \in S : TRUE
  OBVIOUS
<1>2. m - z \in Below
  BY <1>1
<1>3. PICK n \in Below : \A j \in Below : n <= j
  <2>1. Below \in SUBSET Nat /\ Below # {}
    BY <1>2
  <2> HIDE DEF Below
  <2> QED
    BY <2>1, Smallest
<1>4. ASSUME NEW y \in S PROVE m - n >= y
  <2>1. m - y \in Below
    BY <1>4
  <2>2. n <= m - y /\ y \in 0 .. m
    BY <1>3, <2>1
  <2> QED
    BY <2>2
<1>5. m - n \in S
  BY <1>3
<1>6. \E x \in S : \A y \in S : x >= y
  BY <1>4, <1>5
<1> QED
  BY <1>6 DEF Max

\* Ring k is the highest one that is not at the timer's slot, or ring 0.
OnTop(pos, t, k) ==
  /\ k = 0 \/ Digit(t, k) # pos[k]
  /\ \A j \in Rings : j > k => Digit(t, j) = pos[j]

LEMMA RevolverIs ==
  ASSUME NEW t \in Nat
  PROVE  \A k \in Rings : RevolverPos(t)[k] = Digit(t, k) /\ Digit(t, k) \in Slots
BY QuotFacts DEF RevolverPos, Digit, Quot

LEMMA PlaceIs ==
  ASSUME NEW pos, NEW t \in Nat
  PROVE  \E k \in Rings : OnTop(pos, t, k) /\ Place(pos, t) = <<k, Digit(t, k)>>
<1> DEFINE off == {0} \cup {j \in Rings : RevolverPos(t)[j] # pos[j]}
           k == Max(off)
<1>1. off \in SUBSET (0 .. RingCount - 1) /\ off # {} /\ RingCount - 1 \in Nat
  BY RingsTurn DEF Rings
<1>2. k \in off /\ \A j \in off : k >= j
  <2> HIDE DEF off
  <2> QED
    BY <1>1, Largest
<1>3. Place(pos, t) = <<k, RevolverPos(t)[k]>>
  BY DEF Place
<1>4. k \in Rings
  BY <1>2, RingFacts
<1>5. k = 0 \/ Digit(t, k) # pos[k]
  BY <1>2, <1>4, RevolverIs
<1>6. ASSUME NEW j \in Rings, j > k PROVE Digit(t, j) = pos[j]
  <2>1. ~ (k >= j)
    BY <1>4, <1>6, RingFacts
  <2>2. j \notin off
    BY <1>2, <2>1
  <2> QED
    BY <2>2, RevolverIs
<1> HIDE DEF k
<1> QED
  BY <1>3, <1>4, <1>5, <1>6, RevolverIs DEF OnTop

LEMMA PlaceUnique ==
  ASSUME NEW pos, NEW t \in Nat, NEW k \in Rings, OnTop(pos, t, k)
  PROVE  Place(pos, t) = <<k, Digit(t, k)>>
<1>1. PICK j \in Rings : OnTop(pos, t, j) /\ Place(pos, t) = <<j, Digit(t, j)>>
  BY PlaceIs
<1>2. j \in Nat /\ k \in Nat
  BY RingFacts
<1>3. ~ (j > k)
  <2>1. SUFFICES ASSUME j > k PROVE FALSE
    OBVIOUS
  <2>2. Digit(t, j) = pos[j] /\ j # 0
    BY <1>2, <2>1 DEF OnTop
  <2> QED
    BY <1>1, <2>2 DEF OnTop
<1>4. ~ (k > j)
  <2>1. SUFFICES ASSUME k > j PROVE FALSE
    OBVIOUS
  <2>2. Digit(t, k) = pos[k] /\ k # 0
    BY <1>1, <1>2, <2>1 DEF OnTop
  <2> QED
    BY <2>2 DEF OnTop
<1>5. j = k
  BY <1>2, <1>3, <1>4
<1> QED
  BY <1>1, <1>5

\* Ring 0's own position does not matter.
LEMMA PlaceAboveZero ==
  ASSUME NEW pos, NEW other, NEW t \in Nat, \A k \in Rings \ {0} : pos[k] = other[k]
  PROVE  Place(pos, t) = Place(other, t)
<1>1. PICK k \in Rings : OnTop(pos, t, k) /\ Place(pos, t) = <<k, Digit(t, k)>>
  BY PlaceIs
<1>2. \A j \in Rings : j > k => j \in Rings \ {0}
  BY RingFacts
<1>3. OnTop(other, t, k)
  BY <1>1, <1>2 DEF OnTop
<1> QED
  BY <1>1, <1>3, PlaceUnique

LEMMA PlaceIsSlot ==
  ASSUME NEW pos, NEW t \in Nat
  PROVE  Place(pos, t) \in Rings \X Slots
BY PlaceIs, RevolverIs

-----------------------------------------------------------------------------
(* When a timer is due. *)

\* Not before r, and by less than a turn of the highest ring after it; its stamp is its rest.
DueFrom(r, due, stamp) ==
  /\ due \in Nat /\ r <= due /\ due < r + Span - RoundWidth[RingCount - 1]
  /\ stamp = due % Span

LEMMA SpanFacts ==
  /\ Span \in Nat \ {0}
  /\ RoundWidth[RingCount - 1] \in Nat
  /\ SlotCount <= RoundWidth[RingCount - 1]
  /\ \A k \in Rings : RoundWidth[k] \in Nat /\ RoundWidth[k] <= RoundWidth[RingCount - 1]
<1>1. Span \in Nat \ {0} /\ RingCount \in 0 .. RingCount
  BY RingFacts, WidthsArePositive DEF Span
<1>2. RingCount - 1 \in 0 .. RingCount /\ 1 \in 0 .. RingCount /\ 1 <= RingCount - 1 /\ 1 \in 1 .. RingCount
  BY RingsTurn
<1>3. RoundWidth[1] = SlotCount
  <2>1. RoundWidth[1] = SlotCount * RoundWidth[1 - 1] /\ 1 - 1 = 0
    BY <1>2, WidthIs
  <2>2. SlotCount * 1 = SlotCount
    BY RingsTurn
  <2> QED
    BY <2>1, <2>2, WidthIs
<1>4. SlotCount <= RoundWidth[RingCount - 1] /\ RoundWidth[RingCount - 1] \in Nat
  BY <1>2, <1>3, WidthsGrow, WidthsArePositive
<1>5. ASSUME NEW k \in Rings
      PROVE  RoundWidth[k] \in Nat /\ RoundWidth[k] <= RoundWidth[RingCount - 1]
  <2>1. k \in 0 .. RingCount /\ k <= RingCount - 1
    BY RingsTurn DEF Rings
  <2> QED
    BY <2>1, <1>2, WidthsGrow, WidthsArePositive
<1> QED
  BY <1>1, <1>4, <1>5

\* A stamp that is not the moment itself is at least a span before it.
LEMMA StampFacts ==
  ASSUME NEW r, NEW due, NEW t, DueFrom(r, due, t)
  PROVE  /\ t \in Nat /\ t < Span
         /\ due # t => due >= t + Span
<1>1. PICK p \in Nat \ {0} : p = Span
  BY SpanFacts
<1>2. due \in Nat /\ t = due % p
  BY <1>1 DEF DueFrom
<1>3. t \in 0 .. p - 1
  BY <1>2, RemainderFacts
<1>4. t % p = t
  <2>1. (p * 0 + t) % p = t /\ p * 0 + t = t
    BY <1>3, RemainderIs
  <2> QED
    BY <2>1
<1>5. ASSUME due # t, ~ (due >= t + p) PROVE FALSE
  <2>1. t <= due
    <3>1. PICK q \in Nat, s \in 0 .. p - 1 : s = due % p /\ due = p * q + s
      BY <1>2, RemainderFacts
    <3>2. p * q \in Nat
      OBVIOUS
    <3> QED
      BY <1>2, <3>1, <3>2
  <2>2. due - t < p /\ t - due < p
    BY <1>2, <1>3, <1>5, <2>1
  <2>3. due = t
    <3>1. due % p = t % p /\ t \in Nat
      BY <1>2, <1>3, <1>4
    <3> QED
      BY <1>2, <2>2, <3>1, RemaindersDiffer
  <2> QED
    BY <1>5, <2>3
<1> QED
  BY <1>1, <1>3, <1>5

LEMMA SameRemainder ==
  ASSUME NEW v \in Nat
  PROVE  Digit(v, 0) = v % SlotCount
BY QuotEnds DEF Digit

\* No timer is where the rings have been, when counting on carries into ring k.
LEMMA NothingBehind ==
  ASSUME NEW v \in Nat, v < Span, NEW k \in Rings, Carry(v, k),
         NEW due, NEW t, DueFrom(v + 1, due, t)
  PROVE  ~ Agree(t, v, k)
<1> SUFFICES ASSUME Agree(t, v, k) PROVE FALSE
  OBVIOUS
<1>1. t \in Nat /\ t < Span /\ (due # t => due >= t + Span)
  BY StampFacts
<1>2. k \in 0 .. RingCount
  BY RingFacts
<1>3. Quot(t, k) = Quot(v, k)
  BY <1>1, <1>2, AgreeingQuots
<1>4. PICK w \in Nat, q \in Nat : w = RoundWidth[k] /\ q = Quot(v, k)
  BY <1>2, SpanFacts, QuotIsNat
<1>5. v + 1 = w * (q + 1)
  <2>1. CountsOn(v, k)
    BY <1>2, CountingOn
  <2> QED
    BY <2>1, <1>4 DEF CountsOn
<1>6. w * q \in Nat /\ w * (q + 1) = w * q + w
  BY <1>4
<1>7. w * q <= t /\ t < w * q + w
  BY <1>1, <1>2, <1>3, <1>4, QuotIsNat
<1>8. PICK p \in Nat, top \in Nat : p = Span /\ top = RoundWidth[RingCount - 1] /\ w <= top
  BY <1>4, SpanFacts
<1>9. due \in Nat /\ v + 1 <= due /\ due < v + 1 + p - top
  BY <1>8 DEF DueFrom
<1>10. due >= t + p
  BY <1>1, <1>5, <1>6, <1>7, <1>8, <1>9
<1> QED
  BY <1>1, <1>4, <1>5, <1>6, <1>7, <1>8, <1>9, <1>10

\* Where the rings stand when ring 0 has reached r, and the higher ones v.
Stand(pos, r, v) ==
  /\ r \in Nat /\ v \in Nat /\ v < Span /\ (r = v \/ r = v + 1)
  /\ pos[0] = r % SlotCount
  /\ \A k \in Rings \ {0} : pos[k] = Digit(v, k)

\* What waits in the slot that is scanned is due now.
LEMMA DueNow ==
  ASSUME NEW pos, NEW r, NEW v, Stand(pos, r, v),
         NEW due, NEW t, DueFrom(r, due, t), Place(pos, t) = <<0, pos[0]>>
  PROVE  due = r
<1>1. t \in Nat /\ t < Span /\ (due # t => due >= t + Span)
  BY StampFacts
<1>2. OnTop(pos, t, 0) /\ Digit(t, 0) = pos[0]
  <2>1. PICK k \in Rings : OnTop(pos, t, k) /\ Place(pos, t) = <<k, Digit(t, k)>>
    BY <1>1, PlaceIs
  <2> QED
    BY <2>1
<1>3. r \in Nat /\ v \in Nat /\ v < Span /\ (r = v \/ r = v + 1) /\ pos[0] = r % SlotCount
  BY DEF Stand
<1>4. PICK p \in Nat, top \in Nat :
        p = Span /\ top = RoundWidth[RingCount - 1] /\ SlotCount <= top /\ p > 0
  BY SpanFacts
<1>5. due \in Nat /\ r <= due /\ due < r + p - top
  BY <1>4 DEF DueFrom
<1>6. SlotCount \in Nat /\ SlotCount >= 2
  BY RingsTurn
<1>7. ASSUME t = r PROVE due = r
  BY <1>1, <1>3, <1>4, <1>5, <1>7
<1>8. CASE r = v
  <2>1. ASSUME NEW j \in Rings PROVE Digit(t, j) = Digit(v, j)
    <3>1. CASE j = 0
      BY <3>1, <1>2, <1>3, <1>8, SameRemainder
    <3>2. CASE j # 0
      <4>1. j > 0
        BY <3>2 DEF Rings
      <4> QED
        BY <3>2, <4>1, <1>2 DEF OnTop, Stand
    <3> QED
      BY <3>1, <3>2
  <2>2. Quot(t, 0) = Quot(v, 0)
    <3>1. Agree(t, v, 0)
      BY <2>1 DEF Agree
    <3> QED
      BY <3>1, <1>1, <1>3, RingFacts, AgreeingQuots
  <2> QED
    BY <2>2, <1>1, <1>3, <1>7, <1>8, QuotEnds
<1>9. CASE r = v + 1
  <2>1. Quot(t, 1) = Quot(v, 1)
    <3>1. ASSUME NEW j \in Rings, j >= 1 PROVE Digit(t, j) = Digit(v, j)
      <4>1. j > 0 /\ j # 0
        BY <3>1 DEF Rings
      <4> QED
        BY <4>1, <1>2 DEF OnTop, Stand
    <3>2. Agree(t, v, 1)
      BY <3>1 DEF Agree
    <3>3. 1 \in 0 .. RingCount
      BY RingsTurn
    <3> QED
      BY <3>2, <3>3, <1>1, <1>3, AgreeingQuots
  <2>2. PICK q \in Nat, d \in 0 .. SlotCount - 1, e \in 0 .. SlotCount - 1 :
          q = Quot(v, 1) /\ d = Digit(v, 0) /\ e = Digit(t, 0)
    <3>1. Digit(v, 0) \in Slots /\ Digit(t, 0) \in Slots
      BY <1>1, <1>3, RingFacts, QuotFacts
    <3>2. Quot(v, 1) \in Nat
      BY <1>3, RingsTurn, QuotIsNat
    <3> QED
      BY <3>1, <3>2 DEF Slots
  <2>3. v = SlotCount * q + d /\ t = SlotCount * q + e
    <3>1. Quot(v, 0) = SlotCount * Quot(v, 0 + 1) + Digit(v, 0)
      BY <1>3, RingFacts, QuotFacts
    <3>2. Quot(t, 0) = SlotCount * Quot(t, 0 + 1) + Digit(t, 0)
      BY <1>1, RingFacts, QuotFacts
    <3> QED
      BY <3>1, <3>2, <2>1, <2>2, <1>1, <1>3, QuotEnds
  <2>4. e = (d + 1) % SlotCount
    <3>1. (SlotCount * q + d + 1) % SlotCount = (d + 1) % SlotCount
      BY <1>6, <2>2, OneMore, Zenon
    <3> QED
      BY <1>2, <1>3, <1>9, <2>2, <2>3, <3>1
  <2>5. SlotCount * q \in Nat
    BY <1>6, <2>2
  <2>6. CASE d # SlotCount - 1
    <3>1. (SlotCount * 0 + (d + 1)) % SlotCount = d + 1
      BY <1>6, <2>2, <2>6, RemainderIs
    <3>2. SlotCount * 0 = 0
      BY <1>6
    <3>3. e = d + 1
      BY <2>2, <2>4, <3>1, <3>2
    <3>4. t = r
      BY <1>9, <2>2, <2>3, <2>5, <3>3
    <3> QED
      BY <1>7, <3>4
  <2>7. CASE d = SlotCount - 1
    <3>1. v + 1 >= SlotCount * q + SlotCount /\ t >= v + 1 - SlotCount
      BY <1>6, <2>2, <2>3, <2>5, <2>7
    <3>2. Carry(v, 1)
      <4>1. \A j \in Rings : j < 1 => j = 0
        BY DEF Rings
      <4> QED
        BY <4>1, <2>2, <2>7 DEF Carry
    <3>3. Agree(t, v, 1)
      BY <1>1, <1>3, <2>1, RingsTurn, QuotsAgreeing
    <3>4. 1 \in Rings
      BY RingsTurn DEF Rings
    <3>5. FALSE
      BY <1>3, <1>9, <3>2, <3>3, <3>4, NothingBehind
    <3> QED
      BY <3>5
  <2> QED
    BY <2>6, <2>7
<1> QED
  BY <1>3, <1>8, <1>9

\* And what is due now waits there.
LEMMA NowIsPlaced ==
  ASSUME NEW pos, NEW v, Stand(pos, v, v), NEW t, DueFrom(v, v, t)
  PROVE  Place(pos, t) = <<0, pos[0]>>
<1>1. t \in Nat /\ t < Span /\ (v # t => v >= t + Span)
  BY StampFacts
<1>2. v \in Nat /\ v < Span /\ pos[0] = v % SlotCount
  BY DEF Stand
<1>3. t = v
  BY <1>1, <1>2, SpanFacts
<1>4. OnTop(pos, t, 0)
  <2>1. \A j \in Rings : j > 0 => j \in Rings \ {0}
    OBVIOUS
  <2> QED
    BY <1>3, <2>1 DEF OnTop, Stand
<1>5. Place(pos, t) = <<0, Digit(t, 0)>>
  BY <1>1, <1>4, RingFacts, PlaceUnique
<1> QED
  BY <1>2, <1>3, <1>5, SameRemainder

-----------------------------------------------------------------------------
(* How the rings turn. *)

WheelsOf(ids) == [pos : [Rings -> Slots], slot : [Rings -> [Slots -> SUBSET ids]]]

\* Each listed timer is in the slot that is its place, and in no other.
PlacedIn(w) ==
  \A k \in Rings, s \in Slots :
    w.slot[k][s] = {id \in Listed : Place(w.pos, heap[id].stamp) = <<k, s>>}

\* What moves from one slot into another.
Moving(w, from, to) ==
  {id \in w.slot[from[1]][from[2]] \cap Listed : Place(w.pos, heap[id].stamp) = to}

\* Ring w with the timers of a slot inserted again.
Emptied(u, w, k, s) ==
  \A j \in Rings, t \in Slots :
    u.slot[j][t] = IF j = k /\ t = s THEN {} ELSE w.slot[j][t] \cup Moving(w, <<k, s>>, <<j, t>>)

LEMMA WheelParts ==
  ASSUME NEW ids, NEW w \in WheelsOf(ids)
  PROVE  /\ w = [pos |-> w.pos, slot |-> w.slot]
         /\ w.pos \in [Rings -> Slots]
         /\ w.slot \in [Rings -> [Slots -> SUBSET ids]]
         /\ \A k \in Rings, s \in Slots : w.slot[k][s] \subseteq ids
BY DEF WheelsOf

LEMMA RedistributeIs ==
  ASSUME NEW ids, NEW w \in WheelsOf(ids), NEW k \in Rings, NEW s \in Slots
  PROVE  /\ Redistribute(w, k, s) \in WheelsOf(ids)
         /\ Redistribute(w, k, s).pos = w.pos
         /\ Emptied(Redistribute(w, k, s), w, k, s)
<1> DEFINE table == [j \in Rings |-> [t \in Slots |->
              IF <<j, t>> = <<k, s>> THEN {} ELSE w.slot[j][t] \cup Moving(w, <<k, s>>, <<j, t>>)]]
<1>1. Redistribute(w, k, s) = [w EXCEPT !.slot = table]
  BY DEF Redistribute, Moving
<1>2. w = [pos |-> w.pos, slot |-> w.slot] /\ w.pos \in [Rings -> Slots]
  BY WheelParts
<1>3. ASSUME NEW j \in Rings, NEW t \in Slots
      PROVE  w.slot[j][t] \cup Moving(w, <<k, s>>, <<j, t>>) \subseteq ids
  BY WheelParts DEF Moving
<1>4. table \in [Rings -> [Slots -> SUBSET ids]]
  BY <1>3
<1>5. \A j \in Rings, t \in Slots :
        table[j][t] = IF j = k /\ t = s THEN {} ELSE w.slot[j][t] \cup Moving(w, <<k, s>>, <<j, t>>)
  OBVIOUS
<1> HIDE DEF table
<1>6. Redistribute(w, k, s) = [pos |-> w.pos, slot |-> table]
  BY <1>1, <1>2
<1>7. Redistribute(w, k, s) \in WheelsOf(ids)
  BY <1>2, <1>4, <1>6 DEF WheelsOf
<1>8. Redistribute(w, k, s).pos = w.pos /\ Redistribute(w, k, s).slot = table
  BY <1>6
<1>9. Emptied(Redistribute(w, k, s), w, k, s)
  BY <1>5, <1>8 DEF Emptied
<1> QED
  BY <1>7, <1>8, <1>9

LEMMA NextSlot == \A s \in Slots : (s + 1) % SlotCount \in Slots
<1> SUFFICES ASSUME NEW s \in Slots PROVE (s + 1) % SlotCount \in Slots
  OBVIOUS
<1>1. SlotCount \in Nat \ {0} /\ s + 1 \in Nat
  BY RingsTurn DEF Slots
<1> QED
  BY <1>1, RemainderFacts DEF Slots

\* The positions when ring k has turned.
TurnedAt(pos, k) == [pos EXCEPT ![k] = (@ + 1) % SlotCount]

LEMMA CycleRingIs ==
  ASSUME NEW ids, NEW w \in WheelsOf(ids), NEW k \in Rings
  PROVE  /\ CycleRing(w, k) \in WheelsOf(ids)
         /\ CycleRing(w, k).pos = TurnedAt(w.pos, k)
         /\ w.slot[k][w.pos[k]] = {} =>
              \E z : /\ z.pos = TurnedAt(w.pos, k)
                     /\ \A j \in Rings, t \in Slots : z.slot[j][t] = w.slot[j][t]
                     /\ Emptied(CycleRing(w, k), z, k, (w.pos[k] + 1) % SlotCount)
<1>1. PICK a \in Slots : a = w.pos[k]
  BY WheelParts
<1>2. PICK b \in Slots : b = (a + 1) % SlotCount
  BY NextSlot
<1>3. PICK u : u = Redistribute(w, k, a)
  OBVIOUS
<1>4. PICK z : z = [u EXCEPT !.pos[k] = b]
  OBVIOUS
<1>5. CycleRing(w, k) = Redistribute(z, k, b)
  BY <1>1, <1>2, <1>3, <1>4 DEF CycleRing
<1>6. u \in WheelsOf(ids) /\ u.pos = w.pos /\ Emptied(u, w, k, a)
  BY <1>3, RedistributeIs
<1>7. z \in WheelsOf(ids) /\ z.pos = TurnedAt(w.pos, k) /\ z.slot = u.slot
  <2>1. u = [pos |-> u.pos, slot |-> u.slot] /\ u.pos \in [Rings -> Slots]
        /\ u.slot \in [Rings -> [Slots -> SUBSET ids]]
    BY <1>6, WheelParts
  <2>2. PICK p : p = [w.pos EXCEPT ![k] = b]
    OBVIOUS
  <2>3. p \in [Rings -> Slots] /\ p = TurnedAt(w.pos, k)
    BY <1>1, <1>2, <1>6, <2>1, <2>2 DEF TurnedAt
  <2>4. z = [pos |-> p, slot |-> u.slot]
    BY <1>4, <1>6, <2>1, <2>2
  <2> QED
    BY <2>1, <2>3, <2>4 DEF WheelsOf
<1>8. Redistribute(z, k, b) \in WheelsOf(ids) /\ Redistribute(z, k, b).pos = z.pos
      /\ Emptied(Redistribute(z, k, b), z, k, b)
  BY <1>7, RedistributeIs
<1>9. ASSUME w.slot[k][a] = {}
      PROVE  \A j \in Rings, t \in Slots : z.slot[j][t] = w.slot[j][t]
  <2> TAKE j \in Rings, t \in Slots
  <2>1. Moving(w, <<k, a>>, <<j, t>>) = {}
    BY <1>9 DEF Moving
  <2>2. u.slot[j][t] = IF j = k /\ t = a THEN {} ELSE w.slot[j][t] \cup Moving(w, <<k, a>>, <<j, t>>)
    BY <1>6 DEF Emptied
  <2> QED
    BY <1>7, <1>9, <2>1, <2>2
<1> QED
  BY <1>1, <1>2, <1>5, <1>7, <1>8, <1>9

\* The stamps of the timers are numbers.
StampsAreNat == \A id \in Listed : heap[id].stamp \in Nat

LEMMA TurnedPos ==
  ASSUME NEW pos \in [Rings -> Slots], NEW k \in Rings
  PROVE  /\ TurnedAt(pos, k) \in [Rings -> Slots]
         /\ TurnedAt(pos, k)[k] = (pos[k] + 1) % SlotCount
         /\ (pos[k] + 1) % SlotCount # pos[k]
         /\ \A j \in Rings : j # k => TurnedAt(pos, k)[j] = pos[j]
<1>1. pos[k] \in Slots /\ (pos[k] + 1) % SlotCount \in Slots
  BY NextSlot
<1>2. (pos[k] + 1) % SlotCount # pos[k]
  <2>1. PICK s \in Nat, a \in Nat : s = SlotCount /\ a = pos[k] /\ s >= 2 /\ a \in 0 .. s - 1
    BY <1>1, RingsTurn DEF Slots
  <2>2. CASE a + 1 < s
    <3>1. (s * 0 + (a + 1)) % s = a + 1 /\ s * 0 + (a + 1) = a + 1
      BY <2>1, <2>2, RemainderIs
    <3> QED
      BY <2>1, <3>1
  <2>3. CASE a + 1 = s
    <3>1. (s * 1 + 0) % s = 0 /\ s * 1 + 0 = s
      BY <2>1, RemainderIs
    <3> QED
      BY <2>1, <2>3, <3>1
  <2> QED
    BY <2>1, <2>2, <2>3
<1> QED
  BY <1>1, <1>2 DEF TurnedAt

\* A timer that ring k does not hold at its next slot stays where it is when ring k turns, since
\* no timer agrees with the ring and all the higher ones.
LEMMA PlaceStays ==
  ASSUME NEW pos \in [Rings -> Slots], NEW k \in Rings \ {0}, NEW t \in Nat,
         ~ \A j \in Rings : j >= k => Digit(t, j) = pos[j]
  PROVE  \/ Place(pos, t) = <<k, (pos[k] + 1) % SlotCount>>
         \/ Place(TurnedAt(pos, k), t) = Place(pos, t)
<1>1. PICK h \in Rings : OnTop(pos, t, h) /\ Place(pos, t) = <<h, Digit(t, h)>>
  BY PlaceIs
<1>2. PICK g \in Rings : g >= k /\ Digit(t, g) # pos[g]
  OBVIOUS
<1>3. h \in Nat /\ g \in Nat /\ k \in Nat
  BY RingFacts
<1>4. ~ (g > h)
  BY <1>1, <1>2 DEF OnTop
<1>5. h >= k /\ (h = k \/ h > k) /\ h # 0
  BY <1>2, <1>3, <1>4 DEF Rings
<1>6. Digit(t, h) # pos[h]
  BY <1>1, <1>5 DEF OnTop
<1>7. ASSUME OnTop(TurnedAt(pos, k), t, h) PROVE Place(TurnedAt(pos, k), t) = Place(pos, t)
  BY <1>1, <1>7, PlaceUnique
<1>8. \A j \in Rings : j > h => j # k
  BY <1>3, <1>5
<1>9. \A j \in Rings : j > h => Digit(t, j) = TurnedAt(pos, k)[j]
  BY <1>1, <1>8, TurnedPos DEF OnTop
<1>10. CASE h # k
  <2>1. Digit(t, h) # TurnedAt(pos, k)[h]
    BY <1>6, <1>10, TurnedPos
  <2> QED
    BY <1>7, <1>9, <2>1 DEF OnTop
<1>11. CASE h = k /\ Digit(t, h) # (pos[k] + 1) % SlotCount
  <2>1. Digit(t, h) # TurnedAt(pos, k)[h]
    BY <1>11, TurnedPos
  <2> QED
    BY <1>7, <1>9, <2>1 DEF OnTop
<1>12. CASE h = k /\ Digit(t, h) = (pos[k] + 1) % SlotCount
  BY <1>1, <1>12
<1> QED
  BY <1>10, <1>11, <1>12

\* A higher ring that turns leaves each timer in its place, when none is behind it.
LEMMA CycleRingPlaces ==
  ASSUME NEW ids, NEW w \in WheelsOf(ids), NEW k \in Rings \ {0}, PlacedIn(w), StampsAreNat,
         \A id \in Listed : ~ \A j \in Rings : j >= k => Digit(heap[id].stamp, j) = w.pos[j]
  PROVE  PlacedIn(CycleRing(w, k))
<1>1. k \in Rings /\ w.pos \in [Rings -> Slots]
  BY WheelParts
<1>2. PICK b \in Slots : b = (w.pos[k] + 1) % SlotCount
  BY <1>1, NextSlot
<1>3. w.slot[k][w.pos[k]] = {}
  <2>1. ASSUME NEW id \in Listed, Place(w.pos, heap[id].stamp) = <<k, w.pos[k]>> PROVE FALSE
    <3>1. heap[id].stamp \in Nat
      BY DEF StampsAreNat
    <3>2. PICK h \in Rings : OnTop(w.pos, heap[id].stamp, h)
                             /\ Place(w.pos, heap[id].stamp) = <<h, Digit(heap[id].stamp, h)>>
      BY <3>1, PlaceIs
    <3>3. h = k /\ Digit(heap[id].stamp, h) = w.pos[k]
      BY <2>1, <3>2
    <3> QED
      BY <3>2, <3>3 DEF OnTop
  <2>2. w.slot[k][w.pos[k]] = {id \in Listed : Place(w.pos, heap[id].stamp) = <<k, w.pos[k]>>}
    BY <1>1 DEF PlacedIn
  <2> QED
    BY <2>1, <2>2
<1>4. PICK z : /\ z.pos = TurnedAt(w.pos, k)
               /\ \A j \in Rings, t \in Slots : z.slot[j][t] = w.slot[j][t]
               /\ Emptied(CycleRing(w, k), z, k, b)
  BY <1>1, <1>2, <1>3, CycleRingIs
<1>5. CycleRing(w, k).pos = TurnedAt(w.pos, k)
  BY <1>1, CycleRingIs
<1>6. PICK pos, after : pos = w.pos /\ after = TurnedAt(w.pos, k)
  OBVIOUS
<1>7. ASSUME NEW id \in Listed
      PROVE  /\ Place(pos, heap[id].stamp) = <<k, b>> \/ Place(after, heap[id].stamp) = Place(pos, heap[id].stamp)
             /\ Place(after, heap[id].stamp) # <<k, b>>
             /\ Place(pos, heap[id].stamp) \in Rings \X Slots
  <2>1. PICK t \in Nat : t = heap[id].stamp
    BY DEF StampsAreNat
  <2>2. ~ \A j \in Rings : j >= k => Digit(t, j) = w.pos[j]
    BY <2>1
  <2>3. Place(pos, t) = <<k, b>> \/ Place(after, t) = Place(pos, t)
    BY <1>1, <1>2, <1>6, <2>2, PlaceStays
  <2>4. Place(after, t) # <<k, b>>
    <3>1. PICK h \in Rings : OnTop(after, t, h) /\ Place(after, t) = <<h, Digit(t, h)>>
      BY PlaceIs
    <3>2. after[k] = b
      BY <1>1, <1>2, <1>6, TurnedPos
    <3>3. h = k => Digit(t, h) # b
      BY <3>1, <3>2 DEF OnTop
    <3> QED
      BY <3>1, <3>3
  <2> QED
    BY <2>1, <2>3, <2>4, PlaceIsSlot
<1>8. ASSUME NEW j \in Rings, NEW s \in Slots
      PROVE  CycleRing(w, k).slot[j][s] = {id \in Listed : Place(after, heap[id].stamp) = <<j, s>>}
  <2>1. w.slot[j][s] = {id \in Listed : Place(pos, heap[id].stamp) = <<j, s>>}
    BY <1>6 DEF PlacedIn
  <2>2. w.slot[k][b] = {id \in Listed : Place(pos, heap[id].stamp) = <<k, b>>}
    BY <1>1, <1>6 DEF PlacedIn
  <2>3. CycleRing(w, k).slot[j][s] =
          IF j = k /\ s = b THEN {} ELSE z.slot[j][s] \cup Moving(z, <<k, b>>, <<j, s>>)
    BY <1>4 DEF Emptied
  <2>4. Moving(z, <<k, b>>, <<j, s>>) =
          {id \in Listed : Place(pos, heap[id].stamp) = <<k, b>> /\ Place(after, heap[id].stamp) = <<j, s>>}
    BY <1>1, <1>4, <1>6, <2>2 DEF Moving
  <2>5. z.slot[j][s] = w.slot[j][s]
    BY <1>4
  <2>6. CASE j = k /\ s = b
    BY <1>7, <2>3, <2>6
  <2>7. CASE ~ (j = k /\ s = b)
    <3>1. <<j, s>> # <<k, b>>
      BY <2>7
    <3>2. CycleRing(w, k).slot[j][s] = w.slot[j][s] \cup Moving(z, <<k, b>>, <<j, s>>)
      BY <2>3, <2>5, <2>7
    <3> QED
      BY <1>7, <2>1, <2>4, <3>1, <3>2
  <2> QED
    BY <2>6, <2>7
<1> QED
  BY <1>5, <1>6, <1>8 DEF PlacedIn

-----------------------------------------------------------------------------
(* The cascade. *)

IsTurned(f, w, n) ==
  f = [k \in 0 .. n |-> IF k = 0 THEN w
                        ELSE IF k \in Turning(w) THEN CycleRing(f[k - 1], k) ELSE f[k - 1]]

LEMMA TurnedExists == ASSUME NEW w, NEW m \in Nat PROVE \E f : IsTurned(f, w, m)
<1> DEFINE T == {n \in Nat : \E f : IsTurned(f, w, n)}
<1>1. 0 \in T
  <2>1. IsTurned([k \in 0 .. 0 |-> w], w, 0)
    BY DEF IsTurned
  <2> QED
    BY <2>1
<1>2. ASSUME NEW n \in T PROVE n + 1 \in T
  <2>1. n \in Nat
    OBVIOUS
  <2>2. PICK f : IsTurned(f, w, n)
    OBVIOUS
  <2> DEFINE last == IF n + 1 \in Turning(w) THEN CycleRing(f[n], n + 1) ELSE f[n]
             g == [k \in 0 .. n + 1 |-> IF k = n + 1 THEN last ELSE f[k]]
  <2>3. ASSUME NEW k \in 0 .. n + 1
        PROVE  g[k] = IF k = 0 THEN w
                      ELSE IF k \in Turning(w) THEN CycleRing(g[k - 1], k) ELSE g[k - 1]
    <3>1. CASE k = 0
      <4>1. f[0] = w
        BY <2>1, <2>2 DEF IsTurned
      <4>2. g[0] = f[0]
        BY <2>1
      <4> QED
        BY <3>1, <4>1, <4>2
    <3>2. CASE k = n + 1
      <4>1. g[k] = last /\ g[k - 1] = f[n] /\ k # 0
        BY <3>2, <2>1
      <4> QED
        BY <3>2, <4>1
    <3>3. CASE k \in 1 .. n
      <4>1. f[k] = IF k \in Turning(w) THEN CycleRing(f[k - 1], k) ELSE f[k - 1]
        BY <3>3, <2>2 DEF IsTurned
      <4>2. g[k] = f[k] /\ g[k - 1] = f[k - 1] /\ k # 0
        BY <3>3, <2>1
      <4> QED
        BY <4>1, <4>2
    <3> QED
      BY <3>1, <3>2, <3>3, <2>1
  <2>4. g = [k \in 0 .. n + 1 |-> g[k]]
    OBVIOUS
  <2>5. IsTurned(g, w, n + 1)
    <3> HIDE DEF g
    <3> QED
      BY <2>3, <2>4 DEF IsTurned
  <2> QED
    BY <2>1, <2>5
<1>3. T \in SUBSET Nat
  OBVIOUS
<1>4. m \in T
  <2> HIDE DEF T
  <2> QED
    BY <1>1, <1>2, <1>3, AllUpTo
<1> QED
  BY <1>4

\* The wheel after each ring.
LEMMA CascadeIs ==
  ASSUME NEW w
  PROVE  \E f : /\ f[0] = w /\ Cascade(w) = f[RingCount - 1]
                /\ \A k \in Rings \ {0} :
                     f[k] = IF k \in Turning(w) THEN CycleRing(f[k - 1], k) ELSE f[k - 1]
<1> DEFINE f == CHOOSE f : IsTurned(f, w, RingCount - 1)
<1>1. RingCount - 1 \in Nat
  BY RingsTurn
<1>2. IsTurned(f, w, RingCount - 1)
  BY <1>1, TurnedExists
<1>3. Cascade(w) = f[RingCount - 1]
  BY DEF Cascade, IsTurned, Rings
<1> HIDE DEF f
<1>4. f[0] = w
  BY <1>1, <1>2 DEF IsTurned
<1>5. ASSUME NEW k \in Rings \ {0}
      PROVE  f[k] = IF k \in Turning(w) THEN CycleRing(f[k - 1], k) ELSE f[k - 1]
  <2>1. k \in 0 .. RingCount - 1 /\ k # 0
    BY DEF Rings
  <2> QED
    BY <2>1, <1>2 DEF IsTurned
<1> QED
  BY <1>3, <1>4, <1>5

LEMMA CascadeShape ==
  ASSUME NEW ids, NEW w \in WheelsOf(ids)
  PROVE  Cascade(w) \in WheelsOf(ids)
<1>1. PICK f : /\ f[0] = w /\ Cascade(w) = f[RingCount - 1]
               /\ \A k \in Rings \ {0} :
                    f[k] = IF k \in Turning(w) THEN CycleRing(f[k - 1], k) ELSE f[k - 1]
  BY CascadeIs
<1> DEFINE T == {n \in Nat : n < RingCount => f[n] \in WheelsOf(ids)}
<1>2. 0 \in T
  BY <1>1
<1>3. ASSUME NEW n \in T, n < RingCount - 1 PROVE n + 1 \in T
  <2>1. n \in Nat /\ n < RingCount - 1 /\ (n < RingCount => f[n] \in WheelsOf(ids))
    BY <1>3
  <2>2. n < RingCount /\ n + 1 \in Rings \ {0} /\ (n + 1) - 1 = n /\ n + 1 \in Nat
    <3> HIDE DEF T
    <3> QED
      BY <2>1, RingsTurn DEF Rings
  <2>3. f[n + 1] = IF n + 1 \in Turning(w) THEN CycleRing(f[n], n + 1) ELSE f[n]
    BY <1>1, <2>2
  <2>4. CycleRing(f[n], n + 1) \in WheelsOf(ids)
    BY <2>1, <2>2, CycleRingIs
  <2> QED
    BY <2>1, <2>2, <2>3, <2>4
<1>4. T \in SUBSET Nat /\ RingCount - 1 \in Nat
  BY RingsTurn
<1>5. \A n \in 0 .. RingCount - 1 : n \in T
  <2> HIDE DEF T
  <2> QED
    BY <1>2, <1>3, <1>4, AllUpTo
<1>6. RingCount - 1 \in 0 .. RingCount - 1 /\ RingCount - 1 < RingCount
  BY RingsTurn
<1>7. RingCount - 1 \in T
  BY <1>5, <1>6
<1> QED
  BY <1>1, <1>6, <1>7

\* Which rings turn, when ring 0 begins a new round.
LEMMA TurningIs ==
  ASSUME NEW v \in Nat, Carry(v, 1), NEW w, \A j \in Rings \ {0} : w.pos[j] = Digit(v, j)
  PROVE  /\ \A k \in Rings \ {0} : k \in Turning(w) <=> Carry(v, k)
         /\ FullTurn(w) <=> Carry(v, RingCount)
<1>1. \A j : j \in 1 .. RingCount - 1 <=> j \in Rings \ {0}
  BY RingsTurn DEF Rings
<1>2. 0 \in Rings /\ 0 < 1 /\ Digit(v, 0) = SlotCount - 1
  BY RingFacts DEF Carry
<1>3. ASSUME NEW k \in Rings \ {0} PROVE k \in Turning(w) <=> Carry(v, k)
  <2>1. \A j : j \in 1 .. k - 1 <=> j \in Rings \ {0} /\ j < k
    BY RingsTurn DEF Rings
  <2>2. k \in Turning(w) <=> \A j \in 1 .. k - 1 : w.pos[j] = SlotCount - 1
    BY <1>1 DEF Turning
  <2>3. Carry(v, k) <=> \A j \in Rings \ {0} : j < k => Digit(v, j) = SlotCount - 1
    BY <1>2 DEF Carry
  <2> QED
    BY <2>1, <2>2, <2>3
<1>4. FullTurn(w) <=> Carry(v, RingCount)
  <2>1. \A j \in Rings : j < RingCount
    BY RingFacts
  <2>2. FullTurn(w) <=> \A j \in Rings \ {0} : w.pos[j] = SlotCount - 1
    BY <1>1 DEF FullTurn
  <2> QED
    BY <1>2, <2>1, <2>2 DEF Carry
<1> QED
  BY <1>3, <1>4

\* What holds of the wheel when the rings up to k have turned as the next number says.
TurnedTo(w, v, k, first) ==
  /\ PlacedIn(w) /\ w.pos[0] = first
  /\ \A j \in Rings \ {0} : w.pos[j] = IF j <= k THEN Digit(v + 1, j) ELSE Digit(v, j)

LEMMA CascadeStep ==
  ASSUME NEW v \in Nat, v < Span, NEW ids, NEW w \in WheelsOf(ids), NEW k \in Rings \ {0},
         NEW first, TurnedTo(w, v, k - 1, first), StampsAreNat,
         \A id \in Listed : DueFrom(v + 1, heap[id].due, heap[id].stamp)
  PROVE  TurnedTo(IF Carry(v, k) THEN CycleRing(w, k) ELSE w, v, k, first)
<1>1. k \in Nat /\ k >= 1 /\ k \in Rings
  BY DEF Rings
<1>2. \A j \in Rings \ {0} : (j <= k <=> j <= k - 1 \/ j = k) /\ (j > k => ~ (j <= k - 1)) /\ ~ (k <= k - 1)
  BY <1>1 DEF Rings
<1>3. w.pos[k] = Digit(v, k)
  BY <1>1, <1>2 DEF TurnedTo
<1>4. CASE ~ Carry(v, k)
  <2>1. Digit(v + 1, k) = Digit(v, k)
    BY <1>1, <1>4, DigitsCountOn
  <2>2. \A j \in Rings \ {0} : w.pos[j] = IF j <= k THEN Digit(v + 1, j) ELSE Digit(v, j)
    BY <1>2, <1>3, <2>1 DEF TurnedTo
  <2> QED
    BY <1>4, <2>2 DEF TurnedTo
<1>5. CASE Carry(v, k)
  <2>1. Digit(v + 1, k) = (Digit(v, k) + 1) % SlotCount
    BY <1>1, <1>5, DigitsCountOn
  <2>2. w.pos \in [Rings -> Slots]
    BY WheelParts
  <2>3. CycleRing(w, k).pos = TurnedAt(w.pos, k)
    BY <1>1, CycleRingIs
  <2>4. \A j \in Rings \ {0} : TurnedAt(w.pos, k)[j] = IF j <= k THEN Digit(v + 1, j) ELSE Digit(v, j)
    BY <1>1, <1>2, <1>3, <2>1, <2>2, TurnedPos DEF TurnedTo
  <2>5. TurnedAt(w.pos, k)[0] = first
    BY <1>1, <2>2, TurnedPos, RingFacts DEF TurnedTo
  <2>6. ASSUME NEW id \in Listed, \A j \in Rings : j >= k => Digit(heap[id].stamp, j) = w.pos[j]
        PROVE  FALSE
    <3>1. ASSUME NEW j \in Rings, j >= k PROVE Digit(heap[id].stamp, j) = Digit(v, j)
      <4>1. j # 0 /\ (j = k \/ j > k)
        BY <1>1, <3>1 DEF Rings
      <4>2. w.pos[j] = Digit(v, j)
        BY <1>2, <1>3, <4>1 DEF TurnedTo
      <4> QED
        BY <2>6, <3>1, <4>2
    <3>2. Agree(heap[id].stamp, v, k)
      BY <3>1 DEF Agree
    <3>3. DueFrom(v + 1, heap[id].due, heap[id].stamp)
      OBVIOUS
    <3> QED
      BY <1>1, <1>5, <3>2, <3>3, NothingBehind
  <2>7. PlacedIn(CycleRing(w, k))
    BY <2>6, CycleRingPlaces DEF TurnedTo
  <2> QED
    BY <1>5, <2>3, <2>4, <2>5, <2>7 DEF TurnedTo
<1> QED
  BY <1>4, <1>5

\* However often the rings turn, each timer is in its place.
LEMMA CascadePlaces ==
  ASSUME NEW v \in Nat, v < Span, Carry(v, 1), NEW ids, NEW w \in WheelsOf(ids), PlacedIn(w), StampsAreNat,
         \A j \in Rings \ {0} : w.pos[j] = Digit(v, j),
         \A id \in Listed : DueFrom(v + 1, heap[id].due, heap[id].stamp)
  PROVE  TurnedTo(Cascade(w), v, RingCount - 1, w.pos[0])
<1>1. PICK f : /\ f[0] = w /\ Cascade(w) = f[RingCount - 1]
               /\ \A k \in Rings \ {0} :
                    f[k] = IF k \in Turning(w) THEN CycleRing(f[k - 1], k) ELSE f[k - 1]
  BY CascadeIs
<1> DEFINE T == {n \in Nat : n < RingCount => f[n] \in WheelsOf(ids) /\ TurnedTo(f[n], v, n, w.pos[0])}
<1>2. 0 \in T
  <2>1. \A j \in Rings \ {0} : ~ (j <= 0)
    BY DEF Rings
  <2>2. TurnedTo(w, v, 0, w.pos[0])
    BY <2>1 DEF TurnedTo
  <2> QED
    BY <1>1, <2>2
<1>3. ASSUME NEW n \in T, n < RingCount - 1 PROVE n + 1 \in T
  <2>1. n \in Nat /\ n < RingCount - 1
        /\ (n < RingCount => f[n] \in WheelsOf(ids) /\ TurnedTo(f[n], v, n, w.pos[0]))
    BY <1>3
  <2>2. n < RingCount /\ n + 1 \in Rings \ {0} /\ (n + 1) - 1 = n /\ n + 1 \in Nat /\ n + 1 \in Rings
    <3> HIDE DEF T
    <3> QED
      BY <2>1, RingsTurn DEF Rings
  <2>3. f[n + 1] = IF Carry(v, n + 1) THEN CycleRing(f[n], n + 1) ELSE f[n]
    <3>1. f[n + 1] = IF n + 1 \in Turning(w) THEN CycleRing(f[n], n + 1) ELSE f[n]
      BY <1>1, <2>2
    <3>2. n + 1 \in Turning(w) <=> Carry(v, n + 1)
      BY <2>2, TurningIs
    <3> QED
      BY <3>1, <3>2
  <2>4. CycleRing(f[n], n + 1) \in WheelsOf(ids)
    BY <2>1, <2>2, CycleRingIs
  <2>5. TurnedTo(f[n + 1], v, n + 1, w.pos[0])
    <3>1. f[n] \in WheelsOf(ids) /\ TurnedTo(f[n], v, (n + 1) - 1, w.pos[0])
      BY <2>1, <2>2
    <3> HIDE DEF T
    <3> QED
      BY <2>2, <2>3, <3>1, CascadeStep
  <2>6. f[n + 1] \in WheelsOf(ids)
    BY <2>1, <2>2, <2>3, <2>4
  <2> QED
    BY <2>2, <2>5, <2>6
<1>4. T \in SUBSET Nat /\ RingCount - 1 \in Nat
  BY RingsTurn
<1>5. \A n \in 0 .. RingCount - 1 : n \in T
  <2> HIDE DEF T
  <2> QED
    BY <1>2, <1>3, <1>4, AllUpTo
<1>6. RingCount - 1 \in 0 .. RingCount - 1 /\ RingCount - 1 < RingCount
  BY RingsTurn
<1>7. RingCount - 1 \in T
  BY <1>5, <1>6
<1> QED
  BY <1>1, <1>6, <1>7

-----------------------------------------------------------------------------
(* The free list: what it holds, it holds once. *)

ListOf(f, S) ==
  /\ f \in Seq(S)
  /\ \A x \in S : \E i \in 1 .. Len(f) : f[i] = x
  /\ \A i, j \in 1 .. Len(f) : f[i] = f[j] => i = j

LEMMA ListFacts ==
  ASSUME NEW S, NEW f, ListOf(f, S)
  PROVE  ToSet(f) = S /\ Len(f) = Cardinality(ToSet(f)) /\ IsFiniteSet(S)
<1>1. f \in Seq(S) /\ Len(f) \in Nat /\ f \in [1 .. Len(f) -> S] /\ DOMAIN f = 1 .. Len(f)
  BY DEF ListOf
<1>2. ToSet(f) = S
  BY <1>1 DEF ListOf, ToSet
<1>3. f \in Bijection(1 .. Len(f), S)
  BY <1>1, Fun_IsBij DEF ListOf
<1>4. ExistsBijection(1 .. Len(f), S)
  BY <1>3 DEF ExistsBijection
<1> QED
  BY <1>1, <1>2, <1>4, FS_CountingElements, FS_NatBijection

LEMMA ListsJoin ==
  ASSUME NEW S, NEW T, NEW f, NEW g, ListOf(f, S), ListOf(g, T), S \cap T = {}
  PROVE  ListOf(f \o g, S \cup T)
<1>1. f \in Seq(S) /\ g \in Seq(T) /\ Len(f) \in Nat /\ Len(g) \in Nat
  BY DEF ListOf
<1>2. f \in Seq(S \cup T) /\ g \in Seq(S \cup T)
  BY <1>1
<1>3. PICK h : h = f \o g
  OBVIOUS
<1>4. /\ h \in Seq(S \cup T) /\ Len(h) = Len(f) + Len(g)
      /\ \A i \in 1 .. Len(h) : h[i] = IF i <= Len(f) THEN f[i] ELSE g[i - Len(f)]
  BY <1>1, <1>2, <1>3
<1>5. ASSUME NEW x \in S \cup T PROVE \E i \in 1 .. Len(h) : h[i] = x
  <2>1. CASE x \in S
    <3>1. PICK i \in 1 .. Len(f) : f[i] = x
      BY <2>1 DEF ListOf
    <3>2. i \in 1 .. Len(h) /\ i <= Len(f)
      BY <1>1, <1>4, <3>1
    <3> QED
      BY <1>4, <3>1, <3>2
  <2>2. CASE x \in T
    <3>1. PICK i \in 1 .. Len(g) : g[i] = x
      BY <2>2 DEF ListOf
    <3>2. Len(f) + i \in 1 .. Len(h) /\ ~ (Len(f) + i <= Len(f)) /\ (Len(f) + i) - Len(f) = i
      BY <1>1, <1>4, <3>1
    <3> QED
      BY <1>4, <3>1, <3>2
  <2> QED
    BY <2>1, <2>2
<1>6. ASSUME NEW i \in 1 .. Len(h), NEW j \in 1 .. Len(h), h[i] = h[j] PROVE i = j
  <2>1. CASE i <= Len(f) /\ j <= Len(f)
    <3>1. h[i] = f[i] /\ h[j] = f[j] /\ i \in 1 .. Len(f) /\ j \in 1 .. Len(f)
      BY <1>1, <1>4, <2>1
    <3> QED
      BY <1>6, <3>1 DEF ListOf
  <2>2. CASE ~ (i <= Len(f)) /\ ~ (j <= Len(f))
    <3>1. PICK m, n : m = i - Len(f) /\ n = j - Len(f)
      OBVIOUS
    <3>2. m \in 1 .. Len(g) /\ n \in 1 .. Len(g)
      BY <1>1, <1>4, <2>2, <3>1
    <3>3. h[i] = g[m] /\ h[j] = g[n]
      BY <1>4, <2>2, <3>1
    <3>4. m = n
      BY <1>6, <3>2, <3>3 DEF ListOf
    <3> QED
      BY <1>1, <1>4, <3>1, <3>4
  <2>3. ASSUME NEW a \in 1 .. Len(h), NEW b \in 1 .. Len(h), a <= Len(f), ~ (b <= Len(f))
        PROVE  h[a] # h[b]
    <3>1. h[a] = f[a] /\ a \in 1 .. Len(f) /\ h[b] = g[b - Len(f)] /\ b - Len(f) \in 1 .. Len(g)
      BY <1>1, <1>4, <2>3
    <3>2. h[a] \in S /\ h[b] \in T
      BY <1>1, <3>1
    <3> QED
      BY <3>2
  <2> QED
    BY <1>6, <2>1, <2>2, <2>3
<1> QED
  BY <1>3, <1>4, <1>5, <1>6 DEF ListOf

LEMMA ListTakesOne ==
  ASSUME NEW S, NEW f, ListOf(f, S), S # {}
  PROVE  Head(f) \in S /\ ListOf(Tail(f), S \ {Head(f)})
<1>1. f \in Seq(S) /\ Len(f) \in Nat
  BY DEF ListOf
<1>2. Len(f) >= 1 /\ f # << >>
  BY <1>1 DEF ListOf
<1>3. Head(f) = f[1] /\ f[1] \in S
  BY <1>1, <1>2
<1>4. PICK g : g = Tail(f)
  OBVIOUS
<1>5. g \in Seq(S) /\ Len(g) = Len(f) - 1 /\ \A i \in 1 .. Len(g) : g[i] = f[i + 1]
  BY <1>1, <1>2, <1>4, HeadTailProperties
<1>6. ASSUME NEW i \in 1 .. Len(g) PROVE g[i] # f[1] /\ g[i] \in S
  <2>1. i + 1 \in 1 .. Len(f) /\ 1 \in 1 .. Len(f) /\ i + 1 # 1
    BY <1>1, <1>2, <1>5
  <2>2. f[i + 1] = f[1] => i + 1 = 1
    BY <2>1, Zenon DEF ListOf
  <2>3. f[i + 1] \in S
    BY <1>1, <2>1
  <2> QED
    BY <1>5, <2>1, <2>2, <2>3
<1>7. g \in Seq(S \ {f[1]})
  <2>1. g \in [1 .. Len(g) -> S \ {f[1]}] /\ Len(g) \in Nat
    BY <1>1, <1>2, <1>5, <1>6
  <2> QED
    BY <2>1
<1>8. ASSUME NEW x \in S \ {f[1]} PROVE \E i \in 1 .. Len(g) : g[i] = x
  <2>1. PICK i \in 1 .. Len(f) : f[i] = x
    BY DEF ListOf
  <2>2. i - 1 \in 1 .. Len(g) /\ (i - 1) + 1 = i
    BY <1>1, <1>5, <2>1
  <2> QED
    BY <1>5, <2>1, <2>2
<1>9. ASSUME NEW i \in 1 .. Len(g), NEW j \in 1 .. Len(g), g[i] = g[j] PROVE i = j
  <2>1. i + 1 \in 1 .. Len(f) /\ j + 1 \in 1 .. Len(f)
    BY <1>1, <1>5
  <2>2. i + 1 = j + 1
    <3>1. f[i + 1] = f[j + 1]
      BY <1>5, <1>9
    <3> QED
      BY <2>1, <3>1, Zenon DEF ListOf
  <2> QED
    BY <2>2
<1> QED
  BY <1>3, <1>4, <1>7, <1>8, <1>9 DEF ListOf

LEMMA ListOfOne == ASSUME NEW x PROVE ListOf(<<x>>, {x})
BY DEF ListOf

LEMMA ListOfSome ==
  ASSUME NEW a \in Nat, NEW n \in Nat
  PROVE  ListOf([i \in 1 .. n |-> a + i - 1], a .. a + n - 1)
<1> DEFINE f == [i \in 1 .. n |-> a + i - 1]
<1>1. f \in [1 .. n -> a .. a + n - 1]
  OBVIOUS
<1>2. f \in Seq(a .. a + n - 1) /\ Len(f) = n
  BY <1>1
<1>3. \A x \in a .. a + n - 1 : x - a + 1 \in 1 .. n /\ f[x - a + 1] = x
  OBVIOUS
<1>4. \A i, j \in 1 .. n : f[i] = f[j] => i = j
  OBVIOUS
<1> HIDE DEF f
<1> QED
  BY <1>2, <1>3, <1>4 DEF ListOf

IsInOrder(s, ids) ==
  s \in [1 .. Cardinality(ids) -> ids] /\ \A i, j \in DOMAIN s : i < j => s[i] < s[j]

LEMMA OrderExists ==
  ASSUME NEW b \in Nat, NEW all \in SUBSET (0 .. b)
  PROVE  \E s : IsInOrder(s, all)
<1> DEFINE T == {n \in Nat : \A ids \in SUBSET (0 .. b) : Cardinality(ids) = n => \E s : IsInOrder(s, ids)}
<1>1. \A ids \in SUBSET (0 .. b) : IsFiniteSet(ids) /\ Cardinality(ids) \in Nat
  <2> TAKE ids \in SUBSET (0 .. b)
  <2>1. IsFiniteSet(0 .. b)
    BY FS_Interval
  <2> QED
    BY <2>1, FS_Subset, FS_CardinalityType
<1>2. 0 \in T
  <2>1. ASSUME NEW ids \in SUBSET (0 .. b), Cardinality(ids) = 0 PROVE \E s : IsInOrder(s, ids)
    <3>1. ids = {}
      BY <1>1, <2>1, FS_EmptySet
    <3>2. IsInOrder([i \in 1 .. 0 |-> 0], ids)
      <4>1. 1 .. 0 = {}
        OBVIOUS
      <4> QED
        BY <2>1, <4>1 DEF IsInOrder
    <3> QED
      BY <3>2
  <2> QED
    BY <2>1
<1>3. ASSUME NEW n \in T PROVE n + 1 \in T
  <2>1. n \in Nat /\ \A ids \in SUBSET (0 .. b) : Cardinality(ids) = n => \E s : IsInOrder(s, ids)
    OBVIOUS
  <2>2. ASSUME NEW ids \in SUBSET (0 .. b), Cardinality(ids) = n + 1 PROVE \E s : IsInOrder(s, ids)
    <3>1. ids # {}
      BY <2>1, <2>2, FS_EmptySet
    <3>2. PICK m \in ids : \A y \in ids : m >= y
      BY <3>1, Largest
    <3>3. Cardinality(ids \ {m}) = n
      <4>1. Cardinality(ids \ {m}) = Cardinality(ids) - 1
        BY <1>1, FS_RemoveElement
      <4> QED
        BY <2>1, <2>2, <4>1
    <3>4. PICK s : IsInOrder(s, ids \ {m})
      BY <2>1, <3>3
    <3>5. s \in [1 .. n -> ids \ {m}] /\ \A i, j \in 1 .. n : i < j => s[i] < s[j]
      BY <3>3, <3>4 DEF IsInOrder
    <3> DEFINE g == [i \in 1 .. n + 1 |-> IF i = n + 1 THEN m ELSE s[i]]
    <3>6. g \in [1 .. n + 1 -> ids]
      <4>1. \A i \in 1 .. n + 1 : i # n + 1 => i \in 1 .. n
        BY <2>1
      <4> QED
        BY <3>5, <4>1
    <3>7. ASSUME NEW i \in 1 .. n + 1, NEW j \in 1 .. n + 1, i < j PROVE g[i] < g[j]
      <4>1. i \in 1 .. n /\ g[i] = s[i] /\ s[i] \in ids /\ s[i] # m
        BY <2>1, <3>5, <3>7
      <4>2. CASE j = n + 1
        <5>1. g[j] = m /\ m >= s[i]
          BY <3>2, <4>1, <4>2
        <5>2. m \in 0 .. b /\ s[i] \in 0 .. b
          BY <3>2, <4>1
        <5> QED
          BY <4>1, <5>1, <5>2
      <4>3. CASE j # n + 1
        <5>1. j \in 1 .. n /\ g[j] = s[j]
          BY <2>1, <4>3
        <5> QED
          BY <3>5, <3>7, <4>1, <5>1
      <4> QED
        BY <4>2, <4>3
    <3>8. DOMAIN g = 1 .. n + 1
      OBVIOUS
    <3> HIDE DEF g
    <3>9. IsInOrder(g, ids)
      BY <2>2, <3>6, <3>7, <3>8 DEF IsInOrder
    <3> QED
      BY <3>9
  <2> QED
    BY <2>1, <2>2
<1>4. T \in SUBSET Nat
  OBVIOUS
<1>5. PICK m \in Nat : m = Cardinality(all)
  BY <1>1
<1>6. m \in T
  <2> HIDE DEF T
  <2>1. \A n \in 0 .. m : n \in T
    BY <1>2, <1>3, <1>4, AllUpTo
  <2> QED
    BY <2>1
<1> QED
  BY <1>5, <1>6

LEMMA InOrderLists ==
  ASSUME NEW b \in Nat, NEW ids \in SUBSET (0 .. b)
  PROVE  ListOf(InOrder(ids), ids)
<1>1. InOrder(ids) = CHOOSE s : IsInOrder(s, ids)
  <2>1. InOrder(ids) = CHOOSE s \in [1 .. Cardinality(ids) -> ids] : \A i, j \in DOMAIN s : i < j => s[i] < s[j]
    BY DEF InOrder
  <2> QED
    BY <2>1 DEF IsInOrder
<1>2. PICK s : s = InOrder(ids) /\ IsInOrder(s, ids)
  <2>1. \E s : IsInOrder(s, ids)
    BY OrderExists
  <2>2. IsInOrder(InOrder(ids), ids)
    BY <1>1, <2>1, Zenon
  <2> QED
    BY <2>2
<1>3. IsFiniteSet(ids) /\ Cardinality(ids) \in Nat
  <2>1. IsFiniteSet(0 .. b)
    BY FS_Interval
  <2> QED
    BY <2>1, FS_Subset, FS_CardinalityType
<1>4. PICK n \in Nat : n = Cardinality(ids)
  BY <1>3
<1>5. s \in [1 .. n -> ids] /\ \A i, j \in 1 .. n : i < j => s[i] < s[j]
  BY <1>2, <1>4 DEF IsInOrder
<1>6. ASSUME NEW i \in 1 .. n, NEW j \in 1 .. n, s[i] = s[j] PROVE i = j
  <2>1. s[i] \in Nat /\ s[j] \in Nat
    <3>1. s[i] \in ids /\ s[j] \in ids
      BY <1>5
    <3>2. \A x \in ids : x \in 0 .. b
      OBVIOUS
    <3>3. \A x \in ids : x \in Nat
      BY <3>2
    <3> QED
      BY <3>1, <3>3, Zenon
  <2>2. ~ (i < j) /\ ~ (j < i)
    BY <1>5, <1>6, <2>1
  <2> QED
    BY <2>2
<1>7. s \in Injection(1 .. n, ids)
  BY <1>5, <1>6, Fun_IsInj
<1>8. Cardinality(1 .. n) = Cardinality(ids)
  BY <1>4, FS_Interval
<1>9. s \in Surjection(1 .. n, ids)
  BY <1>3, <1>7, <1>8, FS_Injection
<1>10. \A x \in ids : \E i \in 1 .. n : s[i] = x
  BY <1>9, Fun_SurjectionProperties
<1>11. s \in Seq(ids) /\ Len(s) = n
  BY <1>5
<1> QED
  BY <1>2, <1>6, <1>10, <1>11 DEF ListOf

-----------------------------------------------------------------------------
(* What the calls do to the wheel. *)

LEMMA InsertIs ==
  ASSUME NEW ids, NEW w \in WheelsOf(ids), NEW id \in ids, NEW t \in Nat
  PROVE  InsertNode(w, id, t) \in WheelsOf(ids)
<1>1. PICK h \in Rings, g \in Slots : Place(w.pos, t) = <<h, g>>
  BY PlaceIsSlot
<1>2. w = [pos |-> w.pos, slot |-> w.slot] /\ w.pos \in [Rings -> Slots]
      /\ w.slot \in [Rings -> [Slots -> SUBSET ids]]
  BY WheelParts
<1>3. PICK table : table = [w.slot EXCEPT ![h][g] = @ \cup {id}]
  OBVIOUS
<1>4. InsertNode(w, id, t) = [pos |-> w.pos, slot |-> table]
  <2>1. InsertNode(w, id, t) = [w EXCEPT !.slot[h][g] = @ \cup {id}]
    BY <1>1 DEF InsertNode
  <2> QED
    BY <1>2, <1>3, <2>1
<1>5. table \in [Rings -> [Slots -> SUBSET ids]]
  BY <1>2, <1>3
<1> QED
  BY <1>2, <1>4, <1>5 DEF WheelsOf

LEMMA InsertedSlot ==
  ASSUME NEW ids, NEW w \in WheelsOf(ids), NEW id, NEW t \in Nat, NEW k \in Rings, NEW s \in Slots
  PROVE  InsertNode(w, id, t).slot[k][s] =
           IF Place(w.pos, t) = <<k, s>> THEN w.slot[k][s] \cup {id} ELSE w.slot[k][s]
<1>1. PICK h \in Rings, g \in Slots : Place(w.pos, t) = <<h, g>>
  BY PlaceIsSlot
<1>2. w = [pos |-> w.pos, slot |-> w.slot] /\ w.slot \in [Rings -> [Slots -> SUBSET ids]]
  BY WheelParts
<1>3. PICK table : table = [w.slot EXCEPT ![h][g] = @ \cup {id}]
  OBVIOUS
<1>4. InsertNode(w, id, t) = [pos |-> w.pos, slot |-> table]
  <2>1. InsertNode(w, id, t) = [w EXCEPT !.slot[h][g] = @ \cup {id}]
    BY <1>1 DEF InsertNode
  <2> QED
    BY <1>2, <1>3, <2>1
<1>5. table[k][s] = IF k = h /\ s = g THEN w.slot[k][s] \cup {id} ELSE w.slot[k][s]
  BY <1>2, <1>3
<1>6. Place(w.pos, t) = <<k, s>> <=> k = h /\ s = g
  BY <1>1
<1> QED
  BY <1>4, <1>5, <1>6

LEMMA InsertKeepsPos ==
  ASSUME NEW ids, NEW w \in WheelsOf(ids), NEW id, NEW t \in Nat
  PROVE  InsertNode(w, id, t).pos = w.pos
<1>1. PICK h \in Rings, g \in Slots : Place(w.pos, t) = <<h, g>>
  BY PlaceIsSlot
<1>2. w = [pos |-> w.pos, slot |-> w.slot]
  BY WheelParts
<1>3. InsertNode(w, id, t) = [w EXCEPT !.slot[h][g] = @ \cup {id}]
  BY <1>1 DEF InsertNode
<1> QED
  BY <1>2, <1>3

LEMMA DeleteIs ==
  ASSUME NEW ids, NEW w \in WheelsOf(ids), NEW gone \in SUBSET Listed, StampsAreNat
  PROVE  /\ DeleteNodes(w, gone) \in WheelsOf(ids)
         /\ DeleteNodes(w, gone).pos = w.pos
         /\ \A k \in Rings, s \in Slots :
              DeleteNodes(w, gone).slot[k][s] = w.slot[k][s] \ {id \in gone : Digit(heap[id].stamp, k) = s}
<1>1. w = [pos |-> w.pos, slot |-> w.slot] /\ w.pos \in [Rings -> Slots]
      /\ w.slot \in [Rings -> [Slots -> SUBSET ids]]
  BY WheelParts
<1> DEFINE table == [k \in Rings |-> [s \in Slots |->
              w.slot[k][s] \ {id \in gone : RevolverPos(heap[id].stamp)[k] = s}]]
<1>2. DeleteNodes(w, gone) = [w EXCEPT !.slot = table]
  BY DEF DeleteNodes
<1>3. table \in [Rings -> [Slots -> SUBSET ids]]
  BY <1>1
<1>4. ASSUME NEW k \in Rings, NEW s \in Slots
      PROVE  table[k][s] = w.slot[k][s] \ {id \in gone : Digit(heap[id].stamp, k) = s}
  <2>1. \A id \in gone : RevolverPos(heap[id].stamp)[k] = Digit(heap[id].stamp, k)
    BY RevolverIs DEF StampsAreNat
  <2>2. table[k][s] = w.slot[k][s] \ {id \in gone : RevolverPos(heap[id].stamp)[k] = s}
    OBVIOUS
  <2> HIDE DEF table
  <2> QED
    BY <2>1, <2>2
<1> HIDE DEF table
<1>5. DeleteNodes(w, gone) = [pos |-> w.pos, slot |-> table]
  BY <1>1, <1>2
<1>6. DeleteNodes(w, gone) \in WheelsOf(ids)
  BY <1>1, <1>3, <1>5 DEF WheelsOf
<1> QED
  BY <1>4, <1>5, <1>6

LEMMA ClearedIs ==
  ASSUME NEW ids, wheel \in WheelsOf(ids)
  PROVE  /\ Cleared \in WheelsOf(ids)
         /\ Cleared.pos = wheel.pos
         /\ wheel.pos[0] \in Slots
         /\ \A k \in Rings, s \in Slots :
              Cleared.slot[k][s] = IF k = 0 /\ s = wheel.pos[0] THEN {} ELSE wheel.slot[k][s]
<1>1. wheel = [pos |-> wheel.pos, slot |-> wheel.slot] /\ wheel.pos \in [Rings -> Slots]
      /\ wheel.slot \in [Rings -> [Slots -> SUBSET ids]]
  BY WheelParts
<1>2. PICK g \in Slots : g = wheel.pos[0]
  BY <1>1, RingFacts
<1>3. PICK table : table = [wheel.slot EXCEPT ![0][g] = {}]
  OBVIOUS
<1>4. Cleared = [pos |-> wheel.pos, slot |-> table]
  <2>1. Cleared = [wheel EXCEPT !.slot[0][g] = {}]
    BY <1>2 DEF Cleared
  <2> QED
    BY <1>1, <1>3, <2>1
<1>5. table \in [Rings -> [Slots -> SUBSET ids]]
  BY <1>1, <1>3, RingFacts
<1>6. \A k \in Rings, s \in Slots : table[k][s] = IF k = 0 /\ s = g THEN {} ELSE wheel.slot[k][s]
  BY <1>1, <1>3, RingFacts
<1>7. Cleared \in WheelsOf(ids)
  BY <1>1, <1>4, <1>5 DEF WheelsOf
<1> QED
  BY <1>2, <1>4, <1>6, <1>7

-----------------------------------------------------------------------------
(* Handlers, heap and free list. *)

\* The walk is for moments that have passed, and whose handler is called is on the heap.
ScanOK ==
  /\ scan.phase = "idle" => scan = Idle
  /\ scan.phase # "idle" => scan.left \in 1 .. scan.until
  /\ scan.calling => scan.cur \in Listed

IdsInv ==
  /\ TimersTypeOK
  /\ ScanOK
  /\ \A h \in Handlers : events[h] = {id \in Listed \ Firing : heap[id].handler = h}
  /\ used = Cardinality(Listed)
  /\ ListOf(free, (1 .. size - 1) \ Listed)

LEMMA IdsFacts ==
  ASSUME IdsInv
  PROVE  /\ size \in Nat /\ size >= 1 /\ IsFiniteSet(Listed) /\ used \in Nat
         /\ Listed \subseteq 1 .. size - 1 /\ StampsAreNat
         /\ wheel \in WheelsOf(1 .. size - 1)
         /\ Ahead \subseteq 1 .. size - 1
         /\ scan = [phase |-> scan.phase, left |-> scan.left, until |-> scan.until,
                    cur |-> scan.cur, calling |-> scan.calling]
         /\ scan.left \in Nat /\ scan.until \in Nat /\ scan.cur \in Nat /\ scan.calling \in BOOLEAN
         /\ Reached \in Nat /\ Reached <= now /\ now \in Nat /\ start \in Nat
<1>1. size \in Nat /\ size >= 1
  BY HeapHasIds DEF IdsInv, TimersTypeOK
<1>2. IsFiniteSet(1 .. size - 1)
  BY <1>1, FS_Interval
<1>3. Listed \subseteq 1 .. size - 1
  BY DEF IdsInv, TimersTypeOK
<1>4. StampsAreNat
  <2>1. \A id \in Listed : heap[id].stamp \in 0 .. Span - 1
    BY DEF IdsInv, TimersTypeOK
  <2> QED
    BY <2>1, SpanFacts DEF StampsAreNat
<1>5. wheel \in WheelsOf(1 .. size - 1)
  BY DEF IdsInv, TimersTypeOK, WheelsOf
<1>6. Ahead \subseteq 1 .. size - 1
  <2>1. wheel.slot[0][wheel.pos[0]] \subseteq 1 .. size - 1
    BY <1>5, WheelParts, RingFacts
  <2> QED
    BY <2>1 DEF Ahead
<1>7. /\ scan = [phase |-> scan.phase, left |-> scan.left, until |-> scan.until,
                 cur |-> scan.cur, calling |-> scan.calling]
      /\ scan.phase \in {"idle", "old", "new"}
      /\ scan.left \in Nat /\ scan.until \in 0 .. now /\ scan.cur \in Nat /\ scan.calling \in BOOLEAN
  BY <1>1 DEF IdsInv, TimersTypeOK
<1>8. now \in Nat /\ prev \in 0 .. now /\ start \in Nat
  BY DEF IdsInv, TimersTypeOK
<1>9. Reached \in Nat /\ Reached <= now
  <2>1. CASE scan.phase = "idle"
    BY <1>8, <2>1 DEF Reached
  <2>2. CASE scan.phase # "idle"
    <3>1. scan.left \in 1 .. scan.until /\ scan.until \in Nat /\ scan.until <= now
      BY <1>7, <1>8, <2>2 DEF IdsInv, ScanOK
    <3>2. Reached = scan.until - scan.left + 0 \/ Reached = scan.until - scan.left + 1
      BY <2>2, <3>1 DEF Reached
    <3> QED
      BY <1>8, <3>1, <3>2
  <2> QED
    BY <2>1, <2>2
<1> QED
  BY <1>1, <1>2, <1>3, <1>4, <1>5, <1>6, <1>7, <1>8, <1>9, FS_Subset, FS_CardinalityType DEF IdsInv

LEMMA TimersStart == TimersInit => IdsInv
<1> SUFFICES ASSUME TimersInit PROVE IdsInv
  OBVIOUS
<1>1. PoolSize \in Nat /\ PoolSize >= 1 /\ MaxHeap \in Nat /\ PoolSize <= MaxHeap /\ MaxTime \in Nat
  BY HeapHasIds, DelaysAreTimes
<1>2. Listed = {} /\ Cardinality(Listed) = 0 /\ size = PoolSize /\ used = 0
  BY FS_EmptySet DEF TimersInit, Listed
<1>3. ListOf(free, (1 .. size - 1) \ Listed)
  <2>1. PICK n \in Nat : n = PoolSize - 1
    BY <1>1
  <2>2. ListOf([i \in 1 .. n |-> 1 + i - 1], 1 .. 1 + n - 1)
    BY <2>1, ListOfSome
  <2>3. \A i \in 1 .. n : 1 + i - 1 = i
    OBVIOUS
  <2>4. [i \in 1 .. n |-> 1 + i - 1] = [i \in 1 .. n |-> i]
    BY <2>3
  <2>5. free = [i \in 1 .. n |-> i]
    BY <2>1 DEF TimersInit
  <2>6. 1 .. 1 + n - 1 = (1 .. size - 1) \ Listed
    BY <1>1, <1>2, <2>1
  <2> QED
    BY <2>2, <2>4, <2>5, <2>6
<1>4. free \in Seq(1 .. size - 1)
  <2>1. free \in Seq((1 .. size - 1) \ Listed)
    BY <1>3 DEF ListOf
  <2> QED
    BY <1>2, <2>1
<1>5. scan = Idle /\ Firing = {}
  BY DEF TimersInit, Firing, Idle
<1>6. wheel \in [pos : [Rings -> Slots], slot : [Rings -> [Slots -> SUBSET (1 .. size - 1)]]]
  BY RingsTurn DEF TimersInit, Slots
<1>7. TimersTypeOK
  <2>1. now \in 0 .. MaxTime /\ start \in 0 .. now /\ prev \in 0 .. now
    BY <1>1 DEF TimersInit
  <2>2. size \in PoolSize .. MaxHeap /\ used \in 0 .. size - 1
    BY <1>1, <1>2
  <2>3. events \in [Handlers -> SUBSET (1 .. size - 1)]
    BY DEF TimersInit
  <2>4. scan \in [phase : {"idle", "old", "new"}, left : 0 .. MaxTime, until : 0 .. now,
                  cur : 0 .. size - 1, calling : BOOLEAN]
    BY <1>1, <1>2, <1>5, <2>1 DEF Idle
  <2> QED
    BY <1>2, <1>4, <1>6, <2>1, <2>2, <2>3, <2>4 DEF TimersTypeOK
<1>8. ScanOK
  BY <1>5 DEF ScanOK, Idle
<1>9. \A h \in Handlers : events[h] = {id \in Listed \ Firing : heap[id].handler = h}
  BY <1>2 DEF TimersInit
<1> QED
  BY <1>2, <1>3, <1>7, <1>8, <1>9 DEF IdsInv

LEMMA IdsKept ==
  ASSUME IdsInv, UNCHANGED <<heap, size, used, free, events>>, Firing' = Firing, TimersTypeOK', ScanOK'
  PROVE  IdsInv'
BY DEF IdsInv, Listed

\* What the walk may be, for a given time.
Walks(t, n) == [phase : {"idle", "old", "new"}, left : 0 .. MaxTime, until : 0 .. t,
                cur : 0 .. n - 1, calling : BOOLEAN]

LEMMA TypeKept ==
  ASSUME IdsInv, UNCHANGED <<heap, size, used, free, events>>,
         now' \in 0 .. MaxTime, start' \in 0 .. now', prev' \in 0 .. now',
         wheel' \in WheelsOf(1 .. size - 1), scan' \in Walks(now', size)
  PROVE  TimersTypeOK'
BY DEF IdsInv, TimersTypeOK, Listed, WheelsOf, Walks

LEMMA TypeParts ==
  ASSUME IdsInv
  PROVE  /\ now \in 0 .. MaxTime /\ MaxTime \in Nat /\ start \in 0 .. now /\ prev \in 0 .. now
         /\ size \in PoolSize .. MaxHeap /\ used \in 0 .. size - 1 /\ free \in Seq(1 .. size - 1)
         /\ events \in [Handlers -> SUBSET (1 .. size - 1)]
         /\ scan \in Walks(now, size)
         /\ \A id \in Listed : heap[id] \in [handler : Handlers, stamp : 0 .. Span - 1, due : Nat]
BY DelaysAreTimes DEF IdsInv, TimersTypeOK, Walks

LEMMA TickKeepsIds == ASSUME IdsInv, Tick PROVE IdsInv'
<1>1. now' \in 0 .. MaxTime /\ start' \in 0 .. now' /\ prev' \in 0 .. now'
  BY TypeParts DEF Tick
<1>2. scan' \in Walks(now', size)
  <2>1. scan \in Walks(now, size) /\ now' = now + 1 /\ scan' = scan /\ now \in Nat
    BY TypeParts DEF Tick
  <2>2. 0 .. now \subseteq 0 .. now'
    BY <2>1
  <2> QED
    BY <2>1, <2>2 DEF Walks
<1>3. wheel' \in WheelsOf(1 .. size - 1)
  BY IdsFacts DEF Tick
<1>4. TimersTypeOK'
  BY <1>1, <1>2, <1>3, TypeKept DEF Tick
<1>5. ScanOK' /\ Firing' = Firing
  BY DEF Tick, IdsInv, ScanOK, Firing, Listed, Idle
<1> QED
  BY <1>4, <1>5, IdsKept DEF Tick

LEMMA BeginKeepsIds == ASSUME IdsInv, Begin PROVE IdsInv'
<1>1. scan = Idle
  BY DEF IdsInv, ScanOK, Begin
<1>2. PICK l \in Nat, u \in Nat : l = now - prev /\ u = now /\ l >= 1 /\ l <= u /\ u <= MaxTime
  BY TypeParts DEF Begin
<1>3. scan' = [phase |-> "old", left |-> l, until |-> u, cur |-> 0, calling |-> FALSE]
  <2>1. scan' = [Idle EXCEPT !.phase = "old", !.left = l, !.until = u]
    BY <1>2 DEF Begin
  <2>2. Idle = [phase |-> "idle", left |-> 0, until |-> 0, cur |-> 0, calling |-> FALSE]
    BY DEF Idle
  <2> HIDE DEF Idle
  <2> QED
    BY <2>1, <2>2
<1>4. scan' \in Walks(now', size)
  <2>1. size \in Nat /\ size >= 1 /\ now' = now /\ now \in Nat /\ MaxTime \in Nat
    BY IdsFacts, TypeParts DEF Begin
  <2>2. l \in 0 .. MaxTime /\ u \in 0 .. now' /\ 0 \in 0 .. size - 1
    BY <1>2, <2>1
  <2> QED
    BY <1>3, <2>2 DEF Walks
<1>5. TimersTypeOK'
  BY <1>4, IdsFacts, TypeParts, TypeKept DEF Begin
<1>6. ScanOK' /\ Firing' = Firing
  BY <1>1, <1>2, <1>3 DEF ScanOK, Firing, Idle
<1> QED
  BY <1>5, <1>6, IdsKept DEF Begin

LEMMA AdvanceKeepsIds == ASSUME IdsInv, Advance PROVE IdsInv'
<1>1. scan' = [phase |-> "new", left |-> scan.left, until |-> scan.until, cur |-> 0, calling |-> scan.calling]
  BY IdsFacts DEF Advance
<1>2. scan' \in Walks(now', size)
  BY <1>1, IdsFacts, TypeParts DEF Walks, Advance
<1>3. wheel' \in WheelsOf(1 .. size - 1)
  <2>1. Cleared \in WheelsOf(1 .. size - 1) /\ wheel.pos[0] \in Slots /\ Cleared.pos = wheel.pos
    BY IdsFacts, ClearedIs
  <2>2. PICK p : p = [wheel.pos EXCEPT ![0] = (@ + 1) % SlotCount]
    OBVIOUS
  <2>3. p \in [Rings -> Slots]
    BY <2>1, <2>2, IdsFacts, WheelParts, NextSlot, RingFacts
  <2>4. wheel' = [pos |-> p, slot |-> Cleared.slot]
    <3>1. Cleared = [pos |-> wheel.pos, slot |-> Cleared.slot] /\ wheel.pos \in [Rings -> Slots]
      BY <2>1, IdsFacts, WheelParts
    <3> QED
      BY <2>2, <3>1 DEF Advance
  <2> QED
    BY <2>1, <2>3, <2>4, WheelParts DEF WheelsOf
<1>4. TimersTypeOK'
  BY <1>2, <1>3, TypeParts, TypeKept DEF Advance
<1>5. ScanOK' /\ Firing' = Firing
  BY <1>1 DEF ScanOK, Firing, Advance, IdsInv, Listed
<1> QED
  BY <1>4, <1>5, IdsKept DEF Advance

LEMMA SlotDoneKeepsIds == ASSUME IdsInv, SlotDone PROVE IdsInv'
<1>1. scan.left \in 1 .. scan.until /\ scan.until \in 0 .. now /\ now \in Nat /\ scan.phase = "new" /\ ~ scan.calling
  BY TypeParts DEF IdsInv, ScanOK, SlotDone, Walks
<1>2. CASE scan.left = 1
  <2>1. scan' = Idle /\ prev' = scan.until
    BY <1>2 DEF SlotDone
  <2>2. scan' \in Walks(now', size) /\ prev' \in 0 .. now'
    BY <1>1, <2>1, IdsFacts, TypeParts DEF Walks, SlotDone, Idle
  <2>3. ScanOK' /\ Firing' = Firing
    BY <1>1, <2>1 DEF ScanOK, Firing, Idle
  <2> QED
    <3>1. wheel' \in WheelsOf(1 .. size - 1)
      BY IdsFacts, ClearedIs, CascadeShape DEF SlotDone
    <3>2. start' \in 0 .. now' /\ now' \in 0 .. MaxTime
      BY TypeParts DEF SlotDone
    <3>3. TimersTypeOK'
      BY <2>2, <3>1, <3>2, TypeKept DEF SlotDone
    <3> QED
      BY <2>3, <3>3, IdsKept DEF SlotDone
<1>3. CASE scan.left # 1
  <2>1. prev' = prev /\ scan' = [scan EXCEPT !.phase = "old", !.left = @ - 1, !.cur = 0]
    BY <1>3 DEF SlotDone
  <2>2. scan' = [phase |-> "old", left |-> scan.left - 1, until |-> scan.until, cur |-> 0, calling |-> scan.calling]
    BY <2>1, IdsFacts
  <2>3. scan' \in Walks(now', size) /\ prev' \in 0 .. now'
    BY <1>1, <1>3, <2>1, <2>2, IdsFacts, TypeParts DEF Walks, SlotDone
  <2>4. ScanOK' /\ Firing' = Firing
    BY <1>1, <1>3, <2>2 DEF ScanOK, Firing
  <2> QED
    <3>1. wheel' \in WheelsOf(1 .. size - 1)
      BY IdsFacts, ClearedIs, CascadeShape DEF SlotDone
    <3>2. start' \in 0 .. now' /\ now' \in 0 .. MaxTime
      BY TypeParts DEF SlotDone
    <3>3. TimersTypeOK'
      BY <2>3, <3>1, <3>2, TypeKept DEF SlotDone
    <3> QED
      BY <2>4, <3>3, IdsKept DEF SlotDone
<1> QED
  BY <1>2, <1>3

LEMMA ListWithin == ASSUME NEW S, NEW T, NEW f, S \subseteq T, ListOf(f, S) PROVE f \in Seq(T)
BY DEF ListOf

\* Timers that are taken off the heap are free again.
LEMMA HeapWithout ==
  ASSUME IdsInv, NEW ids \in SUBSET Listed, NEW f, ListOf(f, ids),
         heap' = Restrict(heap, Listed \ ids), size' = size, free' = free \o f,
         used' = IF used > Cardinality(ids) THEN used - Cardinality(ids) ELSE 0
  PROVE  /\ Listed' = Listed \ ids
         /\ \A id \in Listed' : heap'[id] = heap[id] /\ heap'[id] \in [handler : Handlers, stamp : 0 .. Span - 1, due : Nat]
         /\ used' = Cardinality(Listed') /\ used' \in 0 .. size' - 1
         /\ ListOf(free', (1 .. size' - 1) \ Listed') /\ free' \in Seq(1 .. size' - 1)
<1>1. Listed' = Listed \ ids /\ \A id \in Listed' : heap'[id] = heap[id]
  BY DEF Listed, Restrict
<1>2. Cardinality(Listed \ ids) = Cardinality(Listed) - Cardinality(ids)
      /\ Cardinality(ids) \in Nat /\ Cardinality(Listed) \in Nat /\ Cardinality(ids) <= Cardinality(Listed)
      /\ IsFiniteSet(Listed \ ids) /\ Cardinality(Listed \ ids) \in Nat
  <2>1. IsFiniteSet(Listed)
    BY IdsFacts
  <2>2. IsFiniteSet(ids) /\ IsFiniteSet(Listed \ ids) /\ Cardinality(ids) <= Cardinality(Listed)
    BY <2>1, FS_Subset
  <2>3. Cardinality(Listed \ ids) = Cardinality(Listed) - Cardinality(Listed \cap ids)
    BY <2>1, FS_Difference
  <2>4. Listed \cap ids = ids
    OBVIOUS
  <2> QED
    BY <2>1, <2>2, <2>3, <2>4, FS_CardinalityType
<1>3. used = Cardinality(Listed)
  BY DEF IdsInv
<1>4. used' = Cardinality(Listed')
  BY <1>1, <1>2, <1>3
<1>5. used' \in 0 .. size' - 1
  <2>1. used \in 0 .. size - 1 /\ size \in Nat
    BY TypeParts, IdsFacts
  <2> QED
    BY <1>1, <1>2, <1>3, <1>4, <2>1
<1>6. ListOf(free', (1 .. size' - 1) \ Listed')
  <2>1. ListOf(free, (1 .. size - 1) \ Listed)
    BY DEF IdsInv
  <2>2. ((1 .. size - 1) \ Listed) \cap ids = {}
    OBVIOUS
  <2>3. ListOf(free \o f, ((1 .. size - 1) \ Listed) \cup ids)
    BY <2>1, <2>2, ListsJoin
  <2>4. ((1 .. size - 1) \ Listed) \cup ids = (1 .. size' - 1) \ Listed'
    BY <1>1, IdsFacts
  <2> QED
    BY <2>3, <2>4
<1>7. free' \in Seq(1 .. size' - 1)
  <2>1. (1 .. size' - 1) \ Listed' \subseteq 1 .. size' - 1
    OBVIOUS
  <2> QED
    BY <1>6, <2>1, ListWithin, Zenon
<1>8. \A id \in Listed' : heap'[id] \in [handler : Handlers, stamp : 0 .. Span - 1, due : Nat]
  BY <1>1, TypeParts
<1> QED
  BY <1>1, <1>4, <1>5, <1>6, <1>7, <1>8

LEMMA AheadIs ==
  ASSUME IdsInv, Ahead # {}
  PROVE  Min(Ahead) \in Ahead /\ Min(Ahead) \in 1 .. size - 1 /\ \A id \in Ahead : Min(Ahead) <= id
<1>1. Ahead \in SUBSET Nat /\ Ahead \subseteq 1 .. size - 1
  BY IdsFacts
<1>2. \E i \in Ahead : \A j \in Ahead : i <= j
  BY <1>1, Smallest
<1> QED
  BY <1>1, <1>2 DEF Min

LEMMA FireKeepsIds == ASSUME IdsInv, Fire PROVE IdsInv'
<1>1. PICK id : id = Min(Ahead) /\ id \in 1 .. size - 1
  BY AheadIs DEF Fire
<1>2. /\ scan' = [scan EXCEPT !.cur = id, !.calling = id \in Listed]
      /\ events' = IF id \in Listed THEN [events EXCEPT ![heap[id].handler] = @ \ {id}] ELSE events
      /\ UNCHANGED <<now, start, prev, wheel, heap, size, used, free>>
      /\ scan.phase # "idle" /\ ~ scan.calling
  BY <1>1 DEF Fire
<1>3. scan' = [phase |-> scan.phase, left |-> scan.left, until |-> scan.until, cur |-> id, calling |-> id \in Listed]
  <2>1. scan = [phase |-> scan.phase, left |-> scan.left, until |-> scan.until,
                    cur |-> scan.cur, calling |-> scan.calling]
    BY IdsFacts
  <2> QED
    BY <1>2, <2>1
<1>4. Listed' = Listed /\ Firing = {} /\ Firing' = IF id \in Listed THEN {id} ELSE {}
  BY <1>2, <1>3 DEF Listed, Firing
<1>5. events' \in [Handlers -> SUBSET (1 .. size - 1)]
  BY <1>2, TypeParts
<1>6. scan' \in Walks(now', size')
  <2>1. id \in 0 .. size - 1 /\ (id \in Listed) \in BOOLEAN
    BY <1>1, IdsFacts
  <2>2. scan.phase \in {"idle", "old", "new"} /\ scan.left \in 0 .. MaxTime /\ scan.until \in 0 .. now
    BY TypeParts DEF Walks
  <2> QED
    BY <1>2, <1>3, <2>1, <2>2 DEF Walks
<1>7. TimersTypeOK'
  <2>1. wheel' \in WheelsOf(1 .. size' - 1)
    BY <1>2, IdsFacts
  <2>2. Listed' \subseteq 1 .. size' - 1
    BY <1>2, <1>4, IdsFacts
  <2> QED
    BY <1>2, <1>4, <1>5, <1>6, <2>1, <2>2, TypeParts DEF TimersTypeOK, WheelsOf, Walks
<1>8. ScanOK'
  <2>1. scan.left \in 1 .. scan.until
    BY <1>2 DEF IdsInv, ScanOK
  <2> QED
    BY <1>2, <1>3, <1>4, <2>1 DEF ScanOK
<1>9. ASSUME NEW h \in Handlers PROVE events'[h] = {i \in Listed' \ Firing' : heap'[i].handler = h}
  <2>1. events[h] = {i \in Listed : heap[i].handler = h}
    BY <1>4 DEF IdsInv
  <2>2. CASE id \notin Listed
    BY <1>2, <1>4, <2>1, <2>2
  <2>3. CASE id \in Listed
    <3>1. events'[h] = IF h = heap[id].handler THEN events[h] \ {id} ELSE events[h]
      BY <1>2, <2>3, TypeParts
    <3> QED
      BY <1>2, <1>4, <2>1, <2>3, <3>1
  <2> QED
    BY <2>2, <2>3
<1>10. used' = Cardinality(Listed') /\ ListOf(free', (1 .. size' - 1) \ Listed')
  BY <1>2, <1>4 DEF IdsInv
<1> QED
  BY <1>7, <1>8, <1>9, <1>10 DEF IdsInv

LEMMA ReturnKeepsIds == ASSUME IdsInv, Return PROVE IdsInv'
<1>1. PICK id : id = scan.cur /\ id \in Listed
  BY DEF IdsInv, ScanOK, Return
<1>2. /\ scan.calling
      /\ scan' = [scan EXCEPT !.calling = FALSE]
      /\ heap' = Restrict(heap, Listed \ {id})
      /\ used' = IF used > 0 THEN used - 1 ELSE 0
      /\ free' = Append(free, id)
      /\ UNCHANGED <<now, start, prev, wheel, size, events>>
  BY <1>1 DEF Return
<1>3. scan' = [phase |-> scan.phase, left |-> scan.left, until |-> scan.until, cur |-> scan.cur, calling |-> FALSE]
  BY <1>2, IdsFacts
<1>4. free' = free \o <<id>>
  <2>1. free \in Seq(1 .. size - 1) /\ id \in 1 .. size - 1
    BY <1>1, TypeParts, IdsFacts
  <2> QED
    BY <1>2, <2>1, AppendIsConcat
<1>5. used' = IF used > Cardinality({id}) THEN used - Cardinality({id}) ELSE 0
  <2>1. Cardinality({id}) = 1 /\ used \in Nat
    BY FS_Singleton, IdsFacts
  <2> QED
    BY <1>2, <2>1
<1>6. /\ Listed' = Listed \ {id}
      /\ \A i \in Listed' : heap'[i] = heap[i] /\ heap'[i] \in [handler : Handlers, stamp : 0 .. Span - 1, due : Nat]
      /\ used' = Cardinality(Listed') /\ used' \in 0 .. size' - 1
      /\ ListOf(free', (1 .. size' - 1) \ Listed') /\ free' \in Seq(1 .. size' - 1)
  <2>1. ListOf(<<id>>, {id}) /\ {id} \in SUBSET Listed
    BY <1>1, ListOfOne
  <2> QED
    BY <1>2, <1>4, <1>5, <2>1, HeapWithout
<1>7. scan' \in Walks(now', size')
  BY <1>2, <1>3, TypeParts DEF Walks
<1>8. TimersTypeOK'
  <2>1. wheel' \in WheelsOf(1 .. size' - 1)
    BY <1>2, IdsFacts
  <2>2. Listed' \subseteq 1 .. size' - 1
    BY <1>2, <1>6, IdsFacts
  <2> QED
    BY <1>2, <1>6, <1>7, <2>1, <2>2, TypeParts DEF TimersTypeOK, WheelsOf, Walks
<1>9. ScanOK'
  <2>1. scan.phase # "idle"
    BY <1>2 DEF IdsInv, ScanOK, Idle
  <2>2. scan.left \in 1 .. scan.until
    BY <2>1 DEF IdsInv, ScanOK
  <2> QED
    BY <1>3, <2>1, <2>2 DEF ScanOK
<1>10. Firing = {id} /\ Firing' = {}
  BY <1>1, <1>2, <1>3 DEF Firing
<1>11. ASSUME NEW h \in Handlers PROVE events'[h] = {i \in Listed' \ Firing' : heap'[i].handler = h}
  <2>1. events[h] = {i \in Listed \ {id} : heap[i].handler = h}
    BY <1>10 DEF IdsInv
  <2> QED
    BY <1>2, <1>6, <1>10, <2>1
<1> QED
  BY <1>6, <1>8, <1>9, <1>11 DEF IdsInv

LEMMA TimerIs ==
  ASSUME IdsInv, NEW h \in Handlers, NEW d \in Nat
  PROVE  /\ Timer(h, d) \in [handler : Handlers, stamp : 0 .. Span - 1, due : Nat]
         /\ Timer(h, d).handler = h /\ Timer(h, d).due = now + d
         /\ Timer(h, d).stamp = (now - start + d) % Span /\ Timer(h, d).stamp \in Nat
<1>1. now - start + d \in Nat
  BY TypeParts
<1>2. PICK p \in Nat \ {0} : p = Span
  BY SpanFacts
<1>3. PICK x \in Nat : x = now - start + d
  BY <1>1
<1>4. (now - start + d) % Span \in 0 .. Span - 1
  <2>1. x % p \in 0 .. p - 1
    BY RemainderFacts
  <2> QED
    BY <1>2, <1>3, <2>1
<1>5. now + d \in Nat
  BY TypeParts
<1> QED
  BY <1>4, <1>5, SpanFacts DEF Timer

\* There is always an id to take, and it is not on the heap.
LEMMA IdsToTake ==
  ASSUME IdsInv, NEW m, m = size + Len(NewIds)
  PROVE  /\ ListOf(free \o NewIds, (1 .. m - 1) \ Listed)
         /\ (1 .. m - 1) \ Listed # {}
         /\ m \in Nat /\ m >= size
         /\ used + 1 \in 0 .. m - 1
<1>1. ListOf(free, (1 .. size - 1) \ Listed) /\ used = Cardinality(Listed)
  BY DEF IdsInv
<1>2. PICK n \in Nat : n = size /\ n >= 1
  BY IdsFacts
<1>3. used \in 0 .. n - 1 /\ Listed \subseteq 1 .. n - 1
  BY <1>2, IdsFacts, TypeParts
<1>4. CASE used >= n - 1
  <2>1. PICK k \in Nat : k = n + 1
    OBVIOUS
  <2>2. NewIds = [i \in 1 .. k |-> n + i - 1] /\ Len(NewIds) = k
    <3>1. NewIds = [i \in 1 .. k |-> n + i - 1]
      BY <1>2, <1>4, <2>1 DEF NewIds
    <3> QED
      BY <3>1
  <2>3. m \in Nat /\ m = n + k
    BY <1>2, <2>2
  <2>4. ListOf(NewIds, n .. m - 1)
    <3>1. ListOf(NewIds, n .. n + k - 1)
      BY <2>2, ListOfSome
    <3>2. n .. n + k - 1 = n .. m - 1
      BY <2>3
    <3> QED
      BY <3>1, <3>2
  <2>5. ((1 .. n - 1) \ Listed) \cap (n .. m - 1) = {}
    BY <1>2
  <2>6. ListOf(free \o NewIds, ((1 .. n - 1) \ Listed) \cup (n .. m - 1))
    BY <1>1, <1>2, <2>4, <2>5, ListsJoin
  <2>7. ((1 .. n - 1) \ Listed) \cup (n .. m - 1) = (1 .. m - 1) \ Listed
    BY <1>2, <1>3, <2>1, <2>3
  <2>8. n \in (1 .. m - 1) \ Listed
    BY <1>2, <1>3, <2>1, <2>3
  <2>9. used + 1 \in 0 .. m - 1 /\ m >= size
    BY <1>2, <1>3, <2>1, <2>3
  <2>10. ListOf(free \o NewIds, (1 .. m - 1) \ Listed)
    BY <2>6, <2>7
  <2> QED
    BY <2>3, <2>8, <2>9, <2>10
<1>5. CASE ~ (used >= n - 1)
  <2>1. NewIds = << >> /\ Len(NewIds) = 0
    BY <1>2, <1>5 DEF NewIds
  <2>2. free \o NewIds = free
    BY <2>1, TypeParts
  <2>3. (1 .. n - 1) \ Listed # {}
    <3>1. ASSUME (1 .. n - 1) \ Listed = {} PROVE FALSE
      <4>1. Listed = 1 .. n - 1
        BY <1>3, <3>1
      <4>2. Cardinality(1 .. n - 1) = n - 1
        BY <1>2, FS_Interval
      <4> QED
        BY <1>1, <1>5, <4>1, <4>2, <1>2
    <3> QED
      BY <3>1
  <2>4. used + 1 \in 0 .. n - 1 /\ m = n
    BY <1>2, <1>3, <1>5, <2>1
  <2> QED
    BY <1>1, <1>2, <2>1, <2>2, <2>3, <2>4
<1> QED
  BY <1>4, <1>5

\* A timer that is asked for.
AddsTimer(h, d, id) ==
  /\ id \in (1 .. size' - 1) \ Listed
  /\ size' \in Nat /\ size' >= size
  /\ wheel' = InsertNode(wheel, id, Timer(h, d).stamp)
  /\ heap' = [i \in Listed \cup {id} |-> IF i = id THEN Timer(h, d) ELSE heap[i]]
  /\ events' = [events EXCEPT ![h] = @ \cup {id}]
  /\ UNCHANGED <<now, start, prev, scan>>

LEMMA ScheduleAdds ==
  ASSUME IdsInv, NEW h \in Handlers, NEW d, Schedule(h, d)
  PROVE  /\ d \in Nat
         /\ \E id : /\ AddsTimer(h, d, id)
                    /\ ListOf(free', ((1 .. size' - 1) \ Listed) \ {id})
                    /\ used' = used + 1 /\ used' \in 0 .. size' - 1 /\ size' \in PoolSize .. MaxHeap
<1>1. d \in Nat
  BY DelaysAreTimes DEF Schedule, AskedDelays
<1>2. PICK ids : ids = free \o NewIds
  OBVIOUS
<1>3. PICK id : id = Head(ids)
  OBVIOUS
<1>4. /\ size' = size + Len(NewIds) /\ size' <= MaxHeap
      /\ heap' = [i \in Listed \cup {id} |-> IF i = id THEN Timer(h, d) ELSE heap[i]]
      /\ used' = used + 1 /\ free' = Tail(ids)
      /\ wheel' = InsertNode(wheel, id, Timer(h, d).stamp)
      /\ events' = [events EXCEPT ![h] = @ \cup {id}]
      /\ UNCHANGED <<now, start, prev, scan>>
  BY <1>2, <1>3 DEF Schedule
<1>5. /\ ListOf(ids, (1 .. size' - 1) \ Listed) /\ (1 .. size' - 1) \ Listed # {}
      /\ size' \in Nat /\ size' >= size /\ used' \in 0 .. size' - 1
  <2>1. PICK n : n = size + Len(NewIds)
    OBVIOUS
  <2>2. ListOf(free \o NewIds, (1 .. n - 1) \ Listed)
    BY <2>1, IdsToTake
  <2>3. (1 .. n - 1) \ Listed # {} /\ n \in Nat /\ n >= size /\ used + 1 \in 0 .. n - 1
    BY <2>1, IdsToTake
  <2>4. size' = n
    BY <1>4, <2>1
  <2> QED
    BY <1>2, <1>4, <2>2, <2>3, <2>4
<1>6. id \in (1 .. size' - 1) \ Listed /\ ListOf(free', ((1 .. size' - 1) \ Listed) \ {id})
  BY <1>3, <1>4, <1>5, ListTakesOne
<1>7. size' \in PoolSize .. MaxHeap
  BY <1>4, <1>5, HeapHasIds, TypeParts
<1> QED
  BY <1>1, <1>4, <1>5, <1>6, <1>7 DEF AddsTimer

LEMMA ScheduleKeepsIds ==
  ASSUME IdsInv, NEW h \in Handlers, NEW d, Schedule(h, d)
  PROVE  IdsInv'
<1>1. d \in Nat
  BY ScheduleAdds
<1>2. PICK id : /\ AddsTimer(h, d, id)
                /\ ListOf(free', ((1 .. size' - 1) \ Listed) \ {id})
                /\ used' = used + 1 /\ used' \in 0 .. size' - 1 /\ size' \in PoolSize .. MaxHeap
  BY ScheduleAdds
<1>3. id \in (1 .. size' - 1) \ Listed /\ size' \in Nat /\ size' >= size
  BY <1>2 DEF AddsTimer
<1>4. Listed' = Listed \cup {id} /\ heap'[id] = Timer(h, d) /\ \A i \in Listed : heap'[i] = heap[i]
  BY <1>2, <1>3 DEF AddsTimer, Listed
<1>5. 1 .. size - 1 \subseteq 1 .. size' - 1
  BY <1>3, IdsFacts
<1>6. wheel' \in WheelsOf(1 .. size' - 1)
  <2>1. wheel \in WheelsOf(1 .. size' - 1)
    <3>1. wheel \in WheelsOf(1 .. size - 1)
      BY IdsFacts
    <3>2. SUBSET (1 .. size - 1) \subseteq SUBSET (1 .. size' - 1)
      BY <1>5
    <3> QED
      BY <3>1, <3>2 DEF WheelsOf
  <2> QED
    BY <1>1, <1>2, <1>3, <2>1, TimerIs, InsertIs DEF AddsTimer
<1>7. events' \in [Handlers -> SUBSET (1 .. size' - 1)]
  <2>1. events \in [Handlers -> SUBSET (1 .. size' - 1)]
    BY <1>5, TypeParts
  <2> QED
    BY <1>2, <1>3, <2>1 DEF AddsTimer
<1>8. ListOf(free', (1 .. size' - 1) \ Listed') /\ free' \in Seq(1 .. size' - 1)
  <2>1. ((1 .. size' - 1) \ Listed) \ {id} = (1 .. size' - 1) \ Listed'
    BY <1>4
  <2>2. ListOf(free', (1 .. size' - 1) \ Listed')
    BY <1>2, <2>1
  <2>3. (1 .. size' - 1) \ Listed' \subseteq 1 .. size' - 1
    OBVIOUS
  <2>4. free' \in Seq(1 .. size' - 1)
    BY <2>2, <2>3, ListWithin, Zenon
  <2> QED
    BY <2>2, <2>4
<1>9. used' = Cardinality(Listed')
  <2>1. Cardinality(Listed \cup {id}) = Cardinality(Listed) + 1
    BY <1>3, IdsFacts, FS_AddElement
  <2> QED
    BY <1>2, <1>4, <2>1 DEF IdsInv
<1>10. scan' \in Walks(now', size')
  <2>1. scan \in Walks(now, size) /\ size \in Nat
    BY TypeParts, IdsFacts
  <2>2. 0 .. size - 1 \subseteq 0 .. size' - 1
    <3>1. PICK a \in Nat, b \in Nat : a = size /\ b = size' /\ b >= a
      BY <1>3, <2>1
    <3>2. b >= a
      BY <3>1
    <3>3. 0 .. a - 1 \subseteq 0 .. b - 1
      BY <3>2
    <3> QED
      BY <3>1, <3>3
  <2>3. scan' = scan /\ now' = now
    BY <1>2 DEF AddsTimer
  <2>4. Walks(now, size) \subseteq Walks(now, size')
    BY <2>2 DEF Walks
  <2> QED
    BY <2>1, <2>3, <2>4
<1>11. TimersTypeOK'
  <2>1. Listed' \subseteq 1 .. size' - 1
    <3>1. Listed \subseteq 1 .. size - 1
      BY IdsFacts
    <3>2. id \in 1 .. size' - 1
      BY <1>3
    <3> QED
      BY <1>4, <1>5, <3>1, <3>2, Zenon
  <2>2. \A i \in Listed' : heap'[i] \in [handler : Handlers, stamp : 0 .. Span - 1, due : Nat]
    <3>1. Timer(h, d) \in [handler : Handlers, stamp : 0 .. Span - 1, due : Nat]
      BY <1>1, TimerIs
    <3>2. \A i \in Listed : heap[i] \in [handler : Handlers, stamp : 0 .. Span - 1, due : Nat]
      BY TypeParts
    <3> QED
      BY <1>4, <3>1, <3>2, Zenon
  <2>3. now' \in 0 .. MaxTime /\ start' \in 0 .. now' /\ prev' \in 0 .. now'
    BY <1>2, TypeParts DEF AddsTimer
  <2> QED
    BY <1>2, <1>6, <1>7, <1>8, <1>10, <2>1, <2>2, <2>3 DEF TimersTypeOK, WheelsOf, Walks
<1>12. ScanOK' /\ Firing' = Firing /\ Firing \subseteq Listed
  BY <1>2, <1>4 DEF AddsTimer, ScanOK, IdsInv, Firing
<1>13. ASSUME NEW g \in Handlers PROVE events'[g] = {i \in Listed' \ Firing' : heap'[i].handler = g}
  <2>1. events[g] = {i \in Listed \ Firing : heap[i].handler = g}
    BY DEF IdsInv
  <2>2. events'[g] = IF g = h THEN events[g] \cup {id} ELSE events[g]
    BY <1>2, TypeParts DEF AddsTimer
  <2>3. heap'[id].handler = h
    BY <1>1, <1>4, TimerIs
  <2>4. Listed' \ Firing' = (Listed \ Firing) \cup {id} /\ id \notin Listed
    BY <1>3, <1>4, <1>12
  <2> QED
    BY <1>4, <2>1, <2>2, <2>3, <2>4
<1> QED
  BY <1>8, <1>9, <1>11, <1>12, <1>13 DEF IdsInv

-----------------------------------------------------------------------------
(* Timers that are cancelled. *)

\* What a handler may still cancel or reset is not the timer whose callback runs.
LEMMA HeldTimers ==
  ASSUME IdsInv, NEW h \in Handlers
  PROVE  events[h] \subseteq Listed \ Firing /\ events[h] \subseteq 1 .. size - 1
         /\ \A id \in events[h] : heap[id].handler = h
<1>1. events[h] = {id \in Listed \ Firing : heap[id].handler = h}
  BY DEF IdsInv
<1> QED
  BY <1>1, IdsFacts

LEMMA CancelKeepsIds ==
  ASSUME IdsInv, NEW ids \in SUBSET (Listed \ Firing), CancelTimers(ids)
  PROVE  IdsInv' /\ Listed' = Listed \ ids /\ \A id \in Listed' : heap'[id] = heap[id]
<1>1. /\ heap' = Restrict(heap, Listed \ ids)
      /\ used' = IF used > Cardinality(ids) THEN used - Cardinality(ids) ELSE 0
      /\ free' = free \o InOrder(ids)
      /\ wheel' = DeleteNodes(wheel, ids)
      /\ events' = [h \in Handlers |-> events[h] \ {id \in ids : heap[id].handler = h}]
      /\ UNCHANGED <<now, start, prev, size, scan>>
  BY DEF CancelTimers
<1>2. ListOf(InOrder(ids), ids)
  <2>1. PICK b \in Nat : b = size
    BY IdsFacts
  <2>2. ids \subseteq 0 .. b
    BY <2>1, IdsFacts
  <2> QED
    BY <2>2, InOrderLists
<1>3. /\ Listed' = Listed \ ids
      /\ \A i \in Listed' : heap'[i] = heap[i] /\ heap'[i] \in [handler : Handlers, stamp : 0 .. Span - 1, due : Nat]
      /\ used' = Cardinality(Listed') /\ used' \in 0 .. size' - 1
      /\ ListOf(free', (1 .. size' - 1) \ Listed') /\ free' \in Seq(1 .. size' - 1)
  <2>1. ids \in SUBSET Listed
    OBVIOUS
  <2> QED
    BY <1>1, <1>2, <2>1, HeapWithout
<1>4. wheel' \in WheelsOf(1 .. size' - 1)
  <2>1. ids \subseteq Listed
    OBVIOUS
  <2> QED
    BY <1>1, <2>1, IdsFacts, DeleteIs
<1>5. events' \in [Handlers -> SUBSET (1 .. size' - 1)]
  BY <1>1, TypeParts
<1>6. TimersTypeOK'
  <2>1. Listed' \subseteq 1 .. size' - 1
    BY <1>1, <1>3, IdsFacts
  <2> QED
    BY <1>1, <1>3, <1>4, <1>5, <2>1, TypeParts DEF TimersTypeOK, WheelsOf, Walks
<1>7. ScanOK' /\ Firing' = Firing
  BY <1>1, <1>3 DEF ScanOK, IdsInv, Firing
<1>8. ASSUME NEW h \in Handlers PROVE events'[h] = {i \in Listed' \ Firing' : heap'[i].handler = h}
  <2>1. events[h] = {i \in Listed \ Firing : heap[i].handler = h}
    BY DEF IdsInv
  <2>2. events'[h] = events[h] \ {i \in ids : heap[i].handler = h}
    BY <1>1
  <2> QED
    BY <1>3, <1>7, <2>1, <2>2
<1> QED
  BY <1>3, <1>6, <1>7, <1>8 DEF IdsInv

LEMMA ResetKeepsIds ==
  ASSUME IdsInv, NEW h \in Handlers, NEW id \in events[h], NEW d, Reset(h, id, d)
  PROVE  /\ IdsInv' /\ d \in Nat /\ d \in AskedDelays /\ MayCall
         /\ id \in Listed \ Firing
         /\ Listed' = Listed /\ heap'[id] = Timer(h, d)
         /\ \A i \in Listed \ {id} : heap'[i] = heap[i]
         /\ wheel' = InsertNode(DeleteNodes(wheel, {id}), id, Timer(h, d).stamp)
         /\ UNCHANGED <<now, start, prev, size, used, free, events, scan>>
<1>1. id \in Listed \ Firing /\ heap[id].handler = h
  BY HeldTimers
<1>2. d \in Nat /\ d \in AskedDelays /\ MayCall
  BY DelaysAreTimes DEF Reset, AskedDelays
<1>3. /\ heap' = [heap EXCEPT ![id] = Timer(h, d)]
      /\ wheel' = InsertNode(DeleteNodes(wheel, {id}), id, Timer(h, d).stamp)
      /\ UNCHANGED <<now, start, prev, size, used, free, events, scan>>
  BY <1>1 DEF Reset
<1>4. Listed' = Listed /\ heap'[id] = Timer(h, d) /\ \A i \in Listed \ {id} : heap'[i] = heap[i]
  <2>1. PICK f, D : f = heap /\ D = DOMAIN f /\ D = Listed
    BY DEF Listed
  <2>2. PICK t : t = Timer(h, d)
    OBVIOUS
  <2>3. heap' = [f EXCEPT ![id] = t] /\ id \in D
    BY <1>1, <1>3, <2>1, <2>2
  <2>4. DOMAIN heap' = D
    BY <2>1, <2>3
  <2>5. heap'[id] = t
    BY <1>1, <1>3, <2>2 DEF Listed
  <2>6. \A i \in Listed \ {id} : heap'[i] = heap[i]
    BY <1>3 DEF Listed
  <2> QED
    BY <2>1, <2>2, <2>4, <2>5, <2>6 DEF Listed
<1>5. wheel' \in WheelsOf(1 .. size' - 1)
  <2>1. DeleteNodes(wheel, {id}) \in WheelsOf(1 .. size - 1)
    <3>1. {id} \subseteq Listed
      BY <1>1
    <3> QED
      BY <3>1, IdsFacts, DeleteIs
  <2>2. id \in 1 .. size - 1
    BY <1>1, IdsFacts
  <2>3. Timer(h, d).stamp \in Nat
    BY <1>2, TimerIs
  <2> QED
    BY <1>3, <2>1, <2>2, <2>3, InsertIs
<1>6. \A i \in Listed' : heap'[i] \in [handler : Handlers, stamp : 0 .. Span - 1, due : Nat]
  <2>1. Timer(h, d) \in [handler : Handlers, stamp : 0 .. Span - 1, due : Nat]
    BY <1>2, TimerIs
  <2>2. \A i \in Listed : heap[i] \in [handler : Handlers, stamp : 0 .. Span - 1, due : Nat]
    BY TypeParts
  <2> QED
    BY <1>4, <2>1, <2>2, Zenon
<1>7. TimersTypeOK'
  <2>1. Listed' \subseteq 1 .. size' - 1
    BY <1>3, <1>4, IdsFacts
  <2> QED
    BY <1>3, <1>5, <1>6, <2>1, TypeParts DEF TimersTypeOK, WheelsOf, Walks
<1>8. ScanOK' /\ Firing' = Firing
  BY <1>3, <1>4 DEF ScanOK, IdsInv, Firing
<1>9. \A i \in Listed : heap'[i].handler = heap[i].handler
  <2>1. heap'[id].handler = h
    BY <1>2, <1>4, TimerIs
  <2> QED
    BY <1>1, <1>4, <2>1
<1>10. ASSUME NEW g \in Handlers PROVE events'[g] = {i \in Listed' \ Firing' : heap'[i].handler = g}
  <2>1. events[g] = {i \in Listed \ Firing : heap[i].handler = g}
    BY DEF IdsInv
  <2> QED
    BY <1>3, <1>4, <1>8, <1>9, <2>1
<1>11. used' = Cardinality(Listed') /\ ListOf(free', (1 .. size' - 1) \ Listed')
  BY <1>3, <1>4 DEF IdsInv
<1> QED
  BY <1>1, <1>2, <1>3, <1>4, <1>7, <1>8, <1>10, <1>11 DEF IdsInv

\* What an application cancels is held by a handler.
LEMMA CancelledAreHeld ==
  ASSUME IdsInv, NEW h \in Handlers,
         ClearTimerEvents(h) \/ \E id \in events[h] : Cancel(h, id)
  PROVE  MayCall /\ \E ids \in SUBSET (Listed \ Firing) : CancelTimers(ids)
<1>1. events[h] \subseteq Listed \ Firing
  BY HeldTimers
<1>2. CASE ClearTimerEvents(h)
  <2>1. MayCall /\ CancelTimers(events[h] \cap Listed)
    BY <1>2 DEF ClearTimerEvents
  <2>2. events[h] \cap Listed \in SUBSET (Listed \ Firing)
    BY <1>1
  <2> QED
    BY <2>1, <2>2
<1>3. CASE \E id \in events[h] : Cancel(h, id)
  <2>1. PICK id \in events[h] : Cancel(h, id)
    BY <1>3
  <2>2. MayCall /\ CancelTimers({id})
    BY <2>1 DEF Cancel
  <2>3. {id} \in SUBSET (Listed \ Firing)
    BY <1>1
  <2> QED
    BY <2>2, <2>3
<1> QED
  BY <1>2, <1>3

LEMMA StutterKeepsIds == ASSUME IdsInv, UNCHANGED timerVars PROVE IdsInv'
<1>1. UNCHANGED <<now, start, prev, wheel, heap, size, used, free, events, scan>>
  BY DEF timerVars
<1>2. TimersTypeOK' /\ ScanOK' /\ Firing' = Firing
  BY <1>1 DEF IdsInv, TimersTypeOK, ScanOK, Firing, Listed
<1> QED
  BY <1>1, <1>2, IdsKept

LEMMA TimersKeepIds == IdsInv /\ [TimersNext]_timerVars => IdsInv'
<1> SUFFICES ASSUME IdsInv, [TimersNext]_timerVars PROVE IdsInv'
  OBVIOUS
<1>1. CASE Tick \/ Begin \/ Fire \/ Return \/ Advance \/ SlotDone
  BY <1>1, TickKeepsIds, BeginKeepsIds, FireKeepsIds, ReturnKeepsIds, AdvanceKeepsIds, SlotDoneKeepsIds
<1>2. ASSUME NEW h \in Handlers, NEW d \in Delays \cup CallDelays, Schedule(h, d) PROVE IdsInv'
  BY <1>2, ScheduleKeepsIds
<1>3. ASSUME NEW h \in Handlers, ClearTimerEvents(h) PROVE IdsInv'
  BY <1>3, CancelledAreHeld, CancelKeepsIds
<1>4. ASSUME NEW h \in Handlers, NEW id \in events[h], Cancel(h, id) PROVE IdsInv'
  BY <1>4, CancelledAreHeld, CancelKeepsIds
<1>5. ASSUME NEW h \in Handlers, NEW id \in events[h], NEW d \in Delays \cup CallDelays, Reset(h, id, d)
      PROVE  IdsInv'
  BY <1>5, ResetKeepsIds
<1>6. CASE UNCHANGED timerVars
  BY <1>6, StutterKeepsIds
<1> QED
  BY <1>1, <1>2, <1>3, <1>4, <1>5, <1>6 DEF TimersNext

-----------------------------------------------------------------------------
(* Timers, slots and the moment that is scanned. *)

\* The moment up to which the rings above ring 0 have turned.
Passed == IF scan.phase = "idle" THEN prev ELSE scan.until - scan.left

\* What waits in a slot of wheel w, for the walk as it is.
Waits(w, k, s) ==
  IF k = 0 /\ s = w.pos[0] /\ scan.phase # "idle"
  THEN {id \in w.slot[0][w.pos[0]] : id > scan.cur} ELSE w.slot[k][s]

Standing == Stand(wheel.pos, Reached, Passed)

\* What waits is due now or later, within a turn of the highest ring.
Timely == \A id \in Listed \ Firing : DueFrom(Reached, heap[id].due, heap[id].stamp)

\* What waits is in its place, and nowhere else.
Sorted ==
  \A k \in Rings, s \in Slots :
    Waiting(k, s) = {id \in Listed \ Firing : Place(wheel.pos, heap[id].stamp) = <<k, s>>}

\* Who is called is due now.
InTurn == scan.calling => heap[scan.cur].due = Reached

SlotsInv == start = 0 => Standing /\ Timely /\ Sorted /\ InTurn

LEMMA WaitingIs == \A k, s : Waiting(k, s) = Waits(wheel, k, s)
BY DEF Waiting, Waits, Ahead

LEMMA WaitingNext == scan' = scan => \A k, s : Waiting(k, s)' = Waits(wheel', k, s)
BY DEF Waiting, Waits, Ahead

LEMMA SlotsStart == TimersInit => SlotsInv
<1> SUFFICES ASSUME TimersInit PROVE SlotsInv
  OBVIOUS
<1>1. scan.phase = "idle" /\ scan.calling = FALSE /\ prev = 0 /\ Listed = {}
  BY DEF TimersInit, Idle, Listed
<1>2. Reached = 0 /\ Passed = 0
  BY <1>1 DEF Reached, Passed
<1>3. Standing
  <2>1. wheel.pos = [k \in Rings |-> 0]
    BY DEF TimersInit
  <2>2. ASSUME NEW k \in Rings PROVE Digit(0, k) = 0
    <3>1. PICK w \in Nat \ {0} : w = RoundWidth[k]
      BY RingFacts, WidthsArePositive
    <3>2. w * 0 = 0
      OBVIOUS
    <3>3. 0 \div w = 0
      BY <3>2, QuotientIs
    <3>4. Quot(0, k) = 0
      BY <3>1, <3>3 DEF Quot
    <3>5. 0 % SlotCount = 0
      <4>1. PICK p \in Nat \ {0} : p = SlotCount
        BY RingsTurn
      <4>2. (p * 0 + 0) % p = 0 /\ p * 0 + 0 = 0
        BY RemainderIs
      <4> QED
        BY <4>1, <4>2
    <3> QED
      BY <3>4, <3>5 DEF Digit
  <2>3. 0 % SlotCount = 0
    <3>1. 0 \in Rings /\ Digit(0, 0) = 0
      BY <2>2, RingFacts
    <3> QED
      BY <3>1, SameRemainder
  <2>4. 0 < Span
    BY SpanFacts
  <2> QED
    BY <1>2, <2>1, <2>2, <2>3, <2>4, RingFacts DEF Standing, Stand
<1>4. Timely /\ InTurn
  BY <1>1 DEF Timely, InTurn
<1>5. Sorted
  <2>1. \A k \in Rings, s \in Slots : Waiting(k, s) = {}
    BY <1>1 DEF Waiting, TimersInit
  <2> QED
    BY <1>1, <2>1 DEF Sorted
<1> QED
  BY <1>3, <1>4, <1>5 DEF SlotsInv

\* A step that changes nothing of what the slots say.
LEMMA SlotsKept ==
  ASSUME SlotsInv, start' = start, Reached' = Reached, Passed' = Passed, wheel'.pos = wheel.pos,
         Listed' \ Firing' = Listed \ Firing, \A id \in Listed \ Firing : heap'[id] = heap[id],
         \A k \in Rings, s \in Slots : Waiting(k, s)' = Waiting(k, s), InTurn'
  PROVE  SlotsInv'
<1> SUFFICES ASSUME start = 0 PROVE Standing' /\ Timely' /\ Sorted'
  BY DEF SlotsInv
<1>1. Standing /\ Timely /\ Sorted
  BY DEF SlotsInv
<1>2. Standing'
  BY <1>1 DEF Standing, Stand
<1>3. Timely'
  BY <1>1 DEF Timely
<1>4. Sorted'
  BY <1>1 DEF Sorted
<1> QED
  BY <1>2, <1>3, <1>4

LEMMA TickKeepsSlots == ASSUME SlotsInv, Tick PROVE SlotsInv'
<1>1. UNCHANGED <<start, prev, wheel, heap, scan>>
  BY DEF Tick
<1>2. /\ Reached' = Reached /\ Passed' = Passed /\ Listed' = Listed /\ Firing' = Firing
      /\ \A k \in Rings, s \in Slots : Waiting(k, s)' = Waiting(k, s)
  BY <1>1 DEF Reached, Passed, Listed, Firing, Waiting, Ahead
<1>3. start = 0 => InTurn'
  BY <1>1, <1>2 DEF SlotsInv, InTurn
<1>4. CASE start = 0
  BY <1>1, <1>2, <1>3, <1>4, SlotsKept
<1>5. CASE start # 0
  BY <1>1, <1>5 DEF SlotsInv
<1> QED
  BY <1>4, <1>5

LEMMA StutterKeepsSlots == ASSUME SlotsInv, UNCHANGED timerVars PROVE SlotsInv'
<1>1. UNCHANGED <<start, prev, wheel, heap, scan>>
  BY DEF timerVars
<1>2. /\ Reached' = Reached /\ Passed' = Passed /\ Listed' = Listed /\ Firing' = Firing
      /\ \A k \in Rings, s \in Slots : Waiting(k, s)' = Waiting(k, s)
  BY <1>1 DEF Reached, Passed, Listed, Firing, Waiting, Ahead
<1>3. start = 0 => InTurn'
  BY <1>1, <1>2 DEF SlotsInv, InTurn
<1>4. CASE start = 0
  BY <1>1, <1>2, <1>3, <1>4, SlotsKept
<1>5. CASE start # 0
  BY <1>1, <1>5 DEF SlotsInv
<1> QED
  BY <1>4, <1>5

LEMMA BeginKeepsSlots == ASSUME IdsInv, SlotsInv, Begin PROVE SlotsInv'
<1>1. scan = Idle /\ scan.phase = "idle" /\ ~ scan.calling
  BY DEF IdsInv, ScanOK, Begin, Idle
<1>2. PICK l \in Nat, u \in Nat : l = now - prev /\ u = now /\ u - l = prev /\ now \in Nat /\ prev \in Nat
  BY TypeParts DEF Begin
<1>3. /\ scan'.phase = "old" /\ scan'.left = l /\ scan'.until = u /\ scan'.cur = 0 /\ scan'.calling = FALSE
      /\ UNCHANGED <<start, wheel, heap>>
  <2>1. scan' = [Idle EXCEPT !.phase = "old", !.left = l, !.until = u]
    BY <1>2 DEF Begin
  <2>2. Idle = [phase |-> "idle", left |-> 0, until |-> 0, cur |-> 0, calling |-> FALSE]
    BY DEF Idle
  <2>3. UNCHANGED <<start, wheel, heap>>
    BY DEF Begin
  <2> HIDE DEF Idle
  <2> QED
    BY <2>1, <2>2, <2>3
<1>4. Reached' = Reached /\ Passed' = Passed
  <2>1. Reached = prev /\ Passed = prev
    BY <1>1 DEF Reached, Passed
  <2>2. Reached' = u - l + 0 /\ Passed' = u - l
    BY <1>3 DEF Reached, Passed
  <2> QED
    BY <1>2, <2>1, <2>2
<1>5. Listed' = Listed /\ Firing' = Firing /\ InTurn'
  BY <1>1, <1>3 DEF Listed, Firing, InTurn
<1>6. ASSUME NEW k \in Rings, NEW s \in Slots PROVE Waiting(k, s)' = Waiting(k, s)
  <2>1. Waiting(k, s) = wheel.slot[k][s] /\ wheel.slot[k][s] \subseteq 1 .. size - 1
    BY <1>1, IdsFacts, WheelParts DEF Waiting
  <2>2. {id \in wheel.slot[k][s] : id > 0} = wheel.slot[k][s]
    BY <2>1, IdsFacts
  <2>3. Waiting(k, s)' = IF k = 0 /\ s = wheel.pos[0] THEN {id \in wheel.slot[0][wheel.pos[0]] : id > 0}
                         ELSE wheel.slot[k][s]
    BY <1>3 DEF Waiting, Ahead
  <2> QED
    BY <2>1, <2>2, <2>3
<1>7. CASE start = 0
  BY <1>3, <1>4, <1>5, <1>6, <1>7, SlotsKept
<1>8. CASE start # 0
  BY <1>3, <1>8 DEF SlotsInv
<1> QED
  BY <1>7, <1>8

LEMMA ReturnKeepsSlots == ASSUME IdsInv, SlotsInv, Return PROVE SlotsInv'
<1>1. /\ scan.calling /\ scan' = [scan EXCEPT !.calling = FALSE]
      /\ heap' = Restrict(heap, Listed \ {scan.cur})
      /\ UNCHANGED <<start, prev, wheel>>
  BY DEF Return
<1>2. /\ scan'.phase = scan.phase /\ scan'.left = scan.left /\ scan'.until = scan.until
      /\ scan'.cur = scan.cur /\ scan'.calling = FALSE
  <2>1. scan = [phase |-> scan.phase, left |-> scan.left, until |-> scan.until,
                    cur |-> scan.cur, calling |-> scan.calling]
    BY IdsFacts
  <2> QED
    BY <1>1, <2>1
<1>3. Listed' \ Firing' = Listed \ Firing /\ \A id \in Listed \ Firing : heap'[id] = heap[id]
  <2>1. Listed' = Listed \ {scan.cur} /\ \A id \in Listed \ {scan.cur} : heap'[id] = heap[id]
    BY <1>1 DEF Listed, Restrict
  <2>2. Firing = {scan.cur} /\ Firing' = {}
    BY <1>1, <1>2 DEF Firing
  <2> QED
    BY <2>1, <2>2
<1>4. /\ Reached' = Reached /\ Passed' = Passed /\ InTurn'
      /\ \A k \in Rings, s \in Slots : Waiting(k, s)' = Waiting(k, s)
  BY <1>1, <1>2 DEF Reached, Passed, InTurn, Waiting, Ahead
<1>5. wheel'.pos = wheel.pos /\ start' = start
  BY <1>1
<1>6. CASE start = 0
  BY <1>3, <1>4, <1>5, <1>6, SlotsKept
<1>7. CASE start # 0
  BY <1>5, <1>7 DEF SlotsInv
<1> QED
  BY <1>6, <1>7

\* What is scanned waits in the slot where ring 0 stands.
LEMMA AheadWaits ==
  ASSUME scan.phase # "idle", wheel.pos[0] \in Slots, Sorted
  PROVE  Ahead = {id \in Listed \ Firing : Place(wheel.pos, heap[id].stamp) = <<0, wheel.pos[0]>>}
<1>1. Waiting(0, wheel.pos[0]) = Ahead
  BY DEF Waiting
<1> QED
  BY <1>1, RingFacts DEF Sorted

LEMMA FireKeepsSlots == ASSUME IdsInv, SlotsInv, Fire PROVE SlotsInv'
<1> SUFFICES ASSUME start = 0 PROVE SlotsInv'
  BY DEF SlotsInv, Fire
<1>1. Standing /\ Timely /\ Sorted
  BY DEF SlotsInv
<1>2. PICK id : id = Min(Ahead) /\ id \in Ahead /\ \A i \in Ahead : id <= i
  <2>1. Ahead # {}
    BY DEF Fire
  <2> QED
    BY <2>1, AheadIs
<1>3. wheel.pos[0] \in Slots /\ scan.phase # "idle" /\ ~ scan.calling
  <2>1. wheel.pos \in [Rings -> Slots]
    BY IdsFacts, WheelParts
  <2> QED
    BY <2>1, RingFacts DEF Fire
<1>4. id \in Listed \ Firing /\ Place(wheel.pos, heap[id].stamp) = <<0, wheel.pos[0]>>
  BY <1>1, <1>2, <1>3, AheadWaits
<1>5. scan' = [scan EXCEPT !.cur = id, !.calling = TRUE] /\ UNCHANGED <<start, prev, wheel, heap>>
  <2>1. (id \in Listed) = TRUE
    BY <1>4
  <2> QED
    BY <1>2, <1>4, <2>1 DEF Fire
<1>6. /\ scan'.phase = scan.phase /\ scan'.left = scan.left /\ scan'.until = scan.until
      /\ scan'.cur = id /\ scan'.calling = TRUE
  <2>1. scan = [phase |-> scan.phase, left |-> scan.left, until |-> scan.until,
                    cur |-> scan.cur, calling |-> scan.calling]
    BY IdsFacts
  <2> QED
    BY <1>5, <2>1
<1>7. Reached' = Reached /\ Passed' = Passed
  BY <1>5, <1>6 DEF Reached, Passed
<1>8. Listed' = Listed /\ Firing = {} /\ Firing' = {id}
  BY <1>3, <1>5, <1>6 DEF Listed, Firing
<1>9. heap[id].due = Reached
  BY <1>1, <1>4, DueNow DEF Standing, Timely
<1>10. InTurn'
  BY <1>5, <1>6, <1>7, <1>9 DEF InTurn
<1>11. Standing' /\ Timely'
  <2>1. Standing'
    BY <1>1, <1>5, <1>7 DEF Standing, Stand
  <2>2. Timely'
    BY <1>1, <1>5, <1>7, <1>8 DEF Timely
  <2> QED
    BY <2>1, <2>2
<1>12. ASSUME NEW k \in Rings, NEW s \in Slots
       PROVE  Waiting(k, s)' = Waiting(k, s) \ {id}
  <2>1. CASE k = 0 /\ s = wheel.pos[0]
    <3>1. Waiting(k, s)' = {i \in wheel.slot[0][wheel.pos[0]] : i > id}
      BY <1>3, <1>5, <1>6, <2>1 DEF Waiting, Ahead
    <3>2. Waiting(k, s) = Ahead
      BY <1>3, <2>1 DEF Waiting
    <3>3. wheel.slot[0][wheel.pos[0]] \subseteq Nat /\ Ahead \subseteq Nat /\ scan.cur \in Nat
      <4>1. wheel.slot[0][wheel.pos[0]] \subseteq 1 .. size - 1
        BY <1>3, IdsFacts, WheelParts, RingFacts
      <4> QED
        BY <4>1, IdsFacts
    <3>4. {i \in wheel.slot[0][wheel.pos[0]] : i > id} = Ahead \ {id}
      <4>1. ASSUME NEW i \in wheel.slot[0][wheel.pos[0]] PROVE i > id <=> i \in Ahead \ {id}
        <5>1. i \in Nat /\ id \in Nat /\ scan.cur \in Nat /\ id > scan.cur
          BY <1>2, <3>3 DEF Ahead
        <5>2. i \in Ahead <=> i > scan.cur
          BY DEF Ahead
        <5>3. i \in Ahead => id <= i
          BY <1>2
        <5> QED
          BY <5>1, <5>2, <5>3
      <4> QED
        BY <4>1 DEF Ahead
    <3> QED
      BY <3>1, <3>2, <3>4
  <2>2. CASE ~ (k = 0 /\ s = wheel.pos[0])
    <3>1. Waiting(k, s)' = Waiting(k, s)
      BY <1>5, <2>2 DEF Waiting
    <3>2. <<k, s>> # <<0, wheel.pos[0]>>
      BY <2>2
    <3>3. id \notin Waiting(k, s)
      BY <1>1, <1>4, <3>2 DEF Sorted
    <3> QED
      BY <3>1, <3>3
  <2> QED
    BY <2>1, <2>2
<1>13. Sorted'
  BY <1>1, <1>5, <1>8, <1>12 DEF Sorted
<1> QED
  BY <1>10, <1>11, <1>13 DEF SlotsInv

\* The slot that is through holds nothing that waits.
LEMMA ClearedWaits ==
  ASSUME IdsInv, Sorted, scan.phase # "idle", ~ scan.calling, Ahead = {}
  PROVE  /\ \A k \in Rings, s \in Slots : Cleared.slot[k][s] = Waiting(k, s)
         /\ Cleared \in WheelsOf(1 .. size - 1) /\ Cleared.pos = wheel.pos
         /\ Firing = {} /\ PlacedIn(Cleared)
<1>1. /\ Cleared \in WheelsOf(1 .. size - 1) /\ Cleared.pos = wheel.pos
      /\ \A k \in Rings, s \in Slots :
           Cleared.slot[k][s] = IF k = 0 /\ s = wheel.pos[0] THEN {} ELSE wheel.slot[k][s]
  BY IdsFacts, ClearedIs
<1>2. \A k \in Rings, s \in Slots :
        Waiting(k, s) = IF k = 0 /\ s = wheel.pos[0] THEN {} ELSE wheel.slot[k][s]
  BY DEF Waiting
<1>3. Firing = {}
  BY DEF Firing
<1>4. ASSUME NEW k \in Rings, NEW s \in Slots PROVE Cleared.slot[k][s] = Waiting(k, s)
  <2>1. Cleared.slot[k][s] = IF k = 0 /\ s = wheel.pos[0] THEN {} ELSE wheel.slot[k][s]
    BY <1>1
  <2>2. Waiting(k, s) = IF k = 0 /\ s = wheel.pos[0] THEN {} ELSE wheel.slot[k][s]
    BY <1>2
  <2> QED
    BY <2>1, <2>2
<1>5. PlacedIn(Cleared)
  BY <1>1, <1>3, <1>4 DEF PlacedIn, Sorted
<1> QED
  BY <1>1, <1>3, <1>4, <1>5

\* A walk that begins a slot waits for all of it.
LEMMA WaitsAll ==
  ASSUME NEW w \in WheelsOf(1 .. size - 1), size \in Nat, wheel' = w,
         scan'.phase = "idle" \/ scan'.cur = 0
  PROVE  \A k \in Rings, s \in Slots : Waiting(k, s)' = w.slot[k][s]
<1> SUFFICES ASSUME NEW k \in Rings, NEW s \in Slots PROVE Waiting(k, s)' = w.slot[k][s]
  OBVIOUS
<1>1. CASE k = 0 /\ s = w.pos[0] /\ scan'.phase # "idle"
  <2>1. Waiting(k, s)' = {id \in w.slot[k][s] : id > 0}
    BY <1>1 DEF Waiting, Ahead
  <2>2. w.slot[k][s] \subseteq 1 .. size - 1
    BY WheelParts
  <2> QED
    BY <2>1, <2>2
<1>2. CASE ~ (k = 0 /\ s = w.pos[0] /\ scan'.phase # "idle")
  BY <1>2 DEF Waiting
<1> QED
  BY <1>1, <1>2

LEMMA AdvanceKeepsSlots == ASSUME IdsInv, SlotsInv, Advance PROVE SlotsInv'
<1> SUFFICES ASSUME start = 0 PROVE SlotsInv'
  BY DEF SlotsInv, Advance
<1>1. Standing /\ Timely /\ Sorted
  BY DEF SlotsInv
<1>2. /\ scan.phase = "old" /\ scan.phase # "idle" /\ ~ scan.calling /\ Ahead = {}
      /\ UNCHANGED <<start, prev, heap>>
  BY DEF Advance
<1>3. /\ \A k \in Rings, s \in Slots : Cleared.slot[k][s] = Waiting(k, s)
      /\ Cleared \in WheelsOf(1 .. size - 1) /\ Cleared.pos = wheel.pos
      /\ Firing = {}
  BY <1>1, <1>2, ClearedWaits
<1>4. scan' = [phase |-> "new", left |-> scan.left, until |-> scan.until, cur |-> 0, calling |-> scan.calling]
  BY IdsFacts DEF Advance
<1>5. PICK r \in Nat : Reached = r /\ Passed = r /\ scan.until - scan.left = r
  <2>1. Reached = scan.until - scan.left + 0 /\ Passed = scan.until - scan.left
    BY <1>2 DEF Reached, Passed
  <2>2. Reached \in Nat /\ Passed \in Nat
    BY <1>1 DEF Standing, Stand
  <2>3. scan.until \in Nat /\ scan.left \in Nat
    BY IdsFacts
  <2> QED
    BY <2>1, <2>2, <2>3
<1>6. Reached' = r + 1 /\ Passed' = r
  BY <1>4, <1>5 DEF Reached, Passed
<1>7. /\ wheel'.pos[0] = (wheel.pos[0] + 1) % SlotCount
      /\ \A k \in Rings \ {0} : wheel'.pos[k] = wheel.pos[k]
      /\ wheel'.slot = Cleared.slot /\ wheel' \in WheelsOf(1 .. size - 1)
  <2>1. PICK p : p = TurnedAt(wheel.pos, 0)
    OBVIOUS
  <2>2. wheel' = [pos |-> p, slot |-> Cleared.slot]
    <3>1. Cleared = [pos |-> wheel.pos, slot |-> Cleared.slot]
      BY <1>3, WheelParts
    <3>2. wheel' = [Cleared EXCEPT !.pos[0] = (@ + 1) % SlotCount]
      BY DEF Advance
    <3> QED
      BY <2>1, <3>1, <3>2 DEF TurnedAt
  <2>3. wheel.pos \in [Rings -> Slots] /\ 0 \in Rings
    BY IdsFacts, WheelParts, RingFacts
  <2>4. p \in [Rings -> Slots] /\ p[0] = (wheel.pos[0] + 1) % SlotCount /\ \A k \in Rings : k # 0 => p[k] = wheel.pos[k]
    BY <2>1, <2>3, TurnedPos
  <2>5. wheel' \in WheelsOf(1 .. size - 1)
    BY <1>3, <2>2, <2>4, WheelParts DEF WheelsOf
  <2> QED
    BY <2>2, <2>4, <2>5
<1>8. Standing'
  <2>1. r < Span /\ wheel.pos[0] = r % SlotCount /\ \A k \in Rings \ {0} : wheel.pos[k] = Digit(r, k)
    BY <1>1, <1>5 DEF Standing, Stand
  <2>2. ((r % SlotCount) + 1) % SlotCount = (r + 1) % SlotCount
    <3>1. 0 \in Rings /\ Carry(r, 0)
      BY RingFacts DEF Carry
    <3>2. Digit(r + 1, 0) = (Digit(r, 0) + 1) % SlotCount
      BY <3>1, DigitsCountOn
    <3>3. r + 1 \in Nat
      OBVIOUS
    <3> QED
      BY <3>2, <3>3, SameRemainder
  <2>3. r + 1 \in Nat
    OBVIOUS
  <2> QED
    BY <1>6, <1>7, <2>1, <2>2, <2>3 DEF Standing, Stand
<1>9. ASSUME NEW id \in Listed PROVE DueFrom(r + 1, heap[id].due, heap[id].stamp)
  <2>1. DueFrom(r, heap[id].due, heap[id].stamp)
    BY <1>1, <1>3, <1>5 DEF Timely
  <2>2. heap[id].due # r
    <3>1. SUFFICES ASSUME heap[id].due = r PROVE FALSE
      OBVIOUS
    <3>2. Stand(wheel.pos, r, r) /\ DueFrom(r, r, heap[id].stamp)
      BY <1>1, <1>5, <2>1, <3>1 DEF Standing
    <3>3. Place(wheel.pos, heap[id].stamp) = <<0, wheel.pos[0]>>
      BY <3>2, NowIsPlaced
    <3>4. wheel.pos[0] \in Slots
      <4>1. wheel.pos \in [Rings -> Slots]
        BY IdsFacts, WheelParts
      <4> QED
        BY <4>1, RingFacts
    <3>5. Ahead = {i \in Listed \ Firing : Place(wheel.pos, heap[i].stamp) = <<0, wheel.pos[0]>>}
      BY <1>1, <1>2, <3>4, AheadWaits
    <3>6. id \in Ahead
      BY <1>3, <3>3, <3>5
    <3> QED
      BY <1>2, <3>6
  <2>3. PICK due \in Nat, p \in Nat, top \in Nat : due = heap[id].due /\ p = Span /\ top = RoundWidth[RingCount - 1]
    BY <2>1, SpanFacts DEF DueFrom
  <2>4. r <= due /\ due < r + p - top
    BY <2>1, <2>3 DEF DueFrom
  <2>5. r + 1 <= due /\ due < r + 1 + p - top
    BY <2>2, <2>3, <2>4
  <2> QED
    BY <2>1, <2>3, <2>5 DEF DueFrom
<1>10. Listed' = Listed /\ Firing' = {} /\ InTurn'
  BY <1>2, <1>4 DEF Listed, Firing, InTurn
<1>11. Timely'
  BY <1>2, <1>6, <1>9, <1>10 DEF Timely
<1>12. Sorted'
  <2>1. \A k \in Rings, s \in Slots : Waiting(k, s)' = Waiting(k, s)
    <3>1. size \in Nat
      BY IdsFacts
    <3>2. \A k \in Rings, s \in Slots : Waiting(k, s)' = wheel'.slot[k][s]
      BY <1>4, <1>7, <3>1, WaitsAll
    <3> QED
      BY <1>3, <1>7, <3>2
  <2>2. ASSUME NEW id \in Listed
        PROVE  Place(wheel'.pos, heap[id].stamp) = Place(wheel.pos, heap[id].stamp)
    <3>1. heap[id].stamp \in Nat
      BY IdsFacts DEF StampsAreNat
    <3> QED
      BY <1>7, <3>1, PlaceAboveZero
  <2> QED
    BY <1>1, <1>2, <1>3, <1>10, <2>1, <2>2 DEF Sorted
<1> QED
  BY <1>8, <1>10, <1>11, <1>12 DEF SlotsInv

\* The rings above ring 0 turn with the moment that follows a multiple of SlotCount.
LEMMA CarryIsTurn ==
  ASSUME NEW v \in Nat
  PROVE  /\ Carry(v, 1) <=> (v + 1) % SlotCount = 0
         /\ ~ Carry(v, 1) => \A k \in Rings \ {0} : Digit(v + 1, k) = Digit(v, k)
         /\ v + 1 = Span => Carry(v, RingCount)
<1>1. 0 \in Rings /\ v + 1 \in Nat /\ Digit(v, 0) \in Slots
  BY RingFacts, QuotFacts
<1>2. (v + 1) % SlotCount = (Digit(v, 0) + 1) % SlotCount
  <2>1. Carry(v, 0)
    BY RingFacts DEF Carry
  <2> QED
    BY <1>1, <2>1, DigitsCountOn, SameRemainder
<1>3. Carry(v, 1) <=> Digit(v, 0) = SlotCount - 1
  <2>1. \A j \in Rings : j < 1 <=> j = 0
    BY DEF Rings
  <2> QED
    BY <1>1, <2>1 DEF Carry
<1>4. (Digit(v, 0) + 1) % SlotCount = 0 <=> Digit(v, 0) = SlotCount - 1
  <2>1. PICK s \in Nat, d \in Nat : s = SlotCount /\ d = Digit(v, 0) /\ s >= 2 /\ d \in 0 .. s - 1
    <3>1. Digit(v, 0) \in 0 .. SlotCount - 1
      BY <1>1 DEF Slots
    <3> QED
      BY <3>1, RingsTurn
  <2>2. CASE d = s - 1
    <3>1. (s * 1 + 0) % s = 0
      BY <2>1, RemainderIs
    <3>2. s * 1 + 0 = d + 1
      BY <2>1, <2>2
    <3> QED
      BY <2>1, <2>2, <3>1, <3>2
  <2>3. CASE d # s - 1
    <3>1. d + 1 \in 0 .. s - 1
      BY <2>1, <2>3
    <3>2. (s * 0 + (d + 1)) % s = d + 1
      BY <2>1, <3>1, RemainderIs
    <3>3. s * 0 + (d + 1) = d + 1 /\ d + 1 # 0
      BY <2>1
    <3> QED
      BY <2>1, <2>3, <3>2, <3>3
  <2> QED
    BY <2>2, <2>3
<1>5. ASSUME ~ Carry(v, 1), NEW k \in Rings \ {0} PROVE Digit(v + 1, k) = Digit(v, k)
  <2>1. 0 < k /\ k \in Rings
    BY DEF Rings
  <2>2. ~ Carry(v, k)
    <3>1. Digit(v, 0) # SlotCount - 1
      BY <1>3, <1>5
    <3> QED
      BY <1>1, <2>1, <3>1 DEF Carry
  <2> QED
    BY <2>1, <2>2, DigitsCountOn
<1>6. ASSUME v + 1 = Span, ~ Carry(v, RingCount) PROVE FALSE
  <2>1. RingCount \in 0 .. RingCount
    BY RingFacts
  <2>2. Quot(v + 1, RingCount) = Quot(v, RingCount)
    <3>1. CountsOn(v, RingCount)
      BY <2>1, CountingOn
    <3> QED
      BY <1>6, <3>1 DEF CountsOn
  <2>3. PICK p \in Nat \ {0} : p = Span /\ p = RoundWidth[RingCount]
    BY SpanFacts DEF Span
  <2>4. v < Span /\ Quot(v, RingCount) = 0
    <3>1. v < Span
      BY <1>6, <2>3
    <3> QED
      BY <3>1, QuotEnds
  <2>5. p \div p = 1
    <3>1. p * 1 <= p /\ p < p * 1 + p /\ p \in Nat
      BY <2>3
    <3> QED
      BY <3>1, QuotientIs
  <2>6. Quot(v + 1, RingCount) = 1
    BY <1>6, <2>3, <2>5 DEF Quot
  <2> QED
    BY <2>2, <2>4, <2>6
<1> QED
  BY <1>2, <1>3, <1>4, <1>5, <1>6

\* What the rings hold when a new slot is through, up to the first full turn.
LEMMA TurnKeepsPlaces ==
  ASSUME IdsInv, start = 0, Standing, Timely, Sorted, SlotDone, start' = 0
  PROVE  /\ PlacedIn(wheel') /\ wheel' \in WheelsOf(1 .. size - 1)
         /\ Stand(wheel'.pos, Reached, Reached) /\ Firing = {}
<1>1. /\ scan.phase = "new" /\ scan.phase # "idle" /\ ~ scan.calling /\ Ahead = {}
      /\ wheel' = IF wheel.pos[0] = 0 THEN Cascade(Cleared) ELSE Cleared
      /\ start' = IF wheel.pos[0] = 0 /\ FullTurn(wheel) THEN now ELSE start
  BY DEF SlotDone
<1>2. /\ Cleared \in WheelsOf(1 .. size - 1) /\ Cleared.pos = wheel.pos
      /\ Firing = {} /\ PlacedIn(Cleared)
  BY <1>1, ClearedWaits
<1>3. PICK v \in Nat : /\ Passed = v /\ Reached = v + 1
                       /\ v < Span /\ wheel.pos[0] = (v + 1) % SlotCount
                       /\ \A k \in Rings \ {0} : wheel.pos[k] = Digit(v, k)
  <2>1. Reached = scan.until - scan.left + 1 /\ Passed = scan.until - scan.left
    BY <1>1 DEF Reached, Passed
  <2>2. Passed \in Nat /\ Passed < Span /\ wheel.pos[0] = Reached % SlotCount
        /\ \A k \in Rings \ {0} : wheel.pos[k] = Digit(Passed, k)
    BY DEF Standing, Stand
  <2>3. PICK v \in Nat : v = Passed
    BY <2>2
  <2>4. Reached = v + 1
    BY <2>1, <2>3
  <2> QED
    BY <2>2, <2>3, <2>4
<1>4. v + 1 \in Nat /\ now # 0
  <2>1. scan.left \in 1 .. scan.until /\ scan.until \in 0 .. now /\ now \in Nat
    BY <1>1, TypeParts DEF IdsInv, ScanOK, Walks
  <2> QED
    BY <2>1
<1>5. \A id \in Listed : DueFrom(v + 1, heap[id].due, heap[id].stamp)
  BY <1>2, <1>3 DEF Timely
<1>6. CASE wheel.pos[0] # 0
  <2>1. ~ Carry(v, 1)
    BY <1>3, <1>6, CarryIsTurn
  <2>2. \A k \in Rings \ {0} : wheel.pos[k] = Digit(v + 1, k)
    BY <1>3, <2>1, CarryIsTurn
  <2>3. v + 1 # Span
    <3>1. SUFFICES ASSUME v + 1 = Span PROVE FALSE
      OBVIOUS
    <3>2. Carry(v, RingCount)
      BY <3>1, CarryIsTurn
    <3>3. Carry(v, 1)
      <4>1. \A j \in Rings : j < 1 => j < RingCount
        BY RingFacts
      <4> QED
        BY <3>2, <4>1 DEF Carry
    <3> QED
      BY <2>1, <3>3
  <2>4. v + 1 < Span
    BY <1>3, <2>3, SpanFacts
  <2>5. Stand(wheel.pos, v + 1, v + 1)
    BY <1>3, <1>4, <2>2, <2>4 DEF Stand
  <2>6. wheel' = Cleared
    BY <1>1, <1>6
  <2> QED
    BY <1>2, <1>3, <2>5, <2>6
<1>7. CASE wheel.pos[0] = 0
  <2>1. Carry(v, 1)
    BY <1>3, <1>7, CarryIsTurn
  <2>2. ~ FullTurn(wheel)
    BY <1>1, <1>4, <1>7
  <2>3. ~ Carry(v, RingCount)
    BY <1>3, <2>1, <2>2, TurningIs
  <2>4. v + 1 < Span
    <3>1. v + 1 # Span
      BY <2>3, CarryIsTurn
    <3> QED
      BY <1>3, <3>1, SpanFacts
  <2>5. StampsAreNat
    BY IdsFacts
  <2>6. \A k \in Rings \ {0} : Cleared.pos[k] = Digit(v, k)
    BY <1>2, <1>3
  <2>7. TurnedTo(Cascade(Cleared), v, RingCount - 1, Cleared.pos[0])
    BY <1>2, <1>3, <1>5, <2>1, <2>5, <2>6, CascadePlaces
  <2>8. wheel' = Cascade(Cleared) /\ wheel' \in WheelsOf(1 .. size - 1)
    BY <1>1, <1>2, <1>7, CascadeShape
  <2>9. \A k \in Rings \ {0} : wheel'.pos[k] = Digit(v + 1, k)
    <3>1. \A k \in Rings \ {0} : k <= RingCount - 1
      BY DEF Rings
    <3> QED
      BY <2>7, <2>8, <3>1 DEF TurnedTo
  <2>10. wheel'.pos[0] = (v + 1) % SlotCount /\ PlacedIn(wheel')
    BY <1>2, <1>3, <2>7, <2>8 DEF TurnedTo
  <2>11. Stand(wheel'.pos, v + 1, v + 1)
    BY <1>4, <2>4, <2>9, <2>10 DEF Stand
  <2> QED
    BY <1>2, <1>3, <2>8, <2>10, <2>11
<1> QED
  BY <1>6, <1>7

LEMMA SlotDoneKeepsSlots == ASSUME IdsInv, SlotsInv, SlotDone PROVE SlotsInv'
<1> SUFFICES ASSUME start' = 0 PROVE SlotsInv'
  BY DEF SlotsInv
<1>1. start = 0
  <2>1. scan.left \in 1 .. scan.until /\ scan.until \in 0 .. now /\ now \in Nat
    BY TypeParts DEF IdsInv, ScanOK, Walks, SlotDone
  <2>2. start' = now \/ start' = start
    BY DEF SlotDone
  <2> QED
    BY <2>1, <2>2
<1>2. Standing /\ Timely /\ Sorted
  BY <1>1 DEF SlotsInv
<1>3. /\ PlacedIn(wheel') /\ wheel' \in WheelsOf(1 .. size - 1)
      /\ Stand(wheel'.pos, Reached, Reached) /\ Firing = {}
  BY <1>1, <1>2, TurnKeepsPlaces
<1>4. /\ Reached' = Reached /\ Passed' = Reached
      /\ scan'.phase = "idle" \/ scan'.cur = 0
      /\ scan'.calling = FALSE
  <2>1. PICK l \in Nat, u \in Nat : l = scan.left /\ u = scan.until /\ Reached = u - l + 1 /\ l >= 1 /\ u >= l
    <3>1. scan.left \in 1 .. scan.until /\ scan.until \in Nat /\ scan.phase = "new"
      BY IdsFacts DEF IdsInv, ScanOK, SlotDone
    <3> QED
      BY <3>1 DEF Reached
  <2>2. CASE l = 1
    <3>1. scan' = Idle /\ prev' = u
      BY <2>1, <2>2 DEF SlotDone
    <3> QED
      BY <2>1, <2>2, <3>1 DEF Reached, Passed, Idle
  <2>3. CASE l # 1
    <3>1. scan' = [phase |-> "old", left |-> l - 1, until |-> u, cur |-> 0, calling |-> scan.calling] /\ ~ scan.calling
      <4>1. scan' = [scan EXCEPT !.phase = "old", !.left = @ - 1, !.cur = 0] /\ ~ scan.calling
        BY <2>1, <2>3 DEF SlotDone
      <4> QED
        BY <2>1, <4>1, IdsFacts
    <3>2. scan.calling = FALSE
      BY <3>1, IdsFacts
    <3>3. Reached' = u - (l - 1) + 0 /\ Passed' = u - (l - 1)
      BY <3>1 DEF Reached, Passed
    <3> QED
      BY <2>1, <3>1, <3>2, <3>3
  <2> QED
    BY <2>2, <2>3
<1>5. heap' = heap /\ Listed' = Listed /\ Firing' = {} /\ InTurn'
  BY <1>4 DEF SlotDone, Listed, Firing, InTurn
<1>6. Standing'
  BY <1>3, <1>4 DEF Standing
<1>7. Timely'
  BY <1>2, <1>3, <1>4, <1>5 DEF Timely
<1>8. Sorted'
  <2>1. \A k \in Rings, s \in Slots : Waiting(k, s)' = wheel'.slot[k][s]
    BY <1>3, <1>4, IdsFacts, WaitsAll
  <2> QED
    BY <1>3, <1>5, <2>1 DEF Sorted, PlacedIn
<1> QED
  BY <1>5, <1>6, <1>7, <1>8 DEF SlotsInv

-----------------------------------------------------------------------------
(* Timers that applications schedule, cancel and reset. *)

\* A timer that is inserted elsewhere than in the slot that is scanned.
LEMMA InsertWaits ==
  ASSUME NEW ids, NEW w \in WheelsOf(ids), NEW id \in ids, NEW t \in Nat,
         scan.phase # "idle" => Place(w.pos, t) # <<0, w.pos[0]>>
  PROVE  \A k \in Rings, s \in Slots :
           Waits(InsertNode(w, id, t), k, s) =
             IF Place(w.pos, t) = <<k, s>> THEN Waits(w, k, s) \cup {id} ELSE Waits(w, k, s)
<1> SUFFICES ASSUME NEW k \in Rings, NEW s \in Slots
             PROVE  Waits(InsertNode(w, id, t), k, s) =
                      IF Place(w.pos, t) = <<k, s>> THEN Waits(w, k, s) \cup {id} ELSE Waits(w, k, s)
  OBVIOUS
<1>1. PICK x : x = InsertNode(w, id, t) /\ x.pos = w.pos
  BY InsertKeepsPos
<1>2. x.slot[k][s] = IF Place(w.pos, t) = <<k, s>> THEN w.slot[k][s] \cup {id} ELSE w.slot[k][s]
  BY <1>1, InsertedSlot
<1>3. CASE k = 0 /\ s = w.pos[0] /\ scan.phase # "idle"
  <2>1. Place(w.pos, t) # <<k, s>>
    BY <1>3
  <2>2. x.slot[k][s] = w.slot[k][s]
    BY <1>2, <2>1
  <2>3. Waits(x, k, s) = {i \in x.slot[k][s] : i > scan.cur} /\ Waits(w, k, s) = {i \in w.slot[k][s] : i > scan.cur}
    BY <1>1, <1>3 DEF Waits
  <2> QED
    BY <1>1, <2>1, <2>2, <2>3
<1>4. CASE ~ (k = 0 /\ s = w.pos[0] /\ scan.phase # "idle")
  <2>1. Waits(x, k, s) = x.slot[k][s] /\ Waits(w, k, s) = w.slot[k][s]
    BY <1>1, <1>4 DEF Waits
  <2> QED
    BY <1>1, <1>2, <2>1
<1> QED
  BY <1>3, <1>4

LEMMA DeleteWaits ==
  ASSUME NEW ids, NEW w \in WheelsOf(ids), NEW gone \in SUBSET Listed, StampsAreNat
  PROVE  \A k \in Rings, s \in Slots :
           Waits(DeleteNodes(w, gone), k, s) = Waits(w, k, s) \ {id \in gone : Digit(heap[id].stamp, k) = s}
<1> SUFFICES ASSUME NEW k \in Rings, NEW s \in Slots
             PROVE  Waits(DeleteNodes(w, gone), k, s) = Waits(w, k, s) \ {id \in gone : Digit(heap[id].stamp, k) = s}
  OBVIOUS
<1>1. PICK x : x = DeleteNodes(w, gone) /\ x.pos = w.pos
  BY DeleteIs
<1>2. PICK d : d = {id \in gone : Digit(heap[id].stamp, k) = s}
  OBVIOUS
<1>3. x.slot[k][s] = w.slot[k][s] \ d
  BY <1>1, <1>2, DeleteIs
<1>4. CASE k = 0 /\ s = w.pos[0] /\ scan.phase # "idle"
  <2>1. Waits(x, k, s) = {i \in x.slot[k][s] : i > scan.cur} /\ Waits(w, k, s) = {i \in w.slot[k][s] : i > scan.cur}
    BY <1>1, <1>4 DEF Waits
  <2> QED
    BY <1>1, <1>2, <1>3, <2>1
<1>5. CASE ~ (k = 0 /\ s = w.pos[0] /\ scan.phase # "idle")
  <2>1. Waits(x, k, s) = x.slot[k][s] /\ Waits(w, k, s) = w.slot[k][s]
    BY <1>1, <1>5 DEF Waits
  <2> QED
    BY <1>1, <1>2, <1>3, <2>1
<1> QED
  BY <1>4, <1>5

\* A timer that is asked for is due in time, and not where the walk is.
LEMMA AskedInTime ==
  ASSUME IdsInv, start = 0, Standing, NEW h \in Handlers, NEW d \in AskedDelays, d \in Nat, MayCall,
         0 \notin CallDelays
  PROVE  /\ DueFrom(Reached, Timer(h, d).due, Timer(h, d).stamp)
         /\ scan.phase # "idle" => Place(wheel.pos, Timer(h, d).stamp) # <<0, wheel.pos[0]>>
<1>1. Timer(h, d).due = now + d /\ Timer(h, d).stamp = (now - start + d) % Span
  BY TimerIs
<1>2. now - start + d = now + d /\ now + d \in Nat
  BY IdsFacts
<1>3. PICK p \in Nat, top \in Nat, r \in Nat : p = Span /\ top = RoundWidth[RingCount - 1] /\ r = Reached
  BY SpanFacts, IdsFacts
<1>4. r <= now + d /\ now + d < r + p - top
  BY <1>3, IdsFacts DEF AskedDelays
<1>5. DueFrom(Reached, Timer(h, d).due, Timer(h, d).stamp)
  BY <1>1, <1>2, <1>3, <1>4 DEF DueFrom
<1>6. ASSUME scan.phase # "idle", Place(wheel.pos, Timer(h, d).stamp) = <<0, wheel.pos[0]>> PROVE FALSE
  <2>1. Timer(h, d).due = Reached
    BY <1>5, <1>6, DueNow DEF Standing
  <2>2. scan.calling
    BY <1>6 DEF MayCall
  <2>3. d # 0
    BY <2>2 DEF AskedDelays
  <2>4. r <= now
    BY <1>3, IdsFacts
  <2> QED
    BY <1>1, <1>3, <2>1, <2>3, <2>4, IdsFacts
<1> QED
  BY <1>5, <1>6

LEMMA ScheduleKeepsSlots ==
  ASSUME IdsInv, SlotsInv, 0 \notin CallDelays, NEW h \in Handlers, NEW d, Schedule(h, d)
  PROVE  SlotsInv'
<1>1. d \in Nat /\ d \in AskedDelays /\ MayCall
  BY ScheduleAdds DEF Schedule
<1>2. PICK id : AddsTimer(h, d, id)
  BY ScheduleAdds
<1>3. UNCHANGED <<now, start, prev, scan>>
  BY <1>2 DEF AddsTimer
<1> SUFFICES ASSUME start = 0 PROVE SlotsInv'
  BY <1>3 DEF SlotsInv
<1>4. Standing /\ Timely /\ Sorted /\ InTurn
  BY DEF SlotsInv
<1>5. PICK t : t = Timer(h, d)
  OBVIOUS
<1>6. t.stamp \in Nat /\ DueFrom(Reached, t.due, t.stamp)
      /\ (scan.phase # "idle" => Place(wheel.pos, t.stamp) # <<0, wheel.pos[0]>>)
  BY <1>1, <1>4, <1>5, TimerIs, AskedInTime
<1>7. id \notin Listed /\ Listed' = Listed \cup {id} /\ heap'[id] = t /\ \A i \in Listed : heap'[i] = heap[i]
  BY <1>2, <1>5 DEF AddsTimer, Listed
<1>8. Firing' = Firing /\ Firing \subseteq Listed /\ Reached' = Reached /\ Passed' = Passed
  BY <1>3 DEF Firing, Reached, Passed, IdsInv, ScanOK
<1>9. Listed' \ Firing' = (Listed \ Firing) \cup {id} /\ id \notin Listed \ Firing
  BY <1>7, <1>8
<1>10. wheel \in WheelsOf(1 .. size' - 1) /\ id \in 1 .. size' - 1
       /\ wheel' = InsertNode(wheel, id, t.stamp)
  <2>1. size' \in Nat /\ size' >= size /\ size \in Nat /\ id \in 1 .. size' - 1
        /\ wheel' = InsertNode(wheel, id, t.stamp)
    BY <1>2, <1>5, IdsFacts DEF AddsTimer
  <2>2. size' \in Nat /\ size' >= size
    BY <2>1
  <2>3. 1 .. size - 1 \subseteq 1 .. size' - 1
    BY <2>2, IdsFacts
  <2>4. wheel \in WheelsOf(1 .. size' - 1)
    <3>1. wheel \in WheelsOf(1 .. size - 1)
      BY IdsFacts
    <3>2. SUBSET (1 .. size - 1) \subseteq SUBSET (1 .. size' - 1)
      BY <2>3
    <3> QED
      BY <3>1, <3>2 DEF WheelsOf
  <2> QED
    BY <2>1, <2>4
<1>11. wheel'.pos = wheel.pos
  BY <1>6, <1>10, InsertKeepsPos
<1>12. Standing'
  BY <1>4, <1>8, <1>11 DEF Standing
<1>13. Timely'
  BY <1>4, <1>6, <1>7, <1>8, <1>9 DEF Timely
<1>14. InTurn'
  BY <1>3, <1>4, <1>7, <1>8 DEF InTurn, IdsInv, ScanOK
<1>15. ASSUME NEW k \in Rings, NEW s \in Slots
       PROVE  Waiting(k, s)' = {i \in Listed' \ Firing' : Place(wheel'.pos, heap'[i].stamp) = <<k, s>>}
  <2>1. Waiting(k, s)' = IF Place(wheel.pos, t.stamp) = <<k, s>> THEN Waits(wheel, k, s) \cup {id} ELSE Waits(wheel, k, s)
    <3>1. Waits(wheel', k, s) = IF Place(wheel.pos, t.stamp) = <<k, s>> THEN Waits(wheel, k, s) \cup {id} ELSE Waits(wheel, k, s)
      BY <1>6, <1>10, InsertWaits
    <3>2. Waiting(k, s)' = Waits(wheel', k, s)
      BY <1>3, WaitingNext
    <3> QED
      BY <3>1, <3>2
  <2>2. Waits(wheel, k, s) = {i \in Listed \ Firing : Place(wheel.pos, heap[i].stamp) = <<k, s>>}
    BY <1>4, WaitingIs DEF Sorted
  <2> QED
    BY <1>7, <1>9, <1>11, <2>1, <2>2
<1>16. Sorted'
  BY <1>15 DEF Sorted
<1> QED
  BY <1>12, <1>13, <1>14, <1>16 DEF SlotsInv

\* What is taken off its slot is in no slot.
LEMMA TakenOff ==
  ASSUME IdsInv, Sorted, NEW gone \in SUBSET (Listed \ Firing)
  PROVE  \A k \in Rings, s \in Slots :
           Waits(DeleteNodes(wheel, gone), k, s) =
             {i \in (Listed \ Firing) \ gone : Place(wheel.pos, heap[i].stamp) = <<k, s>>}
<1> SUFFICES ASSUME NEW k \in Rings, NEW s \in Slots
             PROVE  Waits(DeleteNodes(wheel, gone), k, s) =
                      {i \in (Listed \ Firing) \ gone : Place(wheel.pos, heap[i].stamp) = <<k, s>>}
  OBVIOUS
<1>1. Waits(DeleteNodes(wheel, gone), k, s) = Waits(wheel, k, s) \ {id \in gone : Digit(heap[id].stamp, k) = s}
  <2>1. gone \in SUBSET Listed
    OBVIOUS
  <2> QED
    BY <2>1, IdsFacts, DeleteWaits
<1>2. Waits(wheel, k, s) = {i \in Listed \ Firing : Place(wheel.pos, heap[i].stamp) = <<k, s>>}
  BY WaitingIs DEF Sorted
<1>3. ASSUME NEW i \in gone, Place(wheel.pos, heap[i].stamp) = <<k, s>> PROVE Digit(heap[i].stamp, k) = s
  <2>1. heap[i].stamp \in Nat
    BY IdsFacts DEF StampsAreNat
  <2>2. PICK j \in Rings : Place(wheel.pos, heap[i].stamp) = <<j, Digit(heap[i].stamp, j)>>
    BY <2>1, PlaceIs
  <2> QED
    BY <1>3, <2>2
<1> QED
  BY <1>1, <1>2, <1>3

LEMMA CancelKeepsSlots ==
  ASSUME IdsInv, SlotsInv, NEW ids \in SUBSET (Listed \ Firing), CancelTimers(ids)
  PROVE  SlotsInv'
<1>1. UNCHANGED <<start, prev, scan>> /\ wheel' = DeleteNodes(wheel, ids)
  BY DEF CancelTimers
<1> SUFFICES ASSUME start = 0 PROVE SlotsInv'
  BY <1>1 DEF SlotsInv
<1>2. Standing /\ Timely /\ Sorted /\ InTurn
  BY DEF SlotsInv
<1>3. Listed' = Listed \ ids /\ \A i \in Listed' : heap'[i] = heap[i]
  BY CancelKeepsIds
<1>4. Firing' = Firing /\ Firing \subseteq Listed /\ Reached' = Reached /\ Passed' = Passed
  BY <1>1 DEF Firing, Reached, Passed, IdsInv, ScanOK
<1>5. wheel'.pos = wheel.pos
  <2>1. ids \in SUBSET Listed
    OBVIOUS
  <2> QED
    BY <1>1, <2>1, IdsFacts, DeleteIs
<1>6. Listed' \ Firing' = (Listed \ Firing) \ ids
  BY <1>3, <1>4
<1>7. Standing'
  BY <1>2, <1>4, <1>5 DEF Standing
<1>8. Timely'
  BY <1>2, <1>3, <1>4, <1>6 DEF Timely
<1>9. InTurn'
  <2>1. scan.calling => scan.cur \in Listed'
    BY <1>3 DEF Firing, IdsInv, ScanOK
  <2> QED
    BY <1>1, <1>2, <1>3, <1>4, <2>1 DEF InTurn
<1>10. Sorted'
  <2>1. \A k \in Rings, s \in Slots :
          Waiting(k, s)' = {i \in (Listed \ Firing) \ ids : Place(wheel.pos, heap[i].stamp) = <<k, s>>}
    BY <1>1, <1>2, TakenOff, WaitingNext
  <2> QED
    BY <1>3, <1>5, <1>6, <2>1 DEF Sorted
<1> QED
  BY <1>7, <1>8, <1>9, <1>10 DEF SlotsInv

LEMMA ResetKeepsSlots ==
  ASSUME IdsInv, SlotsInv, 0 \notin CallDelays,
         NEW h \in Handlers, NEW id \in events[h], NEW d, Reset(h, id, d)
  PROVE  SlotsInv'
<1>1. /\ d \in Nat /\ d \in AskedDelays /\ MayCall
      /\ id \in Listed \ Firing
      /\ Listed' = Listed /\ heap'[id] = Timer(h, d)
      /\ \A i \in Listed \ {id} : heap'[i] = heap[i]
      /\ wheel' = InsertNode(DeleteNodes(wheel, {id}), id, Timer(h, d).stamp)
      /\ UNCHANGED <<start, prev, scan>>
  BY ResetKeepsIds
<1> SUFFICES ASSUME start = 0 PROVE SlotsInv'
  BY <1>1 DEF SlotsInv
<1>2. Standing /\ Timely /\ Sorted /\ InTurn
  BY DEF SlotsInv
<1>3. PICK t : t = Timer(h, d)
  OBVIOUS
<1>4. t.stamp \in Nat /\ DueFrom(Reached, t.due, t.stamp)
      /\ (scan.phase # "idle" => Place(wheel.pos, t.stamp) # <<0, wheel.pos[0]>>)
  BY <1>1, <1>2, <1>3, TimerIs, AskedInTime
<1>5. Firing' = Firing /\ Firing \subseteq Listed /\ Reached' = Reached /\ Passed' = Passed
  BY <1>1 DEF Firing, Reached, Passed, IdsInv, ScanOK
<1>6. PICK w : w = DeleteNodes(wheel, {id})
  OBVIOUS
<1>7. w \in WheelsOf(1 .. size - 1) /\ w.pos = wheel.pos /\ id \in 1 .. size - 1
  <2>1. {id} \in SUBSET Listed
    BY <1>1
  <2>2. w \in WheelsOf(1 .. size - 1) /\ w.pos = wheel.pos
    BY <1>6, <2>1, IdsFacts, DeleteIs
  <2> QED
    BY <1>1, <2>2, IdsFacts
<1>8. wheel' = InsertNode(w, id, t.stamp) /\ wheel'.pos = wheel.pos
  <2>1. wheel' = InsertNode(w, id, t.stamp)
    BY <1>1, <1>3, <1>6
  <2>2. InsertNode(w, id, t.stamp).pos = w.pos
    <3>1. w \in WheelsOf(1 .. size - 1) /\ id \in 1 .. size - 1
      BY <1>7
    <3>2. t.stamp \in Nat
      BY <1>4
    <3> QED
      BY <3>1, <3>2, InsertKeepsPos
  <2> QED
    BY <1>7, <2>1, <2>2
<1>9. Standing'
  BY <1>2, <1>5, <1>8 DEF Standing
<1>10. Timely'
  BY <1>1, <1>2, <1>3, <1>4, <1>5 DEF Timely
<1>11. InTurn'
  <2>1. scan.calling => scan.cur \in Listed \ {id}
    BY <1>1 DEF Firing, IdsInv, ScanOK
  <2> QED
    BY <1>1, <1>2, <1>5, <2>1 DEF InTurn
<1>12. ASSUME NEW k \in Rings, NEW s \in Slots
       PROVE  Waiting(k, s)' = {i \in Listed' \ Firing' : Place(wheel'.pos, heap'[i].stamp) = <<k, s>>}
  <2>1. Waiting(k, s)' = IF Place(wheel.pos, t.stamp) = <<k, s>> THEN Waits(w, k, s) \cup {id} ELSE Waits(w, k, s)
    <3>1. scan.phase # "idle" => Place(w.pos, t.stamp) # <<0, w.pos[0]>>
      BY <1>4, <1>7
    <3>2. Waits(wheel', k, s) = IF Place(w.pos, t.stamp) = <<k, s>> THEN Waits(w, k, s) \cup {id} ELSE Waits(w, k, s)
      BY <1>4, <1>7, <1>8, <3>1, InsertWaits
    <3>3. Waiting(k, s)' = Waits(wheel', k, s)
      BY <1>1, WaitingNext
    <3> QED
      BY <1>7, <3>2, <3>3
  <2>2. Waits(w, k, s) = {i \in (Listed \ Firing) \ {id} : Place(wheel.pos, heap[i].stamp) = <<k, s>>}
    <3>1. {id} \in SUBSET (Listed \ Firing)
      BY <1>1
    <3> QED
      BY <1>2, <1>6, <3>1, TakenOff
  <2>3. Listed' \ Firing' = ((Listed \ Firing) \ {id}) \cup {id} /\ heap'[id] = t
    BY <1>1, <1>3, <1>5
  <2> QED
    BY <1>1, <1>8, <2>1, <2>2, <2>3
<1>13. Sorted'
  BY <1>12 DEF Sorted
<1> QED
  BY <1>9, <1>10, <1>11, <1>13 DEF SlotsInv

LEMMA TimersKeepSlots ==
  ASSUME 0 \notin CallDelays
  PROVE  IdsInv /\ SlotsInv /\ [TimersNext]_timerVars => SlotsInv'
<1> SUFFICES ASSUME IdsInv, SlotsInv, [TimersNext]_timerVars PROVE SlotsInv'
  OBVIOUS
<1>1. CASE Tick \/ Begin \/ Fire \/ Return \/ Advance \/ SlotDone
  BY <1>1, TickKeepsSlots, BeginKeepsSlots, FireKeepsSlots, ReturnKeepsSlots, AdvanceKeepsSlots, SlotDoneKeepsSlots
<1>2. ASSUME NEW h \in Handlers, NEW d \in Delays \cup CallDelays, Schedule(h, d) PROVE SlotsInv'
  BY <1>2, ScheduleKeepsSlots
<1>3. ASSUME NEW h \in Handlers, ClearTimerEvents(h) PROVE SlotsInv'
  BY <1>3, CancelledAreHeld, CancelKeepsSlots
<1>4. ASSUME NEW h \in Handlers, NEW id \in events[h], Cancel(h, id) PROVE SlotsInv'
  BY <1>4, CancelledAreHeld, CancelKeepsSlots
<1>5. ASSUME NEW h \in Handlers, NEW id \in events[h], NEW d \in Delays \cup CallDelays, Reset(h, id, d)
      PROVE  SlotsInv'
  BY <1>5, ResetKeepsSlots
<1>6. CASE UNCHANGED timerVars
  BY <1>6, StutterKeepsSlots
<1> QED
  BY <1>1, <1>2, <1>3, <1>4, <1>5, <1>6 DEF TimersNext

-----------------------------------------------------------------------------
(* Theorems. *)

LEMMA IdsInvGives == IdsInv => TimersTypeOK /\ IdsAgree
<1> SUFFICES ASSUME IdsInv PROVE IdsAgree
  BY DEF IdsInv
<1>1. ListOf(free, (1 .. size - 1) \ Listed)
  BY DEF IdsInv
<1>2. ToSet(free) = (1 .. size - 1) \ Listed /\ Len(free) = Cardinality(ToSet(free))
  BY <1>1, ListFacts
<1> QED
  BY <1>2 DEF IdsInv, IdsAgree

LEMMA SlotsInvGives ==
  IdsInv /\ SlotsInv => (start = 0 => EveryTimerHasItsSlot) /\ FiresInItsTurn
<1> SUFFICES ASSUME IdsInv, SlotsInv, start = 0
             PROVE  /\ EveryTimerHasItsSlot
                    /\ scan.calling => heap[scan.cur].due <= Reached
                    /\ \A id \in Listed \ Firing : heap[id].due >= Reached
  BY DEF FiresInItsTurn
<1>1. Timely /\ Sorted /\ InTurn
  BY DEF SlotsInv
<1>2. Reached \in Nat
  BY IdsFacts
<1>3. scan.calling => heap[scan.cur].due <= Reached
  BY <1>1, <1>2 DEF InTurn
<1>4. ASSUME NEW id \in Listed \ Firing PROVE heap[id].due >= Reached
  BY <1>1, <1>2 DEF Timely, DueFrom
<1>5. ASSUME NEW id \in Listed \ Firing
      PROVE  Cardinality({ks \in Rings \X Slots : id \in Waiting(ks[1], ks[2])}) = 1
  <2>1. heap[id].stamp \in Nat
    BY IdsFacts DEF StampsAreNat
  <2>2. PICK p : p = Place(wheel.pos, heap[id].stamp)
    OBVIOUS
  <2>3. p \in Rings \X Slots
    BY <2>1, <2>2, PlaceIsSlot
  <2>4. ASSUME NEW ks \in Rings \X Slots PROVE id \in Waiting(ks[1], ks[2]) <=> ks = p
    <3>1. PICK k \in Rings, s \in Slots : ks = <<k, s>>
      OBVIOUS
    <3>2. Waiting(k, s) = {i \in Listed \ Firing : Place(wheel.pos, heap[i].stamp) = <<k, s>>}
      BY <1>1 DEF Sorted
    <3>3. id \in Waiting(k, s) <=> p = <<k, s>>
      BY <2>2, <3>2
    <3> QED
      BY <3>1, <3>3
  <2>5. {ks \in Rings \X Slots : id \in Waiting(ks[1], ks[2])} = {p}
    BY <2>3, <2>4
  <2> QED
    BY <2>5, FS_Singleton
<1>6. \A k \in Rings, s \in Slots : Waiting(k, s) \subseteq Listed \ Firing
  BY <1>1 DEF Sorted
<1> QED
  BY <1>3, <1>4, <1>5, <1>6 DEF EveryTimerHasItsSlot

\* In the timer queue, every handler holds the ids of exactly the timers that are on the heap
\* for it and have not been called, and every id below the heap's size is on the heap or in
\* the free list, once: schedule_timer, cancel_timer, reset_timer and expire keep heap_,
\* freeTimers_ and timer_events_ in step, for every size of the heap, although handlers call
\* them while their slot is scanned.
THEOREM IdsAreKept == TimersSpec => [](TimersTypeOK /\ IdsAgree)
<1>1. TimersInit => IdsInv
  BY TimersStart
<1>2. IdsInv /\ [TimersNext]_timerVars => IdsInv'
  BY TimersKeepIds
<1>3. IdsInv => TimersTypeOK /\ IdsAgree
  BY IdsInvGives
<1> QED
  BY <1>1, <1>2, <1>3, PTL DEF TimersSpec

\* Up to the first full turn, each timer on the heap waits in one slot of one ring and no slot
\* names a timer that is gone, for every number of rings and slots: cycle and the cascade of
\* expire lose and double none.  The hypothesis is that no callback asks for a delay of 0,
\* which the scan of its slot would miss.
THEOREM TimersAreSound ==
  ASSUME 0 \notin CallDelays
  PROVE  TimersSpec => []TimersSound
<1>1. TimersInit => IdsInv /\ SlotsInv
  BY TimersStart, SlotsStart
<1>2. IdsInv /\ SlotsInv /\ [TimersNext]_timerVars => IdsInv' /\ SlotsInv'
  BY TimersKeepIds, TimersKeepSlots
<1>3. IdsInv /\ SlotsInv => TimersSound
  BY IdsInvGives, SlotsInvGives DEF TimersSound
<1> QED
  BY <1>1, <1>2, <1>3, PTL DEF TimersSpec

\* Under the same hypothesis a timer goes off when it is due: expire calls no handler before
\* its time, and ring 0 passes no slot with a timer that is due and not called.
THEOREM TimersFireInTheirTurn ==
  ASSUME 0 \notin CallDelays
  PROVE  TimersSpec => []FiresInItsTurn
<1>1. TimersInit => IdsInv /\ SlotsInv
  BY TimersStart, SlotsStart
<1>2. IdsInv /\ SlotsInv /\ [TimersNext]_timerVars => IdsInv' /\ SlotsInv'
  BY TimersKeepIds, TimersKeepSlots
<1>3. IdsInv /\ SlotsInv => FiresInItsTurn
  BY SlotsInvGives
<1> QED
  BY <1>1, <1>2, <1>3, PTL DEF TimersSpec
=============================================================================
