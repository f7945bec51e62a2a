----------------------------- MODULE TimerQueue -----------------------------
(***************************************************************************)
(* The timer queue of the reactors: CTimerQueue_T, CTimerRing and          *)
(* BaseTimerNode_T of revolver, with CTimerFunctor and the timer ids that  *)
(* every CEventHandler keeps.                                              *)
(*                                                                         *)
(* A timer waits in a slot of one of the rings: ring 0 turns by one slot a *)
(* millisecond, ring k by one slot when ring k-1 is through.  expire walks *)
(* ring 0 up to the present and calls the handlers of the slots it passes. *)
(* The handlers run inside that walk and the mutex is recursive, so they   *)
(* may schedule, cancel and reset timers while a slot is being scanned.    *)
(***************************************************************************)
EXTENDS Naturals, FiniteSets, Sequences, SequencesExt, FiniteSetsExt, Functions

CONSTANTS
  Handlers,    \* event handlers
  SlotCount,   \* RING_MAX_SIZE, 256
  RingCount,   \* RINGS_SIZE, 4
  PoolSize,    \* TIMER_POOL_SIZE, 2048: size of the heap at first
  Delays,      \* delays that are asked for outside a timer's callback
  CallDelays,  \* delays that are asked for in a timer's callback
  MaxHeap,     \* bound: the heap does not grow beyond this size
  MaxTime      \* bound: the clock stops here

ASSUME RingsTurn == SlotCount \in Nat \ {0, 1} /\ RingCount \in Nat \ {0, 1}
ASSUME HeapHasIds == PoolSize \in Nat \ {0} /\ MaxHeap \in Nat /\ PoolSize <= MaxHeap
ASSUME DelaysAreTimes == Delays \cup CallDelays \subseteq Nat /\ MaxTime \in Nat

VARIABLES
  now,     \* the clock, in milliseconds
  start,   \* start_time_
  prev,    \* prev_time_
  wheel,   \* rings_: position and slots of every ring
  heap,    \* heap_ without its NULL entries: timer id -> timer
  size,    \* heap_size_
  used,    \* used_num_
  free,    \* freeTimers_
  events,  \* timer_events_ of every handler
  scan     \* the walk of expire, while it runs

timerVars == <<now, start, prev, wheel, heap, size, used, free, events, scan>>

Rings == 0 .. RingCount - 1
Slots == 0 .. SlotCount - 1

\* FIRST_ROUND, SECOND_ROUND, THIRD_ROUND: what a slot of ring k stands for, in milliseconds.
RoundWidth[k \in 0 .. RingCount] == IF k = 0 THEN 1 ELSE SlotCount * RoundWidth[k - 1]

Span == RoundWidth[RingCount]

Listed == DOMAIN heap

(***************************************************************************)
(* A timer: its handler, timeout_stamp_, and, for the properties only, the *)
(* moment for which it was asked.                                          *)
(***************************************************************************)
Timer(h, d) ==
  [handler |-> h, stamp |-> (now - start + d) % Span, due |-> now + d]

-----------------------------------------------------------------------------
(* The rings *)

\* The slot of every ring that a time stamp names.
RevolverPos(stamp) == [k \in Rings |-> (stamp \div RoundWidth[k]) % SlotCount]

\* The highest ring that is not yet at the timer's slot takes it, or ring 0.
Place(pos, stamp) ==
  LET at == RevolverPos(stamp)
      k  == Max({0} \cup {j \in Rings : at[j] # pos[j]})
  IN  <<k, at[k]>>

InsertNode(w, id, stamp) ==
  LET place == Place(w.pos, stamp)
  IN  [w EXCEPT !.slot[place[1]][place[2]] = @ \cup {id}]

\* Mutant of DeleteNodes: only ring 0 is searched.
DeleteNodesLow(w, ids) ==
  [w EXCEPT !.slot[0] = [s \in Slots |->
     @[s] \ {id \in ids : RevolverPos(heap[id].stamp)[0] = s}]]

DeleteNodes(w, ids) ==
  [w EXCEPT !.slot = [k \in Rings |-> [s \in Slots |->
     @[k][s] \ {id \in ids : RevolverPos(heap[id].stamp)[k] = s}]]]

\* Every timer of a slot is inserted again, and the slot is emptied.
Redistribute(w, k, s) ==
  LET Moved(place) == {id \in w.slot[k][s] \cap Listed : Place(w.pos, heap[id].stamp) = place}
  IN  [w EXCEPT !.slot = [j \in Rings |-> [t \in Slots |->
         IF <<j, t>> = <<k, s>> THEN {} ELSE @[j][t] \cup Moved(<<j, t>>)]]]

\* cycle of a ring above ring 0, always by one slot.
CycleRing(w, k) ==
  LET next == (w.pos[k] + 1) % SlotCount
  IN  Redistribute([Redistribute(w, k, w.pos[k]) EXCEPT !.pos[k] = next], k, next)

\* Mutant of Turning: only ring 1 ever turns.
TurningOne(w) == {1}

\* Ring 0 is through: ring 1 turns, and ring k+1 when ring k is through.
Turning(w) == {k \in 1 .. RingCount - 1 : \A j \in 1 .. k - 1 : w.pos[j] = SlotCount - 1}

Cascade(w) ==
  LET turned[k \in Rings] ==
        IF k = 0 THEN w
        ELSE IF k \in Turning(w) THEN CycleRing(turned[k - 1], k) ELSE turned[k - 1]
  IN  turned[RingCount - 1]

\* All rings are through.
FullTurn(w) == \A k \in 1 .. RingCount - 1 : w.pos[k] = SlotCount - 1

-----------------------------------------------------------------------------
Idle == [phase |-> "idle", left |-> 0, until |-> 0, cur |-> 0, calling |-> FALSE]

TimersInit ==
  /\ now = 0 /\ start = 0 /\ prev = 0
  /\ wheel = [pos |-> [k \in Rings |-> 0], slot |-> [k \in Rings |-> [s \in Slots |-> {}]]]
  /\ heap = <<>>
  /\ size = PoolSize
  /\ used = 0
  /\ free = [i \in 1 .. PoolSize - 1 |-> i]
  /\ events = [h \in Handlers |-> {}]
  /\ scan = Idle

\* The mutex is free, or its holder is a timer's callback.
MayCall == scan.phase = "idle" \/ scan.calling

\* The moment ring 0 has reached.
Reached ==
  IF scan.phase = "idle" THEN prev
  ELSE scan.until - scan.left + (IF scan.phase = "new" THEN 1 ELSE 0)

\* Bound: a delay does not reach around the rings (it is less than 2^32 - 2^24 ms).
AskedDelays ==
  {d \in IF scan.calling THEN CallDelays ELSE Delays :
     now + d < Reached + Span - RoundWidth[RingCount - 1]}

-----------------------------------------------------------------------------
(* What applications call *)

\* A full heap grows to twice its size and one; id 0 is never used.
NewIds ==
  IF used >= size - 1 THEN [i \in 1 .. size + 1 |-> size + i - 1] ELSE <<>>

Schedule(h, d) ==
  /\ MayCall
  /\ d \in AskedDelays
  /\ size + Len(NewIds) <= MaxHeap
  /\ LET ids == free \o NewIds
         id  == Head(ids)
         t   == Timer(h, d)
     IN  /\ heap' = [i \in Listed \cup {id} |-> IF i = id THEN t ELSE heap[i]]
         /\ size' = size + Len(NewIds)
         /\ used' = used + 1
         /\ free' = Tail(ids)
         /\ wheel' = InsertNode(wheel, id, t.stamp)
         /\ events' = [events EXCEPT ![h] = @ \cup {id}]
  /\ UNCHANGED <<now, start, prev, scan>>

\* The ids of a set, as std::set has them.
InOrder(ids) ==
  CHOOSE s \in [1 .. Cardinality(ids) -> ids] : \A i, j \in DOMAIN s : i < j => s[i] < s[j]

\* cancel_timer of some timers, one after the other.
CancelTimers(ids) ==
  /\ heap' = Restrict(heap, Listed \ ids)
  /\ used' = IF used > Cardinality(ids) THEN used - Cardinality(ids) ELSE 0
  /\ free' = free \o InOrder(ids)
  /\ wheel' = DeleteNodes(wheel, ids)
  /\ events' = [h \in Handlers |-> events[h] \ {id \in ids : heap[id].handler = h}]
  /\ UNCHANGED <<now, start, prev, size, scan>>

\* An application cancels a timer whose id a handler holds.
Cancel(h, id) == MayCall /\ id \in events[h] \cap Listed /\ CancelTimers({id})

\* A handler that is closed cancels what it holds.
ClearTimerEvents(h) == MayCall /\ events[h] # {} /\ CancelTimers(events[h] \cap Listed)

Reset(h, id, d) ==
  /\ MayCall
  /\ d \in AskedDelays
  /\ id \in events[h] \cap Listed
  /\ LET t == Timer(heap[id].handler, d)
     IN  /\ heap' = [heap EXCEPT ![id] = t]
         /\ wheel' = InsertNode(DeleteNodes(wheel, {id}), id, t.stamp)
  /\ UNCHANGED <<now, start, prev, size, used, free, events, scan>>

-----------------------------------------------------------------------------
(* expire *)

Begin ==
  /\ scan.phase = "idle"
  /\ now > prev
  /\ scan' = [Idle EXCEPT !.phase = "old", !.left = now - prev, !.until = now]
  /\ UNCHANGED <<now, start, prev, wheel, heap, size, used, free, events>>

\* What the iterator has not passed yet in the slot of ring 0.
Ahead == {id \in wheel.slot[0][wheel.pos[0]] : id > scan.cur}

\* The next timer of the slot: its handler forgets the id and is called.
Fire ==
  /\ scan.phase # "idle" /\ ~scan.calling
  /\ Ahead # {}
  /\ LET id == Min(Ahead)
     IN  /\ scan' = [scan EXCEPT !.cur = id, !.calling = id \in Listed]
         /\ events' = IF id \in Listed
                      THEN [events EXCEPT ![heap[id].handler] = @ \ {id}] ELSE events
  /\ UNCHANGED <<now, start, prev, wheel, heap, size, used, free>>

\* The handler returns; only now is the timer off the heap.
Return ==
  /\ scan.calling
  /\ scan' = [scan EXCEPT !.calling = FALSE]
  /\ heap' = Restrict(heap, Listed \ {scan.cur})
  /\ used' = IF used > 0 THEN used - 1 ELSE 0
  /\ free' = Append(free, scan.cur)
  /\ UNCHANGED <<now, start, prev, wheel, size, events>>

Cleared == [wheel EXCEPT !.slot[0][wheel.pos[0]] = {}]

\* The slot that was left in the last walk is through: on to the next one.
Advance ==
  /\ scan.phase = "old" /\ ~scan.calling /\ Ahead = {}
  /\ wheel' = [Cleared EXCEPT !.pos[0] = (@ + 1) % SlotCount]
  /\ scan' = [scan EXCEPT !.phase = "new", !.cur = 0]
  /\ UNCHANGED <<now, start, prev, heap, size, used, free, events>>

\* The new slot is through: higher rings may turn, and the walk goes on or ends.
SlotDone ==
  /\ scan.phase = "new" /\ ~scan.calling /\ Ahead = {}
  /\ wheel' = IF wheel.pos[0] = 0 THEN Cascade(Cleared) ELSE Cleared
  /\ start' = IF wheel.pos[0] = 0 /\ FullTurn(wheel) THEN now ELSE start
  /\ IF scan.left = 1
     THEN scan' = Idle /\ prev' = scan.until
     ELSE scan' = [scan EXCEPT !.phase = "old", !.left = @ - 1, !.cur = 0] /\ prev' = prev
  /\ UNCHANGED <<now, heap, size, used, free, events>>

\* Time passes, during a walk as well.
Tick == now < MaxTime /\ now' = now + 1
        /\ UNCHANGED <<start, prev, wheel, heap, size, used, free, events, scan>>

TimersNext ==
  \/ Tick \/ Begin \/ Fire \/ Return \/ Advance \/ SlotDone
  \/ \E h \in Handlers, d \in Delays \cup CallDelays : Schedule(h, d)
  \/ \E h \in Handlers : ClearTimerEvents(h)
  \/ \E h \in Handlers : \E id \in events[h] :
       Cancel(h, id) \/ \E d \in Delays \cup CallDelays : Reset(h, id, d)

TimersSpec == TimersInit /\ [][TimersNext]_timerVars

-----------------------------------------------------------------------------
(* Properties *)

\* The timer whose handler is running: still on the heap, not to be called again.
Firing == IF scan.calling THEN {scan.cur} ELSE {}

\* What waits in a slot; the iterator's slot still holds what it has passed.
Waiting(k, s) ==
  IF k = 0 /\ s = wheel.pos[0] /\ scan.phase # "idle" THEN Ahead ELSE wheel.slot[k][s]

TimersTypeOK ==
  /\ now \in 0 .. MaxTime /\ start \in 0 .. now /\ prev \in 0 .. now
  /\ wheel \in [pos : [Rings -> Slots], slot : [Rings -> [Slots -> SUBSET (1 .. size - 1)]]]
  /\ size \in PoolSize .. MaxHeap
  /\ Listed \subseteq 1 .. size - 1
  /\ \A id \in Listed : heap[id] \in [handler : Handlers, stamp : 0 .. Span - 1, due : Nat]
  /\ used \in 0 .. size - 1
  /\ free \in Seq(1 .. size - 1)
  /\ events \in [Handlers -> SUBSET (1 .. size - 1)]
  /\ scan \in [phase : {"idle", "old", "new"}, left : 0 .. MaxTime, until : 0 .. now,
               cur : 0 .. size - 1, calling : BOOLEAN]

\* Each timer on the heap waits in one slot of one ring, and no slot names one that is gone.
EveryTimerHasItsSlot ==
    /\ \A id \in Listed \ Firing :
         Cardinality({ks \in Rings \X Slots : id \in Waiting(ks[1], ks[2])}) = 1
    /\ \A k \in Rings, s \in Slots : Waiting(k, s) \subseteq Listed \ Firing

\* Up to the first full turn of the rings, a timer goes off in its turn, although cascades
\* move it from ring to ring: its handler is not called before its time, and ring 0 passes no
\* timer that is due, since what still waits is due at the moment that is scanned or later.
FiresInItsTurn ==
  start = 0 =>
    /\ scan.calling => heap[scan.cur].due <= Reached
    /\ \A id \in Listed \ Firing : heap[id].due >= Reached

\* Handlers and heap agree on who has which timer, and every id below the heap's size is
\* either on the heap or free, once.
IdsAgree ==
  /\ \A h \in Handlers : events[h] = {id \in Listed \ Firing : heap[id].handler = h}
  /\ used = Cardinality(Listed)
  /\ Len(free) = Cardinality(ToSet(free))
  /\ ToSet(free) = (1 .. size - 1) \ Listed

\* No timer is lost, called twice or given to two handlers, in spite of handlers that schedule,
\* cancel and reset timers while their own slot is scanned; and a handler that is closed
\* cancels all its timers, and only its own.  The slots hold up to the first full turn.
TimersSound == IdsAgree /\ (start = 0 => EveryTimerHasItsSlot)
=============================================================================
