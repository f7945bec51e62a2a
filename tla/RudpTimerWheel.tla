--------------------------- MODULE RudpTimerWheel ---------------------------
(***************************************************************************)
(* The timers of the sessions of one socket thread: CRudpTimer and         *)
(* CRudpTimerManager, the loop that runs them (CSocketThread::execute and  *)
(* Update), and each session's SYN timer (reg_timer and procSynEvent of    *)
(* CRudpPushSendBuf).                                                      *)
(*                                                                         *)
(* The wheel has one slot a millisecond.  Threads that send register       *)
(* timers while the loop runs a slot: it takes the mutex for each event,   *)
(* not for the slot.  A thread that sends reckons with the clock, the loop *)
(* with m_nTime_Now, the time at which it began its round.                 *)
(***************************************************************************)
EXTENDS Naturals, Sequences, FiniteSets, SequencesExt

CONSTANTS
  Sessions,    \* the sessions of the thread
  WheelSize,   \* MAX_TIMER_COUNT, 2048
  SlotRoom,    \* MAX_TIMER_EVENT_COUNT, 4096
  SynTimes,    \* the values that getSynTime may have (see RateCtrl)
  MaxLag,      \* bound: how far the loop may be behind the clock
  WheelEnd     \* bound: the clock stops here

ASSUME WheelHasSlots == WheelSize \in Nat \ {0} /\ SlotRoom \in Nat
ASSUME TimesAreNaturals == SynTimes \subseteq Nat /\ MaxLag \in Nat /\ WheelEnd \in Nat

VARIABLES
  clock,    \* the time
  timeNow,  \* m_nTime_Now
  tick,     \* m_nTimerTick of every slot
  slots,    \* m_Event of every slot: the sessions, with the time they asked for
  current,  \* m_pCurrent
  round,    \* Update: the next event of the slot, and nCount
  open,     \* the sessions that are in status NORMAL
  unsent,   \* the sessions whose send queue holds data
  armed     \* timerflag_: the sessions that believe their timer registered

wheelVars == <<clock, timeNow, tick, slots, current, round, open, unsent, armed>>

WheelSlots == 0 .. WheelSize - 1
NoRound    == [i |-> 0, count |-> 0]
InRound    == round.count > 0

WheelInit ==
  /\ clock = 0 /\ timeNow = 0
  /\ tick = [j \in WheelSlots |-> j]
  /\ slots = [j \in WheelSlots |-> <<>>]
  /\ current = 0
  /\ round = NoRound
  /\ open = Sessions /\ unsent = {} /\ armed = {}

\* A full slot drops the event.
RegisterTimer(s, time) ==
  LET j == time % WheelSize
  IN  slots' = IF Len(slots[j]) < SlotRoom
               THEN [slots EXCEPT ![j] = Append(@, [session |-> s, due |-> time])]
               ELSE slots

\* A thread of the application sends on session s: the first data arms the timer.
Send(s) ==
  /\ s \in open \ unsent
  /\ unsent' = unsent \cup {s}
  /\ IF s \in armed
     THEN UNCHANGED <<slots, armed>>
     ELSE armed' = armed \cup {s} /\ \E t \in SynTimes : RegisterTimer(s, clock + t)
  /\ UNCHANGED <<clock, timeNow, tick, current, round, open>>

\* Mutant of Acknowledged: the session forgets the timer that is still registered.
AcknowledgedDisarms(s) ==
  /\ s \in unsent
  /\ unsent' = unsent \ {s} /\ armed' = armed \ {s}
  /\ UNCHANGED <<clock, timeNow, tick, slots, current, round, open>>

\* The other end has acknowledged everything: the timer stays where it is.
Acknowledged(s) ==
  /\ s \in unsent
  /\ unsent' = unsent \ {s}
  /\ UNCHANGED <<clock, timeNow, tick, slots, current, round, open, armed>>

\* Update finds events in the slot whose time has come; it counts them once.
BeginSlot ==
  /\ ~InRound
  /\ tick[current] <= timeNow
  /\ slots[current] # <<>>
  /\ round' = [i |-> 1, count |-> Len(slots[current])]
  /\ UNCHANGED <<clock, timeNow, tick, slots, current, open, unsent, armed>>

\* The session leaves NORMAL, for good.
Leave(s) ==
  /\ s \in open
  /\ open' = open \ {s} /\ unsent' = unsent \ {s} /\ armed' = armed \ {s}
  /\ UNCHANGED <<clock, timeNow, tick, slots, current, round>>

\* The timer of the slot's next session goes off: it is armed again if data is left.
ProcTimerEvent ==
  /\ InRound /\ round.i <= round.count
  /\ LET s == slots[current][round.i].session
     IN  IF s \in unsent
         THEN armed' = armed \cup {s} /\ \E t \in SynTimes : RegisterTimer(s, timeNow + t)
         ELSE armed' = armed \ {s} /\ slots' = slots
  /\ round' = [round EXCEPT !.i = @ + 1]
  /\ UNCHANGED <<clock, timeNow, tick, current, open, unsent>>

\* The slot is through: it is emptied and stands for the time one turn ahead.
GoNext ==
  /\ tick[current] <= timeNow
  /\ IF InRound THEN round.i > round.count ELSE slots[current] = <<>>
  /\ tick' = [tick EXCEPT ![current] = @ + WheelSize]
  /\ slots' = [slots EXCEPT ![current] = <<>>]
  /\ current' = (current + 1) % WheelSize
  /\ round' = NoRound
  /\ UNCHANGED <<clock, timeNow, open, unsent, armed>>

\* Update is through; execute reads the clock.
ReadClock ==
  /\ ~InRound
  /\ tick[current] > timeNow
  /\ timeNow' = clock
  /\ UNCHANGED <<clock, tick, slots, current, round, open, unsent, armed>>

ClockTick ==
  /\ clock < WheelEnd
  /\ clock + 1 <= tick[current] + MaxLag
  /\ clock' = clock + 1
  /\ UNCHANGED <<timeNow, tick, slots, current, round, open, unsent, armed>>

WheelNext ==
  \/ BeginSlot \/ ProcTimerEvent \/ GoNext \/ ReadClock \/ ClockTick
  \/ \E s \in Sessions : Send(s) \/ Acknowledged(s) \/ Leave(s)

WheelSpec == WheelInit /\ [][WheelNext]_wheelVars

-----------------------------------------------------------------------------
WheelTypeOK ==
  /\ clock \in 0 .. WheelEnd /\ timeNow \in 0 .. clock
  /\ tick \in [WheelSlots -> Nat]
  /\ slots \in [WheelSlots -> Seq([session : Sessions, due : Nat])]
  /\ \A j \in WheelSlots : Len(slots[j]) <= SlotRoom
  /\ current \in WheelSlots
  /\ round \in [i : 0 .. SlotRoom + 1, count : 0 .. SlotRoom]
  /\ open \subseteq Sessions /\ unsent \subseteq open /\ armed \subseteq open

\* The events that are still to go off.
ToCome(j) ==
  IF j = current /\ InRound THEN SubSeq(slots[j], round.i, Len(slots[j])) ELSE slots[j]

Timers(s) == {je \in WheelSlots \X (1 .. SlotRoom) :
                je[2] <= Len(ToCome(je[1])) /\ ToCome(je[1])[je[2]].session = s}

\* A session that believes its timer registered has one timer to come, and only one: none is
\* wiped out when its slot is emptied, although threads register timers in the middle of it.
\* And each lies in the slot of the time it asked for: none goes off a turn early or late.
ArmedHasOneTimer ==
  /\ \A s \in open : Cardinality(Timers(s)) = IF s \in armed THEN 1 ELSE 0
  /\ \A j \in WheelSlots : \A i \in 1 .. Len(ToCome(j)) : ToCome(j)[i].due = tick[j]

\* Data that waits for its acknowledgement has a timer that will send a SYN for it.
UnsentHasTimer == \A s \in unsent : Timers(s) # {}
=============================================================================
