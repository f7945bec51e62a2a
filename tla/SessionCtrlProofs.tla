-------------------------- MODULE SessionCtrlProofs --------------------------
(***************************************************************************)
(* The module of socket threads owns its threads, for any addresses, ports *)
(* and sessions.  ModuleOwnsItsThreads is not inductive: it has to be known *)
(* which slots are filled while the loops that start and stop the threads  *)
(* go through them, that a filled slot has the thread of its index, that a *)
(* thread has its address bound, that a loop which outlived its object has *)
(* its address bound too, and that mallocThread's turn is a number.        *)
(* Then the handles: that they lead to the thread that gave them out.      *)
(***************************************************************************)
EXTENDS SessionCtrl, Integers, FiniteSetTheorems, TLAPS

\* A thread object that exists.
Live(a) == thread[a].run # "none"

ShapesOK ==
  /\ stage \in {"none", "starting", "open", "closing"}
  /\ ctrl \in [addrs : Seq(Addrs), slot : [Ports -> SUBSET Addrs], at : Nat]
  /\ AddrCount <= MaxPorts
  /\ DOMAIN thread = Addrs
  /\ \A a \in Addrs : DOMAIN thread[a] = {"index", "run", "terminated", "table"}

\* What exists is in its slot, and is bound; what does not is as at first.
ThreadsInSlots ==
  \A a \in Addrs :
    /\ Live(a) => a \in bound /\ thread[a].index \in Ports /\ ctrl.slot[thread[a].index] = {a}
    /\ ~Live(a) => thread[a] = NoSocket

\* What is in a slot exists, and the slot is its own.
SlotsHaveThreads ==
  \A i \in Ports : ctrl.slot[i] # {} =>
    \E a \in Addrs : ctrl.slot[i] = {a} /\ Live(a) /\ thread[a].index = i /\ i < AddrCount

\* The slots that the loops have yet to fill, or have emptied, are empty.
SlotsFollowTheLoop ==
  /\ stage = "none" => \A i \in Ports : ctrl.slot[i] = {}
  /\ stage = "starting" => \A i \in Ports : i >= ctrl.at => ctrl.slot[i] = {}
  /\ stage = "closing" => \A i \in Ports : i < ctrl.at => ctrl.slot[i] = {}

\* A loop that outlived its thread object is not served by another.
StraysGone == \A a \in strays : a \in bound /\ a \in Addrs /\ ~Live(a)

IInv == ShapesOK /\ ThreadsInSlots /\ SlotsHaveThreads /\ SlotsFollowTheLoop /\ StraysGone

-----------------------------------------------------------------------------
\* A module that does not exist has no threads.
THEOREM InitOwns == CtrlInit => IInv
<1> SUFFICES ASSUME CtrlInit PROVE IInv
  OBVIOUS
<1> USE DEF CtrlInit, NoCtrl, NoSocket
<1>1. ShapesOK
  BY PortsArePositive DEF ShapesOK, AddrCount, Ports
<1>2. ThreadsInSlots
  BY DEF ThreadsInSlots, Live
<1>3. SlotsHaveThreads
  BY DEF SlotsHaveThreads, Ports
<1>4. SlotsFollowTheLoop
  BY DEF SlotsFollowTheLoop, Ports
<1>5. StraysGone
  BY DEF StraysGone
<1> QED
  BY <1>1, <1>2, <1>3, <1>4, <1>5 DEF IInv

\* A thread that exists ends, is told to, or has another table.
ThreadStep(a) ==
  /\ a \in Addrs /\ Live(a)
  /\ \E new : /\ thread' = [thread EXCEPT ![a] = new]
              /\ DOMAIN new = DOMAIN thread[a]
              /\ new.run # "none" /\ new.index = thread[a].index
  /\ UNCHANGED <<stage, ctrl, bound, strays>>

\* Slots and threads agree as before: no thread has come, gone or moved.
LEMMA ThreadStepKeeps ==
  ASSUME IInv, NEW a, ThreadStep(a)
  PROVE  IInv'
<1> USE DEF ThreadStep
<1>1. PICK new : /\ thread' = [thread EXCEPT ![a] = new]
                 /\ DOMAIN new = DOMAIN thread[a]
                 /\ new.run # "none" /\ new.index = thread[a].index
  OBVIOUS
<1>2. \A b \in Addrs : b # a => thread'[b] = thread[b]
  BY <1>1 DEF IInv, ShapesOK
<1>3. /\ DOMAIN thread' = Addrs
      /\ thread'[a] = new
  BY <1>1 DEF IInv, ShapesOK
<1>4. ShapesOK'
  BY <1>1, <1>2, <1>3 DEF IInv, ShapesOK, AddrCount
<1>5. ThreadsInSlots'
  BY <1>1, <1>2, <1>3 DEF IInv, ThreadsInSlots, Live
<1>6. SlotsHaveThreads'
  BY <1>1, <1>2, <1>3 DEF IInv, SlotsHaveThreads, Live, AddrCount
<1>7. SlotsFollowTheLoop'
  BY DEF IInv, SlotsFollowTheLoop
<1>8. StraysGone'
  BY <1>2 DEF IInv, StraysGone, Live
<1> QED
  BY <1>4, <1>5, <1>6, <1>7, <1>8 DEF IInv

\* A field of a thread, other than these two, changes.
LEMMA FieldChanges ==
  ASSUME IInv, NEW a \in Addrs, Live(a), NEW field \in {"terminated", "table"}, NEW value,
         thread' = [thread EXCEPT ![a] = [thread[a] EXCEPT ![field] = value]],
         UNCHANGED <<stage, ctrl, bound, strays>>
  PROVE  ThreadStep(a)
<1> DEFINE new == [thread[a] EXCEPT ![field] = value]
<1>1. /\ DOMAIN new = DOMAIN thread[a]
      /\ new.run = thread[a].run /\ new.index = thread[a].index
  BY DEF IInv, ShapesOK
<1> QED
  BY <1>1 DEF ThreadStep, Live

\* What is in a slot exists, and the slot has its index.
LEMMA SlotOfThread ==
  ASSUME IInv, NEW i \in Ports, NEW a, a \in ctrl.slot[i]
  PROVE  a \in Addrs /\ ctrl.slot[i] = {a} /\ Live(a) /\ thread[a].index = i
BY DEF IInv, SlotsHaveThreads

\* A module that starts has no threads yet.
LEMMA CreateKeeps ==
  ASSUME IInv, NEW list \in AddrLists, CreateRudpModule(list)
  PROVE  IInv'
<1> DEFINE some == SubSeq(list, 1, IF Len(list) < MaxPorts THEN Len(list) ELSE MaxPorts)
<1>1. some \in Seq(Addrs) /\ Len(some) <= MaxPorts
  BY PortsArePositive
<1>2. /\ ctrl' = [addrs |-> some, slot |-> [i \in Ports |-> {}], at |-> 0]
      /\ stage = "none" /\ stage' = "starting" /\ UNCHANGED <<thread, bound, strays>>
  BY DEF CreateRudpModule, NoCtrl
<1>3. \A a \in Addrs : ~Live(a)
  BY <1>2 DEF IInv, ThreadsInSlots, SlotsFollowTheLoop
<1> HIDE DEF some
<1>4. ShapesOK'
  <2>1. [i \in Ports |-> {}] \in [Ports -> SUBSET Addrs]
    OBVIOUS
  <2>2. ctrl' \in [addrs : Seq(Addrs), slot : [Ports -> SUBSET Addrs], at : Nat]
    BY <1>1, <1>2, <2>1
  <2>3. AddrCount' <= MaxPorts
    BY <1>1, <1>2 DEF AddrCount
  <2> QED
    BY <1>2, <2>2, <2>3 DEF IInv, ShapesOK
<1>5. ThreadsInSlots'
  BY <1>2, <1>3 DEF IInv, ThreadsInSlots, Live
<1>6. SlotsHaveThreads'
  BY <1>2 DEF SlotsHaveThreads
<1>7. SlotsFollowTheLoop'
  BY <1>2 DEF SlotsFollowTheLoop
<1>8. StraysGone'
  BY <1>2 DEF IInv, StraysGone, Live
<1> QED
  BY <1>4, <1>5, <1>6, <1>7, <1>8 DEF IInv

\* The start goes over to the open module, or to its end, which begins at the first slot.
LEMMA StageKeeps ==
  ASSUME IInv, InitFails \/ Created \/ CloseRudpModule
  PROVE  IInv'
<1>1. /\ stage' \in {"open", "closing"}
      /\ ctrl'.slot = ctrl.slot /\ AddrCount' = AddrCount
      /\ stage' = "closing" => ctrl'.at = 0
      /\ UNCHANGED <<thread, bound, strays>>
      /\ ctrl' \in [addrs : Seq(Addrs), slot : [Ports -> SUBSET Addrs], at : Nat]
  BY DEF IInv, ShapesOK, InitFails, Created, CloseRudpModule, AddrCount
<1>2. ShapesOK'
  BY <1>1 DEF IInv, ShapesOK
<1>3. ThreadsInSlots'
  BY <1>1 DEF IInv, ThreadsInSlots, Live
<1>4. SlotsHaveThreads'
  BY <1>1 DEF IInv, SlotsHaveThreads, Live
<1>5. SlotsFollowTheLoop'
  BY <1>1 DEF SlotsFollowTheLoop, Ports
<1>6. StraysGone'
  BY <1>1 DEF IInv, StraysGone, Live
<1> QED
  BY <1>2, <1>3, <1>4, <1>5, <1>6 DEF IInv

\* Slot i of a module becomes what, and its loop goes on to the next slot.
LEMMA SlotChanges ==
  ASSUME ShapesOK, NEW i \in Ports, i = ctrl.at, NEW what \in SUBSET Addrs,
         ctrl' = [ctrl EXCEPT !.slot[ctrl.at] = what, !.at = @ + 1]
  PROVE  /\ ctrl' \in [addrs : Seq(Addrs), slot : [Ports -> SUBSET Addrs], at : Nat]
         /\ ctrl'.addrs = ctrl.addrs /\ ctrl'.at = i + 1
         /\ ctrl'.slot[i] = what
         /\ \A j \in Ports : j # i => ctrl'.slot[j] = ctrl.slot[j]
<1>1. ctrl \in [addrs : Seq(Addrs), slot : [Ports -> SUBSET Addrs], at : Nat]
  BY DEF ShapesOK
<1>2. ctrl' = [addrs |-> ctrl.addrs, slot |-> [ctrl.slot EXCEPT ![i] = what], at |-> ctrl.at + 1]
  BY <1>1
<1>3. [ctrl.slot EXCEPT ![i] = what] \in [Ports -> SUBSET Addrs]
  BY <1>1
<1> QED
  BY <1>1, <1>2, <1>3

\* A thread comes into the slot that is next, at an address that had none.
LEMMA InitSocketKeeps ==
  ASSUME IInv, InitSocket
  PROVE  IInv'
<1> DEFINE addr == ctrl.addrs[ctrl.at + 1]
           new == [NoSocket EXCEPT !.index = ctrl.at, !.run = "running"]
<1>1. addr \in Addrs /\ ctrl.at \in Ports /\ ctrl.at < AddrCount
  <2>1. ctrl.addrs \in Seq(Addrs) /\ ctrl.at \in Nat /\ ctrl.at < Len(ctrl.addrs)
    BY DEF IInv, ShapesOK, InitSocket, AddrCount
  <2>2. Len(ctrl.addrs) <= MaxPorts
    BY DEF IInv, ShapesOK, AddrCount
  <2> QED
    BY <2>1, <2>2, PortsArePositive DEF Ports, AddrCount
<1>2. /\ stage = "starting" /\ UNCHANGED <<stage, strays>>
      /\ addr \notin bound /\ bound' = bound \cup {addr}
      /\ thread' = [thread EXCEPT ![addr] = new]
      /\ ctrl' = [ctrl EXCEPT !.slot[ctrl.at] = {addr}, !.at = @ + 1]
  BY Zenon DEF InitSocket
<1>3. ~Live(addr) /\ ctrl.slot[ctrl.at] = {}
  <2>1. ~Live(addr)
    BY <1>1, <1>2 DEF IInv, ThreadsInSlots
  <2>2. ctrl.at >= ctrl.at
    BY <1>1 DEF Ports
  <2>3. ctrl.slot[ctrl.at] = {}
    BY <1>1, <1>2, <2>2 DEF IInv, SlotsFollowTheLoop
  <2> QED
    BY <2>1, <2>3
<1>4. /\ ctrl' \in [addrs : Seq(Addrs), slot : [Ports -> SUBSET Addrs], at : Nat]
      /\ ctrl'.addrs = ctrl.addrs /\ ctrl'.at = ctrl.at + 1
      /\ ctrl'.slot[ctrl.at] = {addr}
      /\ \A j \in Ports : j # ctrl.at => ctrl'.slot[j] = ctrl.slot[j]
  <2> HIDE DEF addr
  <2>1. {addr} \in SUBSET Addrs
    BY <1>1
  <2> QED
    BY <1>1, <1>2, <2>1, SlotChanges DEF IInv
<1>5. /\ DOMAIN thread' = Addrs /\ thread'[addr] = new
      /\ \A b \in Addrs : b # addr => thread'[b] = thread[b]
  BY <1>1, <1>2 DEF IInv, ShapesOK
<1>6. AddrCount' = AddrCount
  BY <1>4 DEF AddrCount
<1>7. /\ DOMAIN new = {"index", "run", "terminated", "table"}
      /\ new.run = "running" /\ new.index = ctrl.at
  BY DEF NoSocket
<1> HIDE DEF addr, new
<1>8. ShapesOK'
  BY <1>2, <1>4, <1>5, <1>6, <1>7 DEF IInv, ShapesOK
<1>9. ThreadsInSlots'
  <2> SUFFICES ASSUME NEW b \in Addrs
               PROVE  /\ Live(b)' => /\ b \in bound' /\ thread'[b].index \in Ports
                                     /\ ctrl'.slot[thread'[b].index] = {b}
                      /\ ~Live(b)' => thread'[b] = NoSocket
    BY DEF ThreadsInSlots, NoSocket
  <2>1. CASE b = addr
    BY <1>1, <1>2, <1>4, <1>5, <1>7, <2>1 DEF Live
  <2>2. CASE b # addr
    <3>1. /\ Live(b) => /\ b \in bound /\ thread[b].index \in Ports
                        /\ ctrl.slot[thread[b].index] = {b}
          /\ ~Live(b) => thread[b] = NoSocket
      BY DEF IInv, ThreadsInSlots
    <3>2. thread'[b] = thread[b] /\ (b \in bound => b \in bound')
      BY <1>2, <1>5, <2>2
    <3>3. Live(b) => thread[b].index # ctrl.at
      BY <1>3, <3>1
    <3> QED
      BY <1>4, <3>1, <3>2, <3>3 DEF Live
  <2> QED
    BY <2>1, <2>2
<1>10. SlotsHaveThreads'
  <2> SUFFICES ASSUME NEW i \in Ports, ctrl'.slot[i] # {}
               PROVE  \E b \in Addrs : /\ ctrl'.slot[i] = {b} /\ Live(b)'
                                     /\ thread'[b].index = i /\ i < AddrCount'
    BY DEF SlotsHaveThreads
  <2>1. CASE i = ctrl.at
    BY <1>1, <1>4, <1>5, <1>6, <1>7, <2>1 DEF Live
  <2>2. CASE i # ctrl.at
    BY <1>3, <1>4, <1>5, <1>6, <2>2 DEF IInv, SlotsHaveThreads, Live
  <2> QED
    BY <2>1, <2>2
<1>11. SlotsFollowTheLoop'
  <2> SUFFICES ASSUME NEW i \in Ports, i >= ctrl.at + 1
               PROVE  ctrl'.slot[i] = {}
    BY <1>2, <1>4 DEF SlotsFollowTheLoop
  <2>1. i # ctrl.at /\ i >= ctrl.at
    BY <1>1 DEF Ports
  <2> QED
    BY <1>2, <1>4, <2>1 DEF IInv, SlotsFollowTheLoop
<1>12. StraysGone'
  <2> SUFFICES ASSUME NEW b \in strays PROVE b \in bound' /\ b \in Addrs /\ ~Live(b)'
    BY <1>2 DEF StraysGone
  <2>1. b \in bound /\ b \in Addrs /\ ~Live(b)
    BY DEF IInv, StraysGone
  <2> QED
    BY <1>2, <1>5, <2>1 DEF Live
<1> QED
  BY <1>8, <1>9, <1>10, <1>11, <1>12 DEF IInv

\* The thread in the slot that is next goes, and with it what is in the slot.
LEMMA ReleaseSocketKeeps ==
  ASSUME IInv, NEW a \in Addrs, ReleaseSocket(a)
  PROVE  IInv'
<1>1. ctrl.at \in Ports
  BY PortsArePositive DEF IInv, ShapesOK, ReleaseSocket, AddrCount, Ports
<1>2. /\ stage = "closing" /\ UNCHANGED <<stage, bound>>
      /\ ctrl.slot[ctrl.at] = {a}
      /\ thread' = [thread EXCEPT ![a] = NoSocket]
      /\ ctrl' = [ctrl EXCEPT !.slot[ctrl.at] = {}, !.at = @ + 1]
      /\ strays' \subseteq strays \cup {a}
  BY DEF ReleaseSocket
<1>3. /\ ctrl' \in [addrs : Seq(Addrs), slot : [Ports -> SUBSET Addrs], at : Nat]
      /\ ctrl'.addrs = ctrl.addrs /\ ctrl'.at = ctrl.at + 1
      /\ ctrl'.slot[ctrl.at] = {}
      /\ \A j \in Ports : j # ctrl.at => ctrl'.slot[j] = ctrl.slot[j]
  <2>1. {} \in SUBSET Addrs
    OBVIOUS
  <2> QED
    BY <1>1, <1>2, <2>1, SlotChanges DEF IInv
<1>4. /\ DOMAIN thread' = Addrs /\ thread'[a] = NoSocket
      /\ \A b \in Addrs : b # a => thread'[b] = thread[b]
  BY <1>2 DEF IInv, ShapesOK
<1>5. AddrCount' = AddrCount
  BY <1>3 DEF AddrCount
<1>6. \A b \in Addrs : b # a /\ Live(b) => thread[b].index # ctrl.at
  BY <1>2 DEF IInv, ThreadsInSlots
<1>7. ShapesOK'
  <2>1. DOMAIN NoSocket = {"index", "run", "terminated", "table"}
    BY DEF NoSocket
  <2> QED
    BY <1>2, <1>3, <1>4, <1>5, <2>1 DEF IInv, ShapesOK
<1>8. ThreadsInSlots'
  <2> SUFFICES ASSUME NEW b \in Addrs
               PROVE  /\ Live(b)' => /\ b \in bound' /\ thread'[b].index \in Ports
                                     /\ ctrl'.slot[thread'[b].index] = {b}
                      /\ ~Live(b)' => thread'[b] = NoSocket
    BY DEF ThreadsInSlots, NoSocket
  <2>1. CASE b = a
    BY <1>4, <2>1 DEF Live, NoSocket
  <2>2. CASE b # a
    BY <1>2, <1>3, <1>4, <1>6, <2>2 DEF IInv, ThreadsInSlots, Live
  <2> QED
    BY <2>1, <2>2
<1>9. SlotsHaveThreads'
  <2> SUFFICES ASSUME NEW i \in Ports, ctrl'.slot[i] # {}
               PROVE  \E b \in Addrs : /\ ctrl'.slot[i] = {b} /\ Live(b)'
                                     /\ thread'[b].index = i /\ i < AddrCount'
    BY DEF SlotsHaveThreads
  <2>1. i # ctrl.at /\ ctrl'.slot[i] = ctrl.slot[i]
    BY <1>3
  <2>2. PICK b \in Addrs : ctrl.slot[i] = {b} /\ Live(b) /\ thread[b].index = i /\ i < AddrCount
    BY <2>1 DEF IInv, SlotsHaveThreads
  <2>3. b # a
    BY <1>1, <1>2, <2>1, <2>2, SlotOfThread
  <2> QED
    BY <1>4, <1>5, <2>1, <2>2, <2>3 DEF Live
<1>10. SlotsFollowTheLoop'
  <2> SUFFICES ASSUME NEW i \in Ports, i < ctrl.at + 1
               PROVE  ctrl'.slot[i] = {}
    BY <1>2, <1>3 DEF SlotsFollowTheLoop
  <2>1. i = ctrl.at \/ i < ctrl.at
    BY <1>1 DEF Ports
  <2>2. i # ctrl.at => ctrl.slot[i] = {}
    BY <1>2, <2>1 DEF IInv, SlotsFollowTheLoop
  <2> QED
    BY <1>3, <2>1, <2>2
<1>11. StraysGone'
  <2>1. a \in bound
    BY <1>1, <1>2, SlotOfThread DEF IInv, ThreadsInSlots
  <2> SUFFICES ASSUME NEW b \in strays' PROVE b \in bound /\ b \in Addrs /\ ~Live(b)'
    BY <1>2 DEF StraysGone
  <2>2. CASE b = a
    BY <1>4, <2>1, <2>2 DEF Live, NoSocket
  <2>3. CASE b # a
    BY <1>2, <1>4, <2>3 DEF IInv, StraysGone, Live
  <2> QED
    BY <2>2, <2>3
<1> QED
  BY <1>7, <1>8, <1>9, <1>10, <1>11 DEF IInv

\* An empty slot is passed over, and behind the last the module is gone.
LEMMA ReleaseNextKeeps ==
  ASSUME IInv, ReleaseNext
  PROVE  IInv'
<1>1. stage = "closing" /\ UNCHANGED <<thread, bound, strays>>
  BY DEF ReleaseNext
<1>2. CASE ctrl.at = AddrCount
  <2>1. stage' = "none" /\ ctrl' = NoCtrl
    BY <1>2 DEF ReleaseNext
  <2>2. \A i \in Ports : ctrl.slot[i] = {}
    <3> SUFFICES ASSUME NEW i \in Ports, ctrl.slot[i] # {} PROVE FALSE
      OBVIOUS
    <3>1. i < AddrCount
      BY DEF IInv, SlotsHaveThreads
    <3> QED
      BY <1>1, <1>2, <3>1 DEF IInv, SlotsFollowTheLoop
  <2>3. \A a \in Addrs : ~Live(a)
    BY <2>2 DEF IInv, ThreadsInSlots
  <2>4. ShapesOK'
    <3>1. [i \in Ports |-> {}] \in [Ports -> SUBSET Addrs]
      OBVIOUS
    <3>2. ctrl' \in [addrs : Seq(Addrs), slot : [Ports -> SUBSET Addrs], at : Nat]
      BY <2>1, <3>1 DEF NoCtrl
    <3>3. AddrCount' <= MaxPorts
      BY <2>1, PortsArePositive DEF NoCtrl, AddrCount
    <3> QED
      BY <1>1, <2>1, <3>2, <3>3 DEF IInv, ShapesOK
  <2>5. ThreadsInSlots'
    BY <1>1, <2>3 DEF IInv, ThreadsInSlots, Live
  <2>6. SlotsHaveThreads'
    BY <2>1 DEF SlotsHaveThreads, NoCtrl
  <2>7. SlotsFollowTheLoop'
    BY <2>1 DEF SlotsFollowTheLoop, NoCtrl
  <2>8. StraysGone'
    BY <1>1 DEF IInv, StraysGone, Live
  <2> QED
    BY <2>4, <2>5, <2>6, <2>7, <2>8 DEF IInv
<1>3. CASE ctrl.at # AddrCount
  <2>1. ctrl.slot[ctrl.at] = {} /\ UNCHANGED stage /\ ctrl' = [ctrl EXCEPT !.at = @ + 1]
    BY <1>3 DEF ReleaseNext
  <2>2. /\ ctrl' \in [addrs : Seq(Addrs), slot : [Ports -> SUBSET Addrs], at : Nat]
        /\ ctrl'.addrs = ctrl.addrs /\ ctrl'.slot = ctrl.slot /\ ctrl'.at = ctrl.at + 1
    BY <2>1 DEF IInv, ShapesOK
  <2>3. AddrCount' = AddrCount
    BY <2>2 DEF AddrCount
  <2>4. ShapesOK'
    BY <1>1, <2>1, <2>2, <2>3 DEF IInv, ShapesOK
  <2>5. ThreadsInSlots'
    BY <1>1, <2>2 DEF IInv, ThreadsInSlots, Live
  <2>6. SlotsHaveThreads'
    BY <1>1, <2>2, <2>3 DEF IInv, SlotsHaveThreads, Live
  <2>7. SlotsFollowTheLoop'
    <3> SUFFICES ASSUME NEW i \in Ports, i < ctrl.at + 1
                 PROVE  ctrl.slot[i] = {}
      BY <1>1, <2>1, <2>2 DEF SlotsFollowTheLoop
    <3>1. i = ctrl.at \/ i < ctrl.at
      BY DEF IInv, ShapesOK, Ports
    <3> QED
      BY <1>1, <2>1, <3>1 DEF IInv, SlotsFollowTheLoop
  <2>8. StraysGone'
    BY <1>1 DEF IInv, StraysGone, Live
  <2> QED
    BY <2>4, <2>5, <2>6, <2>7, <2>8 DEF IInv
<1> QED
  BY <1>2, <1>3

\* What the threads and the application do with sessions fills tables only.
LEMMA AddSessionIsAThreadStep ==
  ASSUME IInv, NEW a \in Addrs, Live(a), NEW rand, AddSession(a, rand),
         UNCHANGED <<stage, ctrl, bound, strays>>
  PROVE  ThreadStep(a)
<1>1. PICK value : thread' = [thread EXCEPT ![a].table = value]
  BY DEF AddSession
<1> QED
  BY <1>1, FieldChanges

\* The turn of mallocThread stays a number: the modulus is positive where it is taken.
LEMMA TurnKeeps ==
  ASSUME IInv, turn \in Nat, [CtrlNext]_ctrlVars
  PROVE  turn' \in Nat
<1>1. ASSUME NEW from, CreateFrom(from) PROVE turn' \in Nat
  <2>1. AddrCount \in Nat \ {0}
    BY <1>1 DEF CreateFrom, IInv, ShapesOK, AddrCount
  <2>2. (turn + 1) % AddrCount \in Nat
    BY <2>1
  <2> QED
    BY <1>1, <2>2 DEF CreateFrom
<1>2. turn' = turn \/ \E from : CreateFrom(from)
  BY DEF CtrlNext, ctrlVars, CreateRudpModule, InitFails, InitSocket, Created, CloseRudpModule,
         ReleaseNext, StopThread, ExecuteEnds, ReleaseSocket, StrayEnds, AcceptSession, SessionCloses,
         CallBySession, CallFromCallback, SetConfigInfo
<1> QED
  BY <1>1, <1>2

\* The strengthened invariant is inductive: one step for every action.
LEMMA NextKeeps ==
  ASSUME IInv, turn \in Nat, [CtrlNext]_ctrlVars
  PROVE  IInv'
<1>1. CASE UNCHANGED ctrlVars
  BY <1>1 DEF ctrlVars, IInv, ShapesOK, ThreadsInSlots, SlotsHaveThreads, SlotsFollowTheLoop,
              StraysGone, Live, AddrCount
<1>2. ASSUME NEW list \in AddrLists, CreateRudpModule(list) PROVE IInv'
  BY <1>2, CreateKeeps
<1>3. CASE InitFails \/ Created \/ CloseRudpModule
  BY <1>3, StageKeeps
<1>4. CASE InitSocket
  BY <1>4, InitSocketKeeps
<1>5. CASE ReleaseNext
  BY <1>5, ReleaseNextKeeps
<1>6. ASSUME NEW a \in Addrs, StopThread(a) PROVE IInv'
  <2>1. ctrl.at \in Ports /\ a \in ctrl.slot[ctrl.at]
    BY <1>6, PortsArePositive DEF IInv, ShapesOK, StopThread, AddrCount, Ports
  <2>2. Live(a)
    BY <2>1, SlotOfThread
  <2> QED
    BY <1>6, <2>2, FieldChanges, ThreadStepKeeps DEF StopThread
<1>7. ASSUME NEW a \in Addrs, ExecuteEnds(a) PROVE IInv'
  <2> DEFINE new == [thread[a] EXCEPT !.run = "ended"]
  <2>1. Live(a) /\ thread' = [thread EXCEPT ![a] = new] /\ UNCHANGED <<stage, ctrl, bound, strays>>
    BY <1>7 DEF ExecuteEnds, Live
  <2>2. DOMAIN new = DOMAIN thread[a] /\ new.run = "ended" /\ new.index = thread[a].index
    BY DEF IInv, ShapesOK
  <2>3. ThreadStep(a)
    BY <2>1, <2>2 DEF ThreadStep
  <2> QED
    BY <2>3, ThreadStepKeeps
<1>8. ASSUME NEW a \in Addrs, ReleaseSocket(a) PROVE IInv'
  BY <1>8, ReleaseSocketKeeps
<1>9. ASSUME NEW a \in Addrs, AcceptSession(a) PROVE IInv'
  <2>1. Live(a) /\ UNCHANGED <<stage, ctrl, bound, strays>>
    BY <1>9 DEF AcceptSession, Live
  <2>2. PICK rand \in 0 .. RandWidth - 1 : AddSession(a, rand)
    BY <1>9 DEF AcceptSession
  <2> QED
    BY <2>1, <2>2, AddSessionIsAThreadStep, ThreadStepKeeps
<1>10. ASSUME NEW a \in Addrs, NEW node, SessionCloses(a, node) PROVE IInv'
  <2>1. Live(a)
    BY <1>10 DEF SessionCloses, Live
  <2> QED
    BY <1>10, <2>1, FieldChanges, ThreadStepKeeps DEF SessionCloses
<1>11. ASSUME NEW from, CreateFrom(from), from = {} \/ from \in SUBSET Addrs PROVE IInv'
  <2>1. UNCHANGED <<stage, ctrl, bound, strays>>
    BY <1>11 DEF CreateFrom
  <2>2. PICK i \in MallocThread(from), rand \in 0 .. RandWidth - 1 :
          \E a \in ctrl.slot[i] : AddSession(a, rand)
    BY <1>11 DEF CreateFrom
  <2>3. i \in Ports
    <3>1. AddrCount \in Nat \ {0} /\ AddrCount <= MaxPorts
      BY <1>11 DEF CreateFrom, IInv, ShapesOK, AddrCount
    <3>2. (turn + 1) % AddrCount \in 0 .. AddrCount - 1
      BY <3>1
    <3>3. 0 .. AddrCount - 1 \subseteq Ports
      BY <3>1, PortsArePositive DEF Ports
    <3> QED
      BY <2>2, <3>2, <3>3 DEF MallocThread
  <2>4. PICK a \in ctrl.slot[i] : AddSession(a, rand)
    BY <2>2
  <2>5. a \in Addrs /\ Live(a)
    BY <2>3, <2>4, SlotOfThread
  <2> QED
    BY <2>1, <2>4, <2>5, AddSessionIsAThreadStep, ThreadStepKeeps
<1>12. ASSUME NEW n \in DOMAIN issued, CallBySession(n) \/ CallFromCallback(n) PROVE IInv'
  BY <1>12 DEF CallBySession, CallFromCallback, IInv, ShapesOK, ThreadsInSlots, SlotsHaveThreads,
               SlotsFollowTheLoop, StraysGone, Live, AddrCount
<1>13. ASSUME NEW type, NEW time, SetConfigInfo(type, time) PROVE IInv'
  BY <1>13 DEF SetConfigInfo, IInv, ShapesOK, ThreadsInSlots, SlotsHaveThreads,
               SlotsFollowTheLoop, StraysGone, Live, AddrCount
<1>14. ASSUME NEW a \in Addrs, StrayEnds(a) PROVE IInv'
  BY <1>14 DEF StrayEnds, IInv, ShapesOK, ThreadsInSlots, SlotsHaveThreads, SlotsFollowTheLoop,
               StraysGone, Live, AddrCount
<1> QED
  BY <1>1, <1>2, <1>3, <1>4, <1>5, <1>6, <1>7, <1>8, <1>9, <1>10, <1>11, <1>12, <1>13, <1>14
  DEF CtrlNext

\* Every thread object is in the slot of its index as long as the module exists, and none is
\* left when it is gone: however many addresses it has, wherever its start fails, whatever
\* sessions come and go meanwhile, and whether a loop ended in its 2000 ms or not.  A loop
\* that did not has its address to itself for good (ModuleOwnsItsThreads).
THEOREM ModuleAlwaysOwnsItsThreads == CtrlSpec => []ModuleOwnsItsThreads
<1> DEFINE Ind == IInv /\ turn \in Nat
<1>1. CtrlInit => Ind
  BY InitOwns DEF CtrlInit
<1>2. Ind /\ [CtrlNext]_ctrlVars => Ind'
  BY NextKeeps, TurnKeeps
<1>3. Ind => ModuleOwnsItsThreads
  BY DEF IInv, ThreadsInSlots, SlotsFollowTheLoop, StraysGone, ModuleOwnsItsThreads
<1> QED
  BY <1>1, <1>2, <1>3, PTL DEF CtrlSpec

-----------------------------------------------------------------------------
(* The handles.  What a handle finds rests on the numbers in it: the index  *)
(* leads to one slot, which only the thread of one address ever fills, and  *)
(* the time, here a count, is never given out twice.                        *)

\* A handle names the slot of the thread that made it.
HandlesNameSlots ==
  stage # "none" => \A n \in DOMAIN issued :
    LET i == ThreadIndex(issued[n].node)
    IN  i \in Ports /\ i < AddrCount /\ issued[n].by = ctrl.addrs[i + 1]

HandlesAreCounted ==
  /\ issued \in Seq([node : Nodes, by : Addrs])
  /\ \A n \in DOMAIN issued : issued[n].node.now = n - 1

SlotsByAddress ==
  \A i \in Ports : ctrl.slot[i] # {} => i < AddrCount /\ ctrl.slot[i] = {ctrl.addrs[i + 1]}

TablesByIndex ==
  \A a \in Addrs : \A e \in thread[a].table : ThreadIndex(e) = thread[a].index

CallsAreForHandles ==
  called # NotCalled => called.made \in DOMAIN issued

HInv ==
  /\ HandlesNameSlots /\ HandlesAreCounted /\ SlotsByAddress /\ TablesByIndex
  /\ CallsAreForHandles /\ HandlesFindTheirSession

\* The low part of a number does not reach its quotient.
LEMMA QuotientOfSum ==
  ASSUME NEW d \in Nat \ {0}, NEW n \in Nat, NEW x \in 0 .. d - 1
  PROVE  (n * d + x) \div d = n
<1> DEFINE q == (n * d + x) \div d
<1>1. n * d \in Nat
  OBVIOUS
<1>2. q \in Int /\ d * q <= n * d + x /\ n * d + x < d * q + d
  BY <1>1
<1> HIDE DEF q
<1>3. ASSUME q >= n + 1 PROVE FALSE
  <2>1. d * q >= d * (n + 1)
    BY <1>2, <1>3
  <2>2. d * (n + 1) = n * d + d
    OBVIOUS
  <2> QED
    BY <1>1, <1>2, <2>1, <2>2
<1>4. ASSUME q + 1 <= n PROVE FALSE
  <2>1. d * (q + 1) <= d * n
    BY <1>2, <1>4
  <2>2. d * (q + 1) = d * q + d /\ d * n = n * d
    BY <1>2
  <2> QED
    BY <1>1, <1>2, <2>1, <2>2
<1>5. q = n
  BY <1>2, <1>3, <1>4
<1> QED
  BY <1>5 DEF q

\* Two digits are below the product of their bases.
LEMMA TwoDigits ==
  ASSUME NEW R \in Nat \ {0}, NEW W \in Nat \ {0}, NEW r \in 0 .. R - 1, NEW i \in 0 .. W - 1
  PROVE  R * W \in Nat \ {0} /\ r * W + i \in 0 .. R * W - 1
<1>1. r * W \in Nat /\ R * W \in Nat \ {0}
  OBVIOUS
<1>2. (r + 1) * W <= R * W
  OBVIOUS
<1>3. (r + 1) * W = r * W + W
  OBVIOUS
<1> QED
  BY <1>1, <1>2, <1>3

\* The thread's index can be read back from what SessionNode packs.
LEMMA NodeFacts ==
  ASSUME NEW k \in Nat, NEW rand \in 0 .. RandWidth - 1, NEW i \in 0 .. TableSize - 1, NEW now \in Nat
  PROVE  LET e == SessionNode(k, rand, i, now)
         IN  e \in Nodes /\ ThreadIndex(e) = k /\ e.now = now
<1>1. PICK R \in Nat \ {0}, W \in Nat \ {0} : R = RandWidth /\ W = IndexWidth
  BY IndexesFit
<1>2. rand \in 0 .. R - 1 /\ i \in 0 .. W - 1
  BY <1>1, IndexesFit
<1>3. R * W \in Nat \ {0} /\ rand * W + i \in 0 .. R * W - 1
  BY <1>2, TwoDigits
<1>4. (k * R + rand) * W + i = k * (R * W) + (rand * W + i)
  BY <1>2
<1>5. k * (R * W) \in Nat
  BY <1>3
<1>6. (k * (R * W) + (rand * W + i)) \div (R * W) = k
  BY <1>3, QuotientOfSum
<1>7. (k * R + rand) * W + i \in Nat
  BY <1>3, <1>4, <1>5
<1> QED
  BY <1>1, <1>4, <1>6, <1>7 DEF SessionNode, ThreadIndex, Nodes

\* A set of numbers that is not empty has a smallest one.
LEMMA Smallest ==
  ASSUME NEW S \in SUBSET Nat, S # {}
  PROVE  \E i \in S : \A j \in S : i <= j
<1> DEFINE T == {0 .. n : n \in S}
<1>1. T \subseteq FiniteSubsetsOf(Nat) /\ T # {}
  <2>1. ASSUME NEW n \in S PROVE 0 .. n \in FiniteSubsetsOf(Nat)
    <3>1. IsFiniteSet(0 .. n)
      BY FS_Interval
    <3>2. 0 .. n \in SUBSET Nat
      OBVIOUS
    <3> QED
      BY <3>1, <3>2 DEF FiniteSubsetsOf
  <2> QED
    BY <2>1
<1>2. \E t \in T : \A u \in T : ~ (<<u, t>> \in StrictSubsetOrdering(Nat))
  <2> HIDE DEF T
  <2> QED
    BY <1>1, FS_StrictSubsetOrderingWellFounded, WFMin
<1>3. PICK n \in S : \A x \in S : ~ (<<0 .. x, 0 .. n>> \in StrictSubsetOrdering(Nat))
  BY <1>2
<1>4. ASSUME NEW x \in S, ~ (n <= x) PROVE FALSE
  <2>1. 0 .. x \subseteq 0 .. n /\ 0 .. x # 0 .. n
    BY <1>4
  <2>2. 0 .. x \in SUBSET Nat /\ 0 .. n \in SUBSET Nat
    OBVIOUS
  <2> QED
    BY <1>3, <2>1, <2>2 DEF StrictSubsetOrdering
<1> QED
  BY <1>4

\* What addUdpSession adds: a node that was never given out, with its thread's index.
LEMMA AddedNode ==
  ASSUME IInv, HInv, NEW a \in Addrs, Live(a), NEW rand \in 0 .. RandWidth - 1,
         AddSession(a, rand)
  PROVE  \E node \in Nodes :
           /\ ThreadIndex(node) = thread[a].index /\ node.now = Len(issued)
           /\ thread' = [thread EXCEPT ![a] = [thread[a] EXCEPT !.table = @ \cup {node}]]
           /\ issued' = Append(issued, [node |-> node, by |-> a])
<1> DEFINE free == {i \in 0 .. TableSize - 1 : \A e \in thread[a].table : SessionIndex(e) # i}
           first == CHOOSE i \in free : \A j \in free : i <= j
           node == SessionNode(thread[a].index, rand, first, Len(issued))
<1>1. /\ free # {}
      /\ thread' = [thread EXCEPT ![a].table = @ \cup {node}]
      /\ issued' = Append(issued, [node |-> node, by |-> a])
  BY Zenon DEF AddSession
<1>2. free \in SUBSET Nat
  BY IndexesFit
<1>3. first \in free
  <2> HIDE DEF free
  <2> QED
    BY <1>1, <1>2, Smallest
<1>4. first \in 0 .. TableSize - 1
  BY <1>3
<1>5. thread[a].index \in Nat /\ Len(issued) \in Nat
  BY DEF IInv, ThreadsInSlots, Ports, HInv, HandlesAreCounted
<1> HIDE DEF first
<1>6. node \in Nodes /\ ThreadIndex(node) = thread[a].index /\ node.now = Len(issued)
  BY <1>4, <1>5, NodeFacts
<1> HIDE DEF node
<1> QED
  BY <1>1, <1>6

\* Who gave out a handle is a thread's address.
LEMMA HandleIsRecord ==
  ASSUME HandlesAreCounted, NEW n \in DOMAIN issued
  PROVE  issued[n].node \in Nodes /\ issued[n].by \in Addrs
<1>1. PICK S : S = [node : Nodes, by : Addrs]
  OBVIOUS
<1>2. issued \in Seq(S)
  BY <1>1 DEF HandlesAreCounted
<1>3. issued[n] \in S
  BY <1>2
<1> QED
  BY <1>1, <1>3

\* The tables lose sessions only, and no slot is renamed: the handles mean what they did.
LEMMA TablesShrink ==
  ASSUME HInv, SlotsByAddress', UNCHANGED <<issued, called>>,
         stage' # "none" => stage # "none" /\ ctrl'.addrs = ctrl.addrs,
         \A a \in Addrs : \A e \in thread'[a].table :
           e \in thread[a].table /\ thread'[a].index = thread[a].index
  PROVE  HInv'
<1>1. HandlesNameSlots'
  BY DEF HInv, HandlesNameSlots, AddrCount, ThreadIndex
<1>2. HandlesAreCounted'
  BY DEF HInv, HandlesAreCounted
<1>3. TablesByIndex'
  BY DEF HInv, TablesByIndex, ThreadIndex
<1>4. CallsAreForHandles'
  BY DEF HInv, CallsAreForHandles, NotCalled
<1>5. HandlesFindTheirSession'
  <2> SUFFICES ASSUME called # NotCalled
               PROVE  /\ called.reached \subseteq {issued[called.made].by}
                      /\ issued[called.made].node \in thread'[issued[called.made].by].table =>
                           called.found
    BY DEF HandlesFindTheirSession, NotCalled
  <2>1. issued[called.made].by \in Addrs
    BY HandleIsRecord DEF HInv, CallsAreForHandles
  <2> QED
    BY <2>1 DEF HInv, HandlesFindTheirSession
<1> QED
  BY <1>1, <1>2, <1>3, <1>4, <1>5 DEF HInv

\* A thread adds a session: its handle leads to the thread, and is not one of those before.
LEMMA AddSessionKeepsHandles ==
  ASSUME IInv, HInv, NEW a \in Addrs, Live(a), NEW rand \in 0 .. RandWidth - 1,
         AddSession(a, rand), UNCHANGED <<stage, ctrl, called>>
  PROVE  HInv'
<1>1. PICK node \in Nodes :
        /\ ThreadIndex(node) = thread[a].index /\ node.now = Len(issued)
        /\ thread' = [thread EXCEPT ![a] = [thread[a] EXCEPT !.table = @ \cup {node}]]
        /\ issued' = Append(issued, [node |-> node, by |-> a])
  BY AddedNode
<1> DEFINE i == thread[a].index
           N == Len(issued)
<1>2. i \in Ports /\ ctrl.slot[i] = {a} /\ DOMAIN thread = Addrs
      /\ DOMAIN thread[a] = {"index", "run", "terminated", "table"}
  BY DEF IInv, ShapesOK, ThreadsInSlots
<1>3. i < AddrCount /\ a = ctrl.addrs[i + 1]
  BY <1>2 DEF HInv, SlotsByAddress
<1>4. /\ issued \in Seq([node : Nodes, by : Addrs]) /\ N \in Nat
      /\ \A n \in DOMAIN issued : issued[n].node.now = n - 1 /\ n \in 1 .. N
  BY DEF HInv, HandlesAreCounted
<1>5. [node |-> node, by |-> a] \in [node : Nodes, by : Addrs]
  OBVIOUS
<1>6. /\ issued' \in Seq([node : Nodes, by : Addrs]) /\ DOMAIN issued' = 1 .. N + 1
      /\ issued'[N + 1].node = node /\ issued'[N + 1].by = a
      /\ \A n \in DOMAIN issued : n \in 1 .. N /\ issued'[n] = issued[n]
  BY <1>1, <1>4, <1>5
<1>7. /\ thread'[a].table = thread[a].table \cup {node} /\ thread'[a].index = i
      /\ \A b \in Addrs : b # a => thread'[b] = thread[b]
  BY <1>1, <1>2
<1>8. \A n \in DOMAIN issued' : n \in DOMAIN issued \/ n = N + 1
  BY <1>4, <1>6
<1>9. HandlesNameSlots'
  BY <1>1, <1>2, <1>3, <1>6, <1>8 DEF HInv, HandlesNameSlots, AddrCount, ThreadIndex
<1>10. HandlesAreCounted'
  BY <1>1, <1>4, <1>6, <1>8 DEF HandlesAreCounted
<1>11. SlotsByAddress'
  BY DEF HInv, SlotsByAddress, AddrCount
<1>12. TablesByIndex'
  BY <1>1, <1>7 DEF HInv, TablesByIndex, ThreadIndex
<1>13. CallsAreForHandles'
  BY <1>4, <1>6 DEF HInv, CallsAreForHandles, NotCalled
<1>14. HandlesFindTheirSession'
  <2> SUFFICES ASSUME called # NotCalled
               PROVE  /\ called.reached \subseteq {issued'[called.made].by}
                      /\ issued'[called.made].node \in thread'[issued'[called.made].by].table =>
                           called.found
    BY DEF HandlesFindTheirSession, NotCalled
  <2>1. called.made \in DOMAIN issued /\ called.made \in 1 .. N
    BY <1>4 DEF HInv, CallsAreForHandles
  <2>2. issued'[called.made] = issued[called.made] /\ issued[called.made].node # node
    BY <1>1, <1>4, <1>6, <2>1
  <2>3. issued[called.made].by \in Addrs
    BY <2>1, HandleIsRecord DEF HInv
  <2> QED
    BY <1>7, <2>2, <2>3 DEF HInv, HandlesFindTheirSession
<1> QED
  BY <1>9, <1>10, <1>11, <1>12, <1>13, <1>14 DEF HInv

\* A session that is in its thread's table is found through its handle.
LEMMA HandleReaches ==
  ASSUME IInv, HInv, NEW n \in DOMAIN issued,
         issued[n].node \in thread[issued[n].by].table
  PROVE  /\ ctrl.slot[ThreadIndex(issued[n].node)] = {issued[n].by}
         /\ issued[n].node \in FindNode(issued[n].by, issued[n].node)
<1>1. issued[n].by \in Addrs
  BY HandleIsRecord DEF HInv
<1>2. Live(issued[n].by)
  BY <1>1 DEF IInv, ThreadsInSlots, NoSocket
<1>3. ThreadIndex(issued[n].node) = thread[issued[n].by].index
  BY <1>1 DEF HInv, TablesByIndex
<1> QED
  BY <1>1, <1>2, <1>3 DEF IInv, ThreadsInSlots, FindNode

\* A call for a handle.
LEMMA CallKeepsHandles ==
  ASSUME IInv, HInv, NEW n \in DOMAIN issued, CallBySession(n) \/ CallFromCallback(n)
  PROVE  HInv'
<1> DEFINE m == issued[n]
           reached == ctrl.slot[ThreadIndex(m.node)]
<1>1. /\ called' = [made |-> n, reached |-> reached,
                    found |-> \E a \in reached : FindNode(a, m.node) # {}]
      /\ UNCHANGED <<stage, ctrl, thread, issued>>
  BY DEF CallBySession, CallFromCallback, CallThread
<1>2. reached \subseteq {m.by}
  <2>1. CASE CallBySession(n)
    <3>1. /\ ThreadIndex(m.node) \in Ports
          /\ m.by = ctrl.addrs[ThreadIndex(m.node) + 1]
      BY <2>1 DEF CallBySession, HInv, HandlesNameSlots
    <3> QED
      BY <3>1 DEF HInv, SlotsByAddress
  <2>2. CASE CallFromCallback(n)
    BY <2>2, HandleReaches DEF CallFromCallback
  <2> QED
    BY <2>1, <2>2
<1>3. m.node \in thread[m.by].table => \E a \in reached : FindNode(a, m.node) # {}
  BY HandleReaches
<1>4. called'.made = n /\ called'.reached = reached
      /\ (called'.found <=> \E a \in reached : FindNode(a, m.node) # {})
  BY <1>1
<1>5. HandlesFindTheirSession'
  BY <1>1, <1>2, <1>3, <1>4 DEF HandlesFindTheirSession
<1>6. CallsAreForHandles'
  BY <1>1, <1>4 DEF CallsAreForHandles
<1>7. HandlesNameSlots'
  BY <1>1 DEF HInv, HandlesNameSlots, AddrCount, ThreadIndex
<1>8. HandlesAreCounted' /\ SlotsByAddress' /\ TablesByIndex'
  BY <1>1 DEF HInv, HandlesAreCounted, SlotsByAddress, TablesByIndex, AddrCount, ThreadIndex
<1> QED
  BY <1>5, <1>6, <1>7, <1>8 DEF HInv

\* A new module starts with no handles; those of the last one are gone with it.
LEMMA CreateKeepsHandles ==
  ASSUME IInv, NEW list \in AddrLists, CreateRudpModule(list)
  PROVE  HInv'
<1>1. /\ issued' = <<>> /\ called' = NotCalled /\ stage = "none"
      /\ ctrl'.slot = [i \in Ports |-> {}] /\ thread' = thread
  BY DEF CreateRudpModule, NoCtrl
<1>2. \A a \in Addrs : thread[a].table = {}
  BY <1>1 DEF IInv, ThreadsInSlots, SlotsFollowTheLoop, Live, NoSocket
<1>3. HandlesNameSlots'
  BY <1>1 DEF HandlesNameSlots
<1>4. HandlesAreCounted'
  BY <1>1 DEF HandlesAreCounted
<1>5. SlotsByAddress'
  BY <1>1 DEF SlotsByAddress
<1>6. TablesByIndex'
  BY <1>1, <1>2 DEF TablesByIndex
<1>7. CallsAreForHandles' /\ HandlesFindTheirSession'
  BY <1>1 DEF CallsAreForHandles, HandlesFindTheirSession, NotCalled
<1> QED
  BY <1>3, <1>4, <1>5, <1>6, <1>7 DEF HInv

\* The loops that start and stop the threads leave the handles alone where no thread changes.
LEMMA LoopsKeepHandles ==
  ASSUME IInv, HInv, UNCHANGED <<issued, called, thread>>, ctrl'.addrs = ctrl.addrs,
         ctrl'.slot = ctrl.slot, stage # "none"
  PROVE  HInv'
<1>1. SlotsByAddress'
  BY DEF HInv, SlotsByAddress, AddrCount
<1> QED
  BY <1>1, TablesShrink

\* One thread comes, goes, ends or loses a session.
LEMMA OneThreadKeepsHandles ==
  ASSUME IInv, HInv, UNCHANGED <<issued, called, stage>>, ctrl'.addrs = ctrl.addrs,
         SlotsByAddress', NEW a \in Addrs, NEW new,
         thread' = [thread EXCEPT ![a] = new],
         \A e \in new.table : e \in thread[a].table /\ new.index = thread[a].index
  PROVE  HInv'
<1>1. \A b \in Addrs : thread'[b] = IF b = a THEN new ELSE thread[b]
  BY DEF IInv, ShapesOK
<1>2. \A b \in Addrs : \A e \in thread'[b].table :
        e \in thread[b].table /\ thread'[b].index = thread[b].index
  BY <1>1
<1> QED
  BY <1>2, TablesShrink

\* What is known of the handles is inductive, beside what is known of the threads.
LEMMA NextKeepsHandles ==
  ASSUME IInv, HInv, turn \in Nat, [CtrlNext]_ctrlVars
  PROVE  HInv'
<1>a. AddrCount \in Nat /\ AddrCount <= MaxPorts /\ ctrl.addrs \in Seq(Addrs) /\ ctrl.at \in Nat
  BY DEF IInv, ShapesOK, AddrCount
<1>b. ctrl'.slot = ctrl.slot /\ ctrl'.addrs = ctrl.addrs => SlotsByAddress'
  BY DEF HInv, SlotsByAddress, AddrCount
<1>1. CASE UNCHANGED ctrlVars
  BY <1>1, <1>b, TablesShrink DEF ctrlVars
<1>2. ASSUME NEW list \in AddrLists, CreateRudpModule(list) PROVE HInv'
  BY <1>2, CreateKeepsHandles
<1>3. CASE InitFails \/ Created \/ CloseRudpModule
  <2>1. /\ ctrl'.slot = ctrl.slot /\ ctrl'.addrs = ctrl.addrs
        /\ UNCHANGED <<issued, called, thread>> /\ stage # "none"
    BY <1>3 DEF IInv, ShapesOK, InitFails, Created, CloseRudpModule
  <2> QED
    BY <2>1, LoopsKeepHandles
<1>4. CASE InitSocket
  <2> DEFINE addr == ctrl.addrs[ctrl.at + 1]
             new == [NoSocket EXCEPT !.index = ctrl.at, !.run = "running"]
  <2>1. /\ UNCHANGED <<issued, called, stage>> /\ thread' = [thread EXCEPT ![addr] = new]
        /\ ctrl' = [ctrl EXCEPT !.slot[ctrl.at] = {addr}, !.at = @ + 1]
        /\ ctrl.at < AddrCount
    BY <1>4, Zenon DEF InitSocket
  <2>2. addr \in Addrs /\ ctrl.at \in Ports
    BY <1>a, <2>1, PortsArePositive DEF Ports, AddrCount
  <2>3. new.table = {}
    BY DEF NoSocket
  <2>4. {addr} \in SUBSET Addrs
    BY <2>2
  <2> HIDE DEF new
  <2>5. PICK addr1 \in Addrs : addr1 = addr
    BY <2>2
  <2> HIDE DEF addr
  <2>6. /\ ctrl'.addrs = ctrl.addrs /\ ctrl'.slot[ctrl.at] = {addr1}
        /\ \A j \in Ports : j # ctrl.at => ctrl'.slot[j] = ctrl.slot[j]
    BY <2>1, <2>2, <2>4, <2>5, SlotChanges DEF IInv
  <2>7. SlotsByAddress'
    BY <2>1, <2>5, <2>6 DEF HInv, SlotsByAddress, AddrCount, addr
  <2> QED
    BY <2>1, <2>2, <2>3, <2>6, <2>7, OneThreadKeepsHandles
<1>5. CASE ReleaseNext
  <2>1. UNCHANGED <<thread, issued, called>> /\ stage = "closing"
    BY <1>5 DEF ReleaseNext
  <2>2. CASE ctrl.at = AddrCount
    <3>1. stage' = "none" /\ ctrl' = NoCtrl
      BY <1>5, <2>2 DEF ReleaseNext
    <3>2. SlotsByAddress'
      BY <3>1 DEF SlotsByAddress, NoCtrl
    <3> QED
      BY <2>1, <3>1, <3>2, TablesShrink
  <2>3. CASE ctrl.at # AddrCount
    <3>1. UNCHANGED stage /\ ctrl'.addrs = ctrl.addrs /\ ctrl'.slot = ctrl.slot
      BY <1>5, <2>3 DEF ReleaseNext, IInv, ShapesOK
    <3> QED
      BY <2>1, <3>1, LoopsKeepHandles
  <2> QED
    BY <2>2, <2>3
<1>6. ASSUME NEW a \in Addrs, StopThread(a) \/ ExecuteEnds(a) PROVE HInv'
  <2>1. /\ \/ thread' = [thread EXCEPT ![a] = [thread[a] EXCEPT !.terminated = TRUE]]
           \/ thread' = [thread EXCEPT ![a] = [thread[a] EXCEPT !.run = "ended"]]
        /\ UNCHANGED <<issued, called, stage, ctrl>>
    BY <1>6 DEF StopThread, ExecuteEnds
  <2>2. PICK new : /\ thread' = [thread EXCEPT ![a] = new]
                   /\ new.table = thread[a].table /\ new.index = thread[a].index
    BY <2>1 DEF IInv, ShapesOK
  <2> QED
    BY <1>b, <2>1, <2>2, OneThreadKeepsHandles
<1>7. ASSUME NEW a \in Addrs, ReleaseSocket(a) PROVE HInv'
  <2>1. /\ ctrl.at \in Ports
        /\ UNCHANGED <<issued, called, stage>> /\ thread' = [thread EXCEPT ![a] = NoSocket]
        /\ ctrl' = [ctrl EXCEPT !.slot[ctrl.at] = {}, !.at = @ + 1]
    BY <1>7, <1>a, PortsArePositive DEF ReleaseSocket, Ports
  <2>2. {} \in SUBSET Addrs
    OBVIOUS
  <2>3. /\ ctrl'.addrs = ctrl.addrs /\ ctrl'.slot[ctrl.at] = {}
        /\ \A j \in Ports : j # ctrl.at => ctrl'.slot[j] = ctrl.slot[j]
    BY <2>1, <2>2, SlotChanges DEF IInv
  <2>4. SlotsByAddress'
    BY <2>3 DEF HInv, SlotsByAddress, AddrCount
  <2>5. NoSocket.table = {}
    BY DEF NoSocket
  <2> QED
    BY <2>1, <2>3, <2>4, <2>5, OneThreadKeepsHandles
<1>8. ASSUME NEW a \in Addrs, AcceptSession(a) PROVE HInv'
  <2>1. Live(a) /\ UNCHANGED <<stage, ctrl, called>>
    BY <1>8 DEF AcceptSession, Live
  <2>2. PICK rand \in 0 .. RandWidth - 1 : AddSession(a, rand)
    BY <1>8 DEF AcceptSession
  <2> QED
    BY <2>1, <2>2, AddSessionKeepsHandles
<1>9. ASSUME NEW a \in Addrs, NEW node, SessionCloses(a, node) PROVE HInv'
  <2>1. /\ thread' = [thread EXCEPT ![a] = [thread[a] EXCEPT !.table = @ \ {node}]]
        /\ UNCHANGED <<issued, called, stage, ctrl>>
    BY <1>9 DEF SessionCloses
  <2> DEFINE new == [thread[a] EXCEPT !.table = @ \ {node}]
  <2>2. new.table \subseteq thread[a].table /\ new.index = thread[a].index
    BY DEF IInv, ShapesOK
  <2> HIDE DEF new
  <2>3. thread' = [thread EXCEPT ![a] = new]
    BY <2>1 DEF new
  <2> QED
    BY <1>b, <2>1, <2>2, <2>3, OneThreadKeepsHandles
<1>10. ASSUME NEW from, CreateFrom(from) PROVE HInv'
  <2>1. UNCHANGED <<stage, ctrl, called>>
    BY <1>10 DEF CreateFrom
  <2>2. PICK i \in MallocThread(from), rand \in 0 .. RandWidth - 1 :
          \E a \in ctrl.slot[i] : AddSession(a, rand)
    BY <1>10 DEF CreateFrom
  <2>3. i \in Ports
    <3>1. AddrCount \in Nat \ {0} /\ AddrCount <= MaxPorts
      BY <1>10, <1>a DEF CreateFrom
    <3>2. (turn + 1) % AddrCount \in 0 .. AddrCount - 1
      BY <3>1
    <3>3. 0 .. AddrCount - 1 \subseteq Ports
      BY <3>1, PortsArePositive DEF Ports
    <3> QED
      BY <2>2, <3>2, <3>3 DEF MallocThread
  <2>4. PICK a \in ctrl.slot[i] : AddSession(a, rand)
    BY <2>2
  <2>5. a \in Addrs /\ Live(a)
    BY <2>3, <2>4, SlotOfThread
  <2> QED
    BY <2>1, <2>4, <2>5, AddSessionKeepsHandles
<1>11. ASSUME NEW n \in DOMAIN issued, CallBySession(n) \/ CallFromCallback(n) PROVE HInv'
  BY <1>11, CallKeepsHandles
<1>12. ASSUME NEW type, NEW time, SetConfigInfo(type, time) PROVE HInv'
  BY <1>12, <1>b, TablesShrink DEF SetConfigInfo
<1>13. ASSUME NEW a \in Addrs, StrayEnds(a) PROVE HInv'
  BY <1>13, <1>b, TablesShrink DEF StrayEnds
<1> QED
  BY <1>1, <1>2, <1>3, <1>4, <1>5, <1>6, <1>7, <1>8, <1>9, <1>10, <1>11, <1>12, <1>13 DEF CtrlNext

\* A handle leads to the thread that made it and to no other, and finds its session exactly
\* while that exists: for any number of ports, addresses and sessions, as long as a table's
\* index has room in its bits (HandlesFindTheirSession).
THEOREM HandlesAlwaysFindTheirSession == CtrlSpec => []HandlesFindTheirSession
<1> DEFINE Ind == IInv /\ turn \in Nat /\ HInv
<1>1. CtrlInit => Ind
  <2> SUFFICES ASSUME CtrlInit PROVE HInv
    BY InitOwns DEF CtrlInit
  <2> QED
    BY DEF CtrlInit, NoCtrl, NoSocket, HInv, HandlesNameSlots, HandlesAreCounted, SlotsByAddress,
           TablesByIndex, CallsAreForHandles, HandlesFindTheirSession, Ports
<1>2. Ind /\ [CtrlNext]_ctrlVars => Ind'
  BY NextKeeps, TurnKeeps, NextKeepsHandles
<1>3. Ind => HandlesFindTheirSession
  BY DEF HInv
<1> QED
  BY <1>1, <1>2, <1>3, PTL DEF CtrlSpec
=============================================================================
