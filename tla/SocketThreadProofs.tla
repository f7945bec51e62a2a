-------------------------- MODULE SocketThreadProofs --------------------------
(***************************************************************************)
(* The safety properties of SocketThread, for every number of sessions,    *)
(* table size, network capacity and depth of callbacks.                    *)
(*                                                                         *)
(* Shape is the type of the state.  Each handler has a lemma that says     *)
(* what it leaves (...Handled); SessionSteps and StepBrings sum them up:   *)
(* what any step does to a session, and which frames, datagrams and        *)
(* sessions it brings.  On them stand six invariants, each inductive with  *)
(* those before it: TableInv, NamesInv, KnownInv, AcceptInv, GoneInv and   *)
(* ToldInv.                                                                *)
(***************************************************************************)
EXTENDS SocketThread, FiniteSetTheorems, TLAPS

-----------------------------------------------------------------------------
(* Hypotheses.                                                             *)

\* No application creates a session from a callback.  (From one of the sweep it
\* puts a session where the sweep then sets m_nMaxIndex below it.)
NoCreation == \A c \in Calls : <<c, "create_session">> \notin Reentry

\* No application closes a session from on_disconnection, where Disconnect has
\* not set the status yet and would tell it again.
NoClosingAtTheEnd == <<"on_disconnection", "close_session">> \notin Reentry

-----------------------------------------------------------------------------
(* The shape of the state.                                                 *)

\* What a handler does when the application comes back to it.
Callbacks ==
    {Call("on_accept", "NORMAL"), Call("on_connection", "none"),
     Call("on_disconnection", "FIN"), Call("on_disconnection", "FIN2"),
     Call("on_disconnection", "timeout")}

AnyFrame ==
    [c : [call : Calls \cup {"none"}, then : Thens], obj : Nat, sweep : BOOLEAN,
     i : Nat, max : Nat, busy : BOOLEAN]

Syns      == [type : {"syn"}, to : Hosts, rand : Hosts \X Nat, loc : Ids]
Syn2s     == [type : {"syn2"}, to : Hosts, dest : Ids, loc : Ids, err : {FALSE}]
Rests     == [type : {"fin", "fin2", "keepalive", "keepalive_ack"}, to : Hosts, dest : Ids]
Datagrams == Syns \cup Syn2s \cup Rests

HeapOK == /\ heap \in [Hosts -> Seq(Sessions)]
          /\ \A h \in Hosts : Len(heap[h]) <= MaxObjects[h]

TabOK == /\ DOMAIN tab = Hosts
         /\ \A h \in Hosts : tab[h] \in [Slots(h) -> {0} \cup DOMAIN heap[h]]
         /\ maxIndex \in [Hosts -> Nat]
         /\ \A h \in Hosts : maxIndex[h] <= MaxSessions[h]

\* The sweep goes through indexes of the table; a callback is for an object.
FrameOK(h, objects, f) ==
    IF f.sweep THEN f.c = NoCall /\ f.i < f.max /\ f.max <= MaxSessions[h]
               ELSE f.c \in Callbacks /\ f.obj \in objects

\* Nothing is suspended below a sweep.
FramesOK(h, objects, b) ==
    /\ b \in Seq(AnyFrame)
    /\ \A k \in DOMAIN b : FrameOK(h, objects, b[k]) /\ (b[k].sweep => k = Len(b))

StackOK == /\ stack \in [Hosts -> Seq(AnyFrame)]
           /\ \A h \in Hosts : FramesOK(h, DOMAIN heap[h], stack[h])

NetOK == /\ net \subseteq Datagrams
         /\ IsFiniteSet(net)
         /\ Cardinality(net) <= NetCap

Shape == HeapOK /\ TabOK /\ StackOK /\ NetOK

-----------------------------------------------------------------------------
(* The table.                                                              *)

\* The sweep, if one is among the suspended handlers b.
Sweeps(b) == {f \in {b[k] : k \in DOMAIN b} : f.sweep}

\* An entry is a session that exists, at the index that its id says.
Entries(h) ==
    \A i \in Slots(h) : tab[h][i] # 0 =>
        heap[h][tab[h][i]].alive /\ heap[h][tab[h][i]].id.idx = i

EveryoneListed(h) == \A n \in DOMAIN heap[h] : heap[h][n].alive => Listed(h, n)

\* An entry is below m_nMaxIndex, or the sweep has still to come to it.
Reached(h) ==
    \A i \in Slots(h) : tab[h][i] # 0 =>
        /\ Sweeps(stack[h]) = {} => i < maxIndex[h]
        /\ \A f \in Sweeps(stack[h]) : i < f.max /\ (i < maxIndex[h] \/ f.i <= i)

TableInv == \A h \in Hosts : Entries(h) /\ EveryoneListed(h) /\ Reached(h)

-----------------------------------------------------------------------------
(* Names.                                                                  *)

\* Session rand[2] of host g is the one that made the attempt rand, under id.
Attempt(g, rand, id) ==
    /\ rand[1] = g /\ rand[2] \in DOMAIN heap[g]
    /\ heap[g][rand[2]].rand = rand
    /\ heap[g][rand[2]].id = id

\* A session was made by its own host, as rand says, or was accepted for an
\* attempt of the other host.
Named(h, n) ==
    LET s == heap[h][n]
    IN  /\ s.rand[1] = h => s.rand[2] = n
        /\ s.rand[1] # h => Attempt(Other(h), s.rand, s.dest) /\ s.ups = 1
        /\ s.status = "CONNECTING" => s.rand[1] = h

SynsNamed == \A m \in net : m.type = "syn" => Attempt(Other(m.to), m.rand, m.loc)

AcceptsNamed ==
    \A h \in Hosts : \A k \in DOMAIN stack[h] :
        stack[h][k].c.call = "on_accept" => heap[h][stack[h][k].obj].rand[1] # h

NamesInv ==
    /\ \A h \in Hosts : \A n \in DOMAIN heap[h] : Named(h, n)
    /\ SynsNamed
    /\ AcceptsNamed

\* The object's id may be in use at the other host.
Used(h, s) == s.asked \/ s.rand[1] # h \/ s.status = "CLOSE"

Known(h, id) == id = NoId \/ \E k \in DOMAIN heap[h] : heap[h][k].id = id /\ Used(h, heap[h][k])

\* What a session has as the id of its other end is in use there; nothing
\* reaches a session that the application has not connected yet.
KnownEnd(h, n) ==
    LET s == heap[h][n]
    IN  /\ Known(Other(h), s.dest)
        /\ s.rand[1] = h /\ ~s.asked => s.status \in {"NONE", "CLOSE"} /\ s.dest = NoId
        /\ s.status = "CONNECTING" => s.asked /\ s.dest = NoId
        /\ s.rand[1] = h /\ s.dest # NoId => s.ups > 0

KnownDatagram(m) ==
    /\ m.type = "syn" => Known(Other(m.to), m.loc)
    /\ m.type # "syn" => Known(m.to, m.dest)
    /\ m.type = "syn2" => Known(Other(m.to), m.loc)

KnownFrame(h, f) == ~f.sweep => heap[h][f.obj].asked \/ heap[h][f.obj].rand[1] # h

KnownInv ==
    /\ \A h \in Hosts : \A n \in DOMAIN heap[h] : KnownEnd(h, n)
    /\ \A m \in net : KnownDatagram(m)
    /\ \A h \in Hosts : \A k \in DOMAIN stack[h] : KnownFrame(h, stack[h][k])

\* A SYN2 comes from a session accepted for the host that it goes to.
Syn2Accepted(m) ==
    m.type = "syn2" =>
        \E k \in DOMAIN heap[Other(m.to)] :
            /\ heap[Other(m.to)][k].id = m.loc
            /\ heap[Other(m.to)][k].dest = m.dest
            /\ heap[Other(m.to)][k].rand[1] = m.to

UpIsAccepted(h, n) ==
    heap[h][n].rand[1] = h /\ heap[h][n].ups > 0 =>
        \E k \in DOMAIN heap[Other(h)] :
            /\ heap[Other(h)][k].id = heap[h][n].dest
            /\ heap[Other(h)][k].dest = heap[h][n].id
            /\ heap[Other(h)][k].rand[1] = h

AcceptInv ==
    /\ \A m \in net : Syn2Accepted(m)
    /\ \A h \in Hosts : \A n \in DOMAIN heap[h] : UpIsAccepted(h, n)

\* Why a session may be ended by the other side.
Reason(h, n) ==
    \/ \E k \in Partner(h, n) : heap[Other(h)][k].downs > 0
    \/ \E j, k \in DOMAIN heap[Other(h)] :
         j # k /\ heap[Other(h)][j].rand = heap[h][n].rand /\ heap[Other(h)][k].rand = heap[h][n].rand

\* A FIN comes from a session that was told that it is gone.
FinTold(m) ==
    m.type = "fin" /\ m.dest # NoId =>
        \E o \in DOMAIN heap[Other(m.to)] :
            heap[Other(m.to)][o].dest = m.dest /\ heap[Other(m.to)][o].downs > 0

GoneFrame(h, f) ==
    /\ f.c.call = "on_disconnection" => heap[h][f.obj].downs > 0
    /\ f.c.then = "FIN2" =>
          /\ heap[h][f.obj].status # "CONNECTING"
          /\ heap[h][f.obj].ups > 0 => Reason(h, f.obj)

GoneSession(h, n) ==
    /\ heap[h][n].status = "FIN" => heap[h][n].downs > 0
    /\ heap[h][n].status = "FIN2" /\ heap[h][n].ups > 0 => Reason(h, n)

GoneInv ==
    /\ \A m \in net : FinTold(m)
    /\ \A h \in Hosts : \A k \in DOMAIN stack[h] : GoneFrame(h, stack[h][k])
    /\ \A h \in Hosts : \A n \in DOMAIN heap[h] : GoneSession(h, n)

-----------------------------------------------------------------------------
(* What the application was told.                                          *)

\* A callback for session n is under way.
Pending(h, n, call) ==
    \E k \in DOMAIN stack[h] : stack[h][k].obj = n /\ stack[h][k].c.call = call

\* Nothing interrupts on_disconnection, and on_accept interrupts nothing.
Placed(b) ==
    \A k \in DOMAIN b :
        /\ b[k].c.call = "on_disconnection" => k = 1
        /\ b[k].c.call = "on_accept" => k = Len(b)

ToldFrame(h, f) ==
    LET s == heap[h][f.obj]
    IN  /\ f.c.call = "on_disconnection" => s.status \in {"CONNECTING", "NORMAL"} /\ s.downs = 1
        /\ f.c.call = "on_accept" => s.status = "NONE" /\ s.ups = 1 /\ s.downs = 0

\* What the application knows of a session that is going on or has ended.
GoingOn(s, ending, accepting) ==
    /\ s.status \in {"NONE", "CONNECTING", "NORMAL"} /\ ~ending => s.downs = 0 /\ ~s.closed
    /\ s.status \in {"NONE", "CONNECTING"} /\ ~accepting => s.ups = 0
    /\ s.status = "NORMAL" => s.ups = 1

Over(s) == s.status \in {"FIN", "FIN2", "CLOSE"} => s.ups <= 1 /\ s.downs <= 1 /\ s.ups <= s.downs

\* Of a session it has not connected yet the application has not heard: an earlier
\* one's FIN, under the same id, may end it.
Idle(h, s) ==
    s.rand[1] = h /\ ~s.asked =>
        s.status \in {"NONE", "FIN2", "CLOSE"} /\ s.ups = 0 /\ s.downs = 0 /\ ~s.closed

ToldSession(h, n) ==
    /\ GoingOn(heap[h][n], Pending(h, n, "on_disconnection"), Pending(h, n, "on_accept"))
    /\ Over(heap[h][n])
    /\ Idle(h, heap[h][n])

Told(h) ==
    /\ Placed(stack[h])
    /\ \A k \in DOMAIN stack[h] : ToldFrame(h, stack[h][k])
    /\ \A n \in DOMAIN heap[h] : ToldSession(h, n)

ToldInv == \A h \in Hosts : Told(h)

-----------------------------------------------------------------------------
(* Facts about the operators the model is built from.                      *)

\* A nonempty set of naturals has a smallest element.
LEMMA LeastOfNat ==
    ASSUME NEW S \in SUBSET Nat, S # {}
    PROVE  \E n \in S : \A x \in S : n <= x
<1> DEFINE T == {0 .. n : n \in S}
<1>1. T \subseteq FiniteSubsetsOf(Nat) /\ T # {}
  <2>1. ASSUME NEW n \in S
        PROVE  0 .. n \in FiniteSubsetsOf(Nat)
    <3>1. IsFiniteSet(0 .. n)
      BY FS_Interval
    <3>2. 0 .. n \in SUBSET Nat
      OBVIOUS
    <3> QED
      BY <3>1, <3>2 DEF FiniteSubsetsOf
  <2> QED
    BY <2>1
<1>2. \E t \in T : \A u \in T : ~(<<u, t>> \in StrictSubsetOrdering(Nat))
  <2> HIDE DEF T
  <2> QED
    BY <1>1, FS_StrictSubsetOrderingWellFounded, WFMin
<1>3. PICK n \in S : \A x \in S : ~(<<0 .. x, 0 .. n>> \in StrictSubsetOrdering(Nat))
  BY <1>2
<1>4. ASSUME NEW x \in S, ~(n <= x)
      PROVE  FALSE
  <2>1. 0 .. x \subseteq 0 .. n /\ 0 .. x # 0 .. n
    BY <1>4
  <2>2. 0 .. x \in SUBSET Nat /\ 0 .. n \in SUBSET Nat
    OBVIOUS
  <2> QED
    BY <1>3, <2>1, <2>2 DEF StrictSubsetOrdering
<1> QED
  BY <1>4

\* There are two hosts, each the other of the other.
LEMMA OtherHost ==
    ASSUME NEW h \in Hosts
    PROVE  /\ Other(h) \in Hosts /\ Other(h) # h /\ Other(Other(h)) = h
           /\ Hosts = {h, Other(h)}
<1>1. PICK g \in Hosts : Hosts = {g, h} /\ g # h
  BY TwoHosts
<1>2. Other(h) = g
  BY <1>1 DEF Other
<1>3. Other(g) = h
  BY <1>1 DEF Other
<1> QED
  BY <1>1, <1>2, <1>3

\* addUdpSession's slot is free, or it is the one at m_nMaxIndex.
LEMMA SlotFacts ==
    ASSUME NEW h \in Hosts, maxIndex[h] \in Nat
    PROVE  /\ Slot(h) \in Nat /\ Slot(h) <= maxIndex[h]
           /\ Slot(h) < maxIndex[h] => tab[h][Slot(h)] = 0
<1>1. CASE FreeSlots(h) = {}
  BY <1>1 DEF Slot
<1>2. CASE FreeSlots(h) # {}
  <2>1. FreeSlots(h) \in SUBSET Nat
    BY DEF FreeSlots
  <2>2. \E i \in FreeSlots(h) : \A j \in FreeSlots(h) : i <= j
    BY <1>2, <2>1, LeastOfNat
  <2>3. Slot(h) \in FreeSlots(h)
    BY <1>2, <2>2 DEF Slot
  <2> QED
    BY <2>3 DEF FreeSlots
<1> QED
  BY <1>1, <1>2

\* The session a repeated SYN is answered by is one that this SYN made.
LEMMA FirstSynSession ==
    ASSUME NEW h, NEW m, ChkSynSession(h, m) # {}, maxIndex[h] \in Nat
    PROVE  (CHOOSE i \in ChkSynSession(h, m) : \A j \in ChkSynSession(h, m) : i <= j)
                \in ChkSynSession(h, m)
<1>1. ChkSynSession(h, m) \in SUBSET Nat
  BY DEF ChkSynSession
<1>2. \E i \in ChkSynSession(h, m) : \A j \in ChkSynSession(h, m) : i <= j
  BY <1>1, LeastOfNat
<1> QED
  BY <1>2

\* A frame put on top of others, and the top frame taken off.
LEMMA PushFacts ==
    ASSUME NEW S, NEW b \in Seq(S), NEW f \in S
    PROVE  /\ <<f>> \o b \in Seq(S)
           /\ Len(<<f>> \o b) = Len(b) + 1
           /\ (<<f>> \o b)[1] = f
           /\ \A k \in DOMAIN (<<f>> \o b) : k # 1 => k - 1 \in DOMAIN b /\ (<<f>> \o b)[k] = b[k - 1]
           /\ \A k \in DOMAIN b : k + 1 \in DOMAIN (<<f>> \o b) /\ (<<f>> \o b)[k + 1] = b[k]
  OBVIOUS

LEMMA PopFacts ==
    ASSUME NEW S, NEW b \in Seq(S), b # <<>>
    PROVE  /\ Tail(b) \in Seq(S)
           /\ Len(Tail(b)) + 1 = Len(b) /\ 1 \in DOMAIN b
           /\ \A k \in DOMAIN Tail(b) : k + 1 \in DOMAIN b /\ Tail(b)[k] = b[k + 1]
           /\ \A k \in DOMAIN b : k # 1 => k - 1 \in DOMAIN Tail(b) /\ b[k] = Tail(b)[k - 1]
  OBVIOUS

-----------------------------------------------------------------------------
(* What each handler does to a session.                                    *)

Types == {"syn", "syn2", "fin", "fin2", "keepalive", "keepalive_ack"}

\* No handler changes who a session is, or deletes it.
Kept(s, e) ==
    /\ e.s \in Sessions /\ e.s.id = s.id /\ e.s.rand = s.rand /\ e.s.alive = s.alive
    /\ e.c \in {NoCall} \cup Callbacks
    /\ e.out = {} \/ \E t \in Types : e.out = {t}

LEMMA ConnectFacts ==
    ASSUME NEW s \in Sessions, ~s.asked, NEW e, e = Connect(s)
    PROVE  /\ Kept(s, e) /\ e.c = NoCall /\ e.out = {"syn"}
           /\ e.s.dest = s.dest /\ e.s.closed = s.closed /\ e.s.ups = s.ups /\ e.s.downs = s.downs
           /\ s.status = "CLOSE" => e.s.status = "CLOSE" /\ ~e.s.asked
           /\ s.status # "CLOSE" => e.s.status = "CONNECTING" /\ e.s.asked
  BY DEF Connect, Effect, SetStatus, Sessions, Statuses, Kept, Types

LEMMA CloseFacts ==
    ASSUME NEW s \in Sessions, s.status \in {"CONNECTING", "NORMAL"},
           NEW e, e = Disconnect([s EXCEPT !.closed = TRUE], "FIN")
    PROVE  /\ Kept(s, e) /\ e.c = Call("on_disconnection", "FIN") /\ e.out = {"fin"}
           /\ e.s.dest = s.dest /\ e.s.asked = s.asked /\ e.s.ups = s.ups
           /\ e.s.status = s.status /\ e.s.downs = s.downs + 1 /\ e.s.closed
<1> DEFINE c == [s EXCEPT !.closed = TRUE]
<1>1. /\ c \in Sessions /\ c.id = s.id /\ c.dest = s.dest /\ c.rand = s.rand /\ c.status = s.status
      /\ c.alive = s.alive /\ c.asked = s.asked /\ c.ups = s.ups /\ c.downs = s.downs /\ c.closed
  BY DEF Sessions
<1> HIDE DEF c
<1>2. e = Disconnect(c, "FIN")
  BY DEF c
<1> QED
  BY <1>1, <1>2 DEF Disconnect, Effect, Call, Sessions, Kept, Types, Callbacks

LEMMA AcceptFacts ==
    ASSUME NEW id \in Ids, NEW dest \in Ids, NEW rand \in Hosts \X Nat,
           NEW e, e = OnAccept(NewSession(id, dest, rand))
    PROVE  /\ e.s \in Sessions /\ e.c = Call("on_accept", "NORMAL") /\ e.out = {"syn2"}
           /\ e.s.id = id /\ e.s.dest = dest /\ e.s.rand = rand /\ e.s.status = "NONE" /\ e.s.alive
           /\ ~e.s.asked /\ ~e.s.closed /\ e.s.ups = 1 /\ e.s.downs = 0
<1> DEFINE s == NewSession(id, dest, rand)
<1>1. /\ s \in Sessions /\ s.id = id /\ s.dest = dest /\ s.rand = rand /\ s.status = "NONE" /\ s.alive
      /\ ~s.asked /\ ~s.closed /\ s.ups = 0 /\ s.downs = 0
  BY DEF NewSession, Sessions, Statuses
<1> HIDE DEF s
<1>2. e = OnAccept(s)
  BY DEF s
<1> QED
  BY <1>1, <1>2 DEF OnAccept, Effect, Sessions

LEMMA NewSessionFacts ==
    ASSUME NEW id \in Ids, NEW rand \in Hosts \X Nat, NEW s, s = NewSession(id, NoId, rand)
    PROVE  /\ s \in Sessions
           /\ s.id = id /\ s.dest = NoId /\ s.rand = rand /\ s.status = "NONE" /\ s.alive
           /\ ~s.asked /\ ~s.closed /\ s.ups = 0 /\ s.downs = 0
  BY DEF NewSession, Sessions, Statuses, NoId, Ids

\* A SYN2 opens a connecting session; a FIN ends one or has the application
\* told first; a FIN2 deletes what is closing; the rest leaves the status.
LEMMA ProcUdpMsgFacts ==
    ASSUME NEW s \in Sessions, NEW m \in Datagrams, m.type # "syn", NEW e, e = ProcUdpMsg(s, m)
    PROVE  /\ Kept(s, e) /\ e.s.asked = s.asked /\ e.s.closed = s.closed
           /\ \/ /\ e.s.dest = s.dest /\ e.s.status = s.status /\ e.s.ups = s.ups /\ e.s.downs = s.downs
                 /\ e.c = NoCall /\ e.out \subseteq {"keepalive_ack"}
              \/ /\ m.type = "syn2" /\ s.status = "CONNECTING"
                 /\ e.s.dest = m.loc /\ e.s.status = "NORMAL" /\ e.s.ups = s.ups + 1 /\ e.s.downs = s.downs
                 /\ e.c = Call("on_connection", "none") /\ e.out = {"keepalive"}
              \/ /\ m.type = "fin" /\ s.status = "NORMAL"
                 /\ e.s.dest = s.dest /\ e.s.status = s.status /\ e.s.ups = s.ups /\ e.s.downs = s.downs + 1
                 /\ e.c = Call("on_disconnection", "FIN2") /\ e.out = {"fin2"}
              \/ /\ m.type = "fin" /\ s.status # "NORMAL"
                 /\ e.s.dest = s.dest /\ e.s.ups = s.ups /\ e.s.downs = s.downs
                 /\ e.s.status = IF s.status = "CLOSE" THEN "CLOSE" ELSE "FIN2"
                 /\ e.c = NoCall /\ e.out = {"fin2"}
              \/ /\ m.type = "fin2" /\ s.status \notin {"NORMAL", "CLOSE"}
                 /\ e.s.dest = s.dest /\ e.s.status = "CLOSE" /\ e.s.ups = s.ups /\ e.s.downs = s.downs
                 /\ e.c = NoCall /\ e.out = {"fin2"}
<1>1. CASE m.type = "syn2"
  <2>1. m \in Syn2s
    BY <1>1 DEF Datagrams, Syns, Rests
  <2>2. m.loc \in Ids /\ ~m.err
    BY <2>1 DEF Syn2s
  <2>3. e = ProcSyn2(s, m)
    BY <1>1 DEF ProcUdpMsg
  <2>4. CASE s.status # "CONNECTING"
    BY <2>3, <2>4 DEF ProcSyn2, Quiet, Effect, Kept
  <2>5. CASE s.status = "CONNECTING"
    <3> DEFINE t == SetStatus(s, "NORMAL")
    <3>1. /\ t \in Sessions /\ t.id = s.id /\ t.rand = s.rand /\ t.status = "NORMAL" /\ t.alive = s.alive
          /\ t.asked = s.asked /\ t.closed = s.closed /\ t.ups = s.ups /\ t.downs = s.downs
      BY <2>5 DEF SetStatus, Sessions, Statuses
    <3> HIDE DEF t
    <3>2. e = Effect([t EXCEPT !.dest = m.loc, !.ups = @ + 1], {"keepalive"}, Call("on_connection", "none"))
      BY <2>2, <2>3, <2>5 DEF ProcSyn2, t
    <3> QED
      <4>1. /\ e.s \in Sessions /\ e.s.id = t.id /\ e.s.rand = t.rand /\ e.s.status = t.status
            /\ e.s.dest = m.loc /\ e.s.alive = t.alive /\ e.s.asked = t.asked /\ e.s.closed = t.closed
            /\ e.s.ups = t.ups + 1 /\ e.s.downs = t.downs
        <5>1. e.s = [t EXCEPT !.dest = m.loc, !.ups = @ + 1]
          BY <3>2 DEF Effect
        <5>2. t.ups \in Nat /\ t.ups + 1 \in Nat
          BY <3>1 DEF Sessions
        <5> QED
          BY <2>2, <3>1, <5>1, <5>2 DEF Sessions
      <4>2. e.out = {"keepalive"} /\ e.c = Call("on_connection", "none")
        BY <3>2 DEF Effect
      <4> QED
        BY <1>1, <2>5, <3>1, <4>1, <4>2 DEF Kept, Types, Callbacks
  <2> QED
    BY <2>4, <2>5
<1>2. CASE m.type = "fin"
  BY <1>2 DEF ProcUdpMsg, ProcFin, Quiet, Effect, Call, SetStatus, Sessions, Statuses, Kept, Types, Callbacks
<1>3. CASE m.type = "fin2"
  BY <1>3 DEF ProcUdpMsg, ProcFin2, Quiet, Effect, Call, SetStatus, Sessions, Statuses, Kept, Types, Callbacks
<1>4. CASE m.type = "keepalive"
  BY <1>4 DEF ProcUdpMsg, ProcKeepalive, Effect, Sessions, Statuses, Kept, Types
<1>5. CASE m.type = "keepalive_ack"
  BY <1>5 DEF ProcUdpMsg, ProcKeepaliveAck, Quiet, Effect, Sessions, Statuses, Kept, Types
<1> QED
  BY <1>1, <1>2, <1>3, <1>4, <1>5 DEF Datagrams, Syns, Syn2s, Rests

\* The timer resends what the status asks for, has the application told of a
\* session that is silent or cannot connect, or closes one.
TimerRuns(s, e) ==
    /\ Kept(s, e) /\ e.s.asked = s.asked /\ e.s.closed = s.closed
    /\ e.s.dest = s.dest /\ e.s.ups = s.ups
    /\ \/ /\ e.s.status = s.status /\ e.s.downs = s.downs
          /\ e.c = NoCall
          /\ \/ e.out \subseteq {"keepalive"} \/ e.out \subseteq {"fin2"}
             \/ e.out = {"syn"} /\ s.status = "CONNECTING"
             \/ e.out = {"fin"} /\ s.status = "FIN"
       \/ /\ s.status \in {"CONNECTING", "NORMAL"}
          /\ e.s.status = s.status /\ e.s.downs = s.downs + 1
          /\ e.c \in {Call("on_disconnection", "FIN"), Call("on_disconnection", "timeout")}
          /\ e.out = {"fin"}
       \/ /\ s.status \notin {"CONNECTING", "NORMAL"}
          /\ e.s.status = "CLOSE" /\ e.s.downs = s.downs
          /\ e.c = NoCall /\ e.out = {}

LEMMA ProcTimerFacts ==
    ASSUME NEW s \in Sessions, NEW late \in Lates
    PROVE  TimerRuns(s, ProcTimer(s, late))
<1> DEFINE e == ProcTimer(s, late)
<1>1. e = ProcTimer(s, late)
  OBVIOUS
<1> HIDE DEF e
<1>2. TimerRuns(s, e)
  BY <1>1 DEF TimerRuns, ProcTimer, Disconnect, Quiet, Effect, Call, SetStatus, Sessions, Statuses,
              Kept, Types, Callbacks, Lates
<1> QED
  BY <1>2 DEF e

\* What is left of a handler after its callback: the status change.
Resumed(s, c, e) ==
    /\ Kept(s, e) /\ e.s.asked = s.asked /\ e.s.closed = s.closed
    /\ e.s.dest = s.dest /\ e.s.ups = s.ups /\ e.s.downs = s.downs
    /\ e.out = {} /\ e.c \in {NoCall, Call("on_connection", "none")}
    /\ s.status = "CLOSE" => e.s.status = "CLOSE"
    /\ s.status # "CLOSE" =>
          /\ c.call = "on_accept" => e.s.status = "NORMAL"
          /\ c.call = "on_connection" => e.s.status = s.status
          /\ c.call = "on_disconnection" =>
                e.s.status = IF c.then = "FIN2" THEN "FIN2" ELSE "FIN"

LEMMA ResumeFacts ==
    ASSUME NEW s \in Sessions, NEW c \in Callbacks
    PROVE  Resumed(s, c, Resume(s, c.then))
<1> DEFINE e == Resume(s, c.then)
<1>1. e = Resume(s, c.then)
  OBVIOUS
<1> HIDE DEF e
<1>2. Resumed(s, c, e)
  BY <1>1 DEF Resumed, Resume, Quiet, Effect, Call, SetStatus, Sessions, Statuses, Kept, Types, Callbacks
<1> QED
  BY <1>2 DEF e

-----------------------------------------------------------------------------
(* The shape of the state is kept.                                         *)

\* One session of host h is replaced.
Replaced(h, n, s) == heap' = [heap EXCEPT ![h][n] = s]

LEMMA ReplaceFacts ==
    ASSUME HeapOK, NEW h \in Hosts, NEW n \in DOMAIN heap[h], NEW s \in Sessions,
           Replaced(h, n, s)
    PROVE  /\ HeapOK'
           /\ \A g \in Hosts : DOMAIN heap'[g] = DOMAIN heap[g]
           /\ heap'[h][n] = s
           /\ \A g \in Hosts : \A k \in DOMAIN heap[g] : g # h \/ k # n => heap'[g][k] = heap[g][k]
<1>1. heap \in [Hosts -> Seq(Sessions)] /\ heap[h] \in Seq(Sessions)
  BY DEF HeapOK
<1> DEFINE new == [heap[h] EXCEPT ![n] = s]
<1>2. new \in Seq(Sessions) /\ DOMAIN new = DOMAIN heap[h] /\ Len(new) = Len(heap[h])
  BY <1>1
<1>3. new[n] = s /\ \A k \in DOMAIN heap[h] : k # n => new[k] = heap[h][k]
  BY <1>1
<1>4. heap' = [heap EXCEPT ![h] = new]
  BY DEF Replaced
<1> HIDE DEF new
<1>5. heap' \in [Hosts -> Seq(Sessions)] /\ heap'[h] = new /\ \A g \in Hosts : g # h => heap'[g] = heap[g]
  BY <1>1, <1>2, <1>4
<1> QED
  BY <1>1, <1>2, <1>3, <1>5 DEF HeapOK

\* A session is added to host h.
LEMMA AddFacts ==
    ASSUME HeapOK, NEW h \in Hosts, NEW s \in Sessions, Len(heap[h]) < MaxObjects[h],
           heap' = [heap EXCEPT ![h] = Append(@, s)]
    PROVE  /\ HeapOK'
           /\ \A g \in Hosts : g # h => heap'[g] = heap[g]
           /\ DOMAIN heap'[h] = DOMAIN heap[h] \cup {Len(heap[h]) + 1}
           /\ Len(heap'[h]) = Len(heap[h]) + 1
           /\ heap'[h][Len(heap[h]) + 1] = s
           /\ \A k \in DOMAIN heap[h] : heap'[h][k] = heap[h][k] /\ k # Len(heap[h]) + 1
<1>1. heap \in [Hosts -> Seq(Sessions)] /\ heap[h] \in Seq(Sessions)
  BY DEF HeapOK
<1> DEFINE new == Append(heap[h], s)
<1>2. /\ new \in Seq(Sessions) /\ Len(new) = Len(heap[h]) + 1 /\ new[Len(heap[h]) + 1] = s
      /\ DOMAIN new = DOMAIN heap[h] \cup {Len(heap[h]) + 1}
      /\ \A k \in DOMAIN heap[h] : new[k] = heap[h][k] /\ k # Len(heap[h]) + 1
  BY <1>1
<1>3. heap' = [heap EXCEPT ![h] = new]
  OBVIOUS
<1> HIDE DEF new
<1>4. heap' \in [Hosts -> Seq(Sessions)] /\ heap'[h] = new /\ \A g \in Hosts : g # h => heap'[g] = heap[g]
  BY <1>1, <1>2, <1>3
<1>5. Len(heap[h]) \in Nat /\ MaxObjects[h] \in Nat
  BY <1>1, TableSizes
<1> QED
  BY <1>1, <1>2, <1>4, <1>5 DEF HeapOK

LEMMA NoFrames == ASSUME NEW h, NEW objects PROVE FramesOK(h, objects, <<>>)
  BY DEF FramesOK

\* The suspended handlers of host h are replaced.
Stacked(h, new) == stack' = [stack EXCEPT ![h] = new]

LEMMA StackFacts ==
    ASSUME StackOK, NEW h \in Hosts, NEW new, Stacked(h, new),
           \A g \in Hosts : DOMAIN heap[g] \subseteq DOMAIN heap'[g],
           FramesOK(h, DOMAIN heap'[h], new)
    PROVE  /\ StackOK'
           /\ stack'[h] = new
           /\ \A g \in Hosts : g # h => stack'[g] = stack[g]
<1>1. stack' \in [Hosts -> Seq(AnyFrame)] /\ stack'[h] = new /\ \A g \in Hosts : g # h => stack'[g] = stack[g]
  BY DEF StackOK, FramesOK, Stacked
<1>2. ASSUME NEW g \in Hosts
      PROVE  FramesOK(g, DOMAIN heap'[g], stack'[g])
  <2>1. CASE g = h
    BY <1>1, <2>1
  <2>2. CASE g # h
    <3>1. stack'[g] = stack[g] /\ FramesOK(g, DOMAIN heap[g], stack[g])
      BY <1>1, <2>2 DEF StackOK
    <3> QED
      BY <3>1 DEF FramesOK, FrameOK
  <2> QED
    BY <2>1, <2>2
<1>3. StackOK'
  BY <1>1, <1>2 DEF StackOK
<1> QED
  BY <1>1, <1>3

\* A frame of a callback on top of others.
LEMMA FramesFacts ==
    ASSUME NEW c \in {NoCall} \cup Callbacks, NEW n \in Nat, NEW below \in Seq(AnyFrame)
    PROVE  /\ Frames(c, n) \o below \in Seq(AnyFrame)
           /\ c = NoCall => Frames(c, n) \o below = below
           /\ c # NoCall => Frame(c, n) \in AnyFrame /\ Frames(c, n) \o below = <<Frame(c, n)>> \o below
<1>1. CASE c = NoCall
  BY <1>1 DEF Frames
<1>2. CASE c # NoCall
  <2>1. Frame(c, n) \in AnyFrame
    BY <1>2 DEF Frame, AnyFrame, Callbacks, Call, Calls, Thens
  <2> QED
    BY <1>2, <2>1, PushFacts DEF Frames
<1> QED
  BY <1>1, <1>2

\* What is sent is a datagram, of a session as it now is.
LEMMA DatagramFacts ==
    ASSUME NEW h \in Hosts, NEW s \in Sessions, NEW t \in Types
    PROVE  /\ Datagram(h, s, t) \in Datagrams
           /\ Datagram(h, s, t).type = t /\ Datagram(h, s, t).to = Other(h)
           /\ t = "syn" => Datagram(h, s, t).rand = s.rand /\ Datagram(h, s, t).loc = s.id
           /\ t = "syn2" => Datagram(h, s, t).dest = s.dest /\ Datagram(h, s, t).loc = s.id
           /\ t # "syn" => Datagram(h, s, t).dest = s.dest
<1>1. Other(h) \in Hosts
  BY OtherHost
<1>2. s.id \in Ids /\ s.dest \in Ids /\ s.rand \in Hosts \X Nat
  BY DEF Sessions
<1> QED
  BY <1>1, <1>2 DEF Datagram, Types, Datagrams, Syns, Syn2s, Rests

\* The datagrams under way after some are taken and others sent.
LEMMA TransmitFacts ==
    ASSUME NetOK, NEW left \in SUBSET net, NEW msgs \in SUBSET Datagrams, IsFiniteSet(msgs),
           Transmit(left, msgs)
    PROVE  NetOK' /\ net' \subseteq left \cup msgs
<1>1. IsFiniteSet(left) /\ Cardinality(left) <= Cardinality(net)
  BY FS_Subset DEF NetOK
<1>2. IsFiniteSet(left \cup msgs)
  BY <1>1, FS_Union
<1>3. Cardinality(left) \in Nat /\ Cardinality(net) \in Nat /\ NetCap \in Nat
  BY <1>1, FS_CardinalityType, NaturalCaps DEF NetOK
<1>4. CASE net' = left
  BY <1>1, <1>3, <1>4 DEF NetOK
<1>5. CASE net' = left \cup msgs /\ Cardinality(left \cup msgs) <= NetCap
  <2>1. IsFiniteSet(net') /\ Cardinality(net') <= NetCap
    BY <1>2, <1>5
  <2> QED
    BY <1>5, <2>1 DEF NetOK
<1>6. CASE Cardinality(left \cup msgs) <= NetCap
  <2>1. net' = left \cup msgs
    BY <1>6, Zenon DEF Transmit
  <2> QED
    BY <1>5, <1>6, <2>1
<1>7. CASE ~(Cardinality(left \cup msgs) <= NetCap)
  <2>1. net' = left
    BY <1>7, Zenon DEF Transmit
  <2> QED
    BY <1>4, <2>1
<1> QED
  BY <1>6, <1>7

LEMMA OutFacts ==
    ASSUME NEW h \in Hosts, NEW e, e.s \in Sessions, e.out = {} \/ \E t \in Types : e.out = {t}
    PROVE  Out(h, e) \in SUBSET Datagrams /\ IsFiniteSet(Out(h, e))
<1>1. CASE e.out = {}
  BY <1>1, FS_EmptySet DEF Out
<1>2. ASSUME NEW t \in Types, e.out = {t}
      PROVE  Out(h, e) \in SUBSET Datagrams /\ IsFiniteSet(Out(h, e))
  <2>1. Out(h, e) = {Datagram(h, e.s, t)}
    BY <1>2 DEF Out
  <2>2. Datagram(h, e.s, t) \in Datagrams
    BY DatagramFacts
  <2>3. IsFiniteSet({Datagram(h, e.s, t)})
    BY FS_Singleton
  <2> QED
    BY <2>1, <2>2, <2>3
<1> QED
  BY <1>1, <1>2

\* No other session than n of host h changes.
OnlyChanged(h, n) ==
    /\ \A g \in Hosts : DOMAIN heap'[g] = DOMAIN heap[g]
    /\ \A g \in Hosts : \A k \in DOMAIN heap[g] : g # h \/ k # n => heap'[g][k] = heap[g][k]

\* What a handler on object n leaves: its session, the frame of its callback
\* above those below, and its datagrams.
Handled(h, n, e, below) ==
    /\ h \in Hosts /\ n \in DOMAIN heap[h] /\ Kept(heap[h][n], e)
    /\ heap'[h][n] = e.s /\ OnlyChanged(h, n)
    /\ below \in Seq(AnyFrame)
    /\ e.c = NoCall => stack'[h] = below
    /\ e.c # NoCall => stack'[h] = <<Frame(e.c, n)>> \o below /\ Frame(e.c, n) \in AnyFrame
    /\ \A g \in Hosts : g # h => stack'[g] = stack[g]
    /\ \A m \in net' : m \in net \/ \E t \in e.out : m = Datagram(h, e.s, t)

LEMMA ApplyFacts ==
    ASSUME Shape, NEW h \in Hosts, NEW n \in DOMAIN heap[h], NEW e, Kept(heap[h][n], e),
           NEW below, FramesOK(h, DOMAIN heap[h], below), NEW left \in SUBSET net,
           Apply(h, n, e, below, left)
    PROVE  HeapOK' /\ StackOK' /\ NetOK' /\ Handled(h, n, e, below)
<1>1. e.s \in Sessions /\ e.c \in {NoCall} \cup Callbacks /\ (e.out = {} \/ \E t \in Types : e.out = {t})
  BY DEF Kept
<1>2. Replaced(h, n, e.s) /\ stack' = [stack EXCEPT ![h] = Frames(e.c, n) \o below]
      /\ Transmit(left, Out(h, e))
  BY Zenon DEF Apply, Replaced
<1>3. /\ HeapOK'
      /\ \A g \in Hosts : DOMAIN heap'[g] = DOMAIN heap[g]
      /\ heap'[h][n] = e.s
      /\ \A g \in Hosts : \A k \in DOMAIN heap[g] : g # h \/ k # n => heap'[g][k] = heap[g][k]
  <2>1. HeapOK
    BY DEF Shape
  <2> QED
    BY <1>1, <1>2, <2>1, ReplaceFacts
<1>4. n \in Nat /\ below \in Seq(AnyFrame)
  BY DEF Shape, HeapOK, FramesOK
<1> DEFINE new == Frames(e.c, n) \o below
<1>5. /\ new \in Seq(AnyFrame)
      /\ e.c = NoCall => new = below
      /\ e.c # NoCall => Frame(e.c, n) \in AnyFrame /\ new = <<Frame(e.c, n)>> \o below
  BY <1>1, <1>4, FramesFacts
<1>6. ASSUME NEW k \in DOMAIN new
      PROVE  FrameOK(h, DOMAIN heap'[h], new[k]) /\ (new[k].sweep => k = Len(new))
  <2>1. CASE e.c = NoCall
    <3>1. new = below
      BY <1>5, <2>1
    <3> HIDE DEF new
    <3> QED
      BY <1>3, <1>6, <3>1 DEF FramesOK
  <2>2. CASE e.c # NoCall
    <3> DEFINE f == Frame(e.c, n)
    <3>1. f \in AnyFrame /\ new = <<f>> \o below
      BY <1>5, <2>2
    <3>2. ~f.sweep /\ f.c \in Callbacks /\ f.obj = n
      BY <1>1, <2>2 DEF Frame
    <3> HIDE DEF new, f
    <3>3. CASE k = 1
      <4>1. new[k] = f
        BY <3>1, <3>3, PushFacts
      <4> QED
        BY <1>3, <3>2, <4>1 DEF FrameOK
    <3>4. CASE k # 1
      <4>1. k - 1 \in DOMAIN below /\ new[k] = below[k - 1] /\ Len(new) = Len(below) + 1 /\ k \in Nat
        BY <1>5, <1>6, <3>1, <3>4, PushFacts
      <4>2. FrameOK(h, DOMAIN heap[h], new[k]) /\ (new[k].sweep => k - 1 = Len(below))
        BY <4>1 DEF FramesOK
      <4>3. Len(below) \in Nat
        BY <1>4
      <4> QED
        BY <1>3, <4>1, <4>2, <4>3
    <3> QED
      BY <3>3, <3>4
  <2> QED
    BY <2>1, <2>2
<1>66. FramesOK(h, DOMAIN heap'[h], new)
  BY <1>5, <1>6 DEF FramesOK
<1>7. StackOK' /\ stack'[h] = new /\ \A g \in Hosts : g # h => stack'[g] = stack[g]
  <2>1. Stacked(h, new)
    BY <1>2 DEF Stacked
  <2> HIDE DEF new
  <2>2. \A g \in Hosts : DOMAIN heap[g] \subseteq DOMAIN heap'[g]
    BY <1>3
  <2>3. StackOK
    BY DEF Shape
  <2> QED
    BY <1>66, <2>1, <2>2, <2>3, StackFacts
<1>8. NetOK' /\ net' \subseteq left \cup Out(h, e)
  BY <1>1, <1>2, OutFacts, TransmitFacts DEF Shape
<1>9. \A m \in net' : m \in net \/ \E t \in e.out : m = Datagram(h, e.s, t)
  BY <1>8 DEF Out
<1> HIDE DEF new
<1> QED
  BY <1>3, <1>4, <1>5, <1>7, <1>8, <1>9 DEF Handled, OnlyChanged

LEMMA TabStays ==
    ASSUME TabOK, UNCHANGED <<tab, maxIndex>>,
           \A g \in Hosts : DOMAIN heap[g] \subseteq DOMAIN heap'[g]
    PROVE  TabOK'
  BY DEF TabOK

LEMMA NamedSession ==
    ASSUME Shape, NEW h \in Hosts, NEW id, Find(h, id) # 0
    PROVE  Find(h, id) \in DOMAIN heap[h] /\ heap[h][Find(h, id)].id = id
  BY DEF Shape, TabOK, Find

\* The same, with nothing suspended below.
LEMMA ApplyAlone ==
    ASSUME Shape, NEW h \in Hosts, NEW n \in DOMAIN heap[h], NEW e, Kept(heap[h][n], e),
           NEW left \in SUBSET net, Apply(h, n, e, <<>>, left)
    PROVE  HeapOK' /\ StackOK' /\ NetOK' /\ Handled(h, n, e, <<>>)
  BY NoFrames, ApplyFacts

LEMMA ConnectHandled ==
    ASSUME Shape, NEW h \in Hosts, NEW n \in DOMAIN heap[h], ConnectSession(h, n)
    PROVE  /\ Handled(h, n, Connect(heap[h][n]), <<>>)
           /\ heap[h][n] \in Sessions /\ ~heap[h][n].asked /\ heap[h][n].rand[1] = h
           /\ stack[h] = <<>> /\ UNCHANGED <<tab, maxIndex>> /\ Shape'
<1> DEFINE e == Connect(heap[h][n])
<1>1. heap[h][n] \in Sessions /\ net \in SUBSET net
  BY DEF Shape, HeapOK
<1>2. /\ ~heap[h][n].asked /\ heap[h][n].rand[1] = h /\ stack[h] = <<>>
      /\ Apply(h, n, e, <<>>, net) /\ UNCHANGED <<tab, maxIndex>>
  BY DEF ConnectSession
<1>3. Kept(heap[h][n], e)
  BY <1>1, <1>2, ConnectFacts
<1> HIDE DEF e
<1>4. HeapOK' /\ StackOK' /\ NetOK' /\ Handled(h, n, e, <<>>)
  BY <1>1, <1>2, <1>3, ApplyAlone
<1>5. TabOK'
  BY <1>2, <1>4, TabStays DEF Shape, Handled, OnlyChanged
<1> QED
  BY <1>1, <1>2, <1>4, <1>5 DEF Shape, e

LEMMA CloseHandled ==
    ASSUME Shape, NEW h \in Hosts, NEW n \in DOMAIN heap[h], CloseSession(h, n)
    PROVE  /\ Handled(h, n, Disconnect([heap[h][n] EXCEPT !.closed = TRUE], "FIN"), stack[h])
           /\ heap[h][n] \in Sessions /\ heap[h][n].status \in {"CONNECTING", "NORMAL"}
           /\ MayCall(h, "close_session") /\ UNCHANGED <<tab, maxIndex>> /\ Shape'
<1> DEFINE e == Disconnect([heap[h][n] EXCEPT !.closed = TRUE], "FIN")
<1>1. heap[h][n] \in Sessions /\ net \in SUBSET net /\ stack[h] \in Seq(AnyFrame)
  BY DEF Shape, HeapOK, StackOK, FramesOK
<1>2. /\ heap[h][n].status \in {"CONNECTING", "NORMAL"} /\ MayCall(h, "close_session")
      /\ Apply(h, n, e, stack[h], net) /\ UNCHANGED <<tab, maxIndex>>
  BY Zenon DEF CloseSession
<1>3. Kept(heap[h][n], e)
  BY <1>1, <1>2, CloseFacts
<1> HIDE DEF e
<1>4. FramesOK(h, DOMAIN heap[h], stack[h])
  BY DEF Shape, StackOK
<1>5. HeapOK' /\ StackOK' /\ NetOK' /\ Handled(h, n, e, stack[h])
  BY <1>1, <1>2, <1>3, <1>4, ApplyFacts
<1>6. TabOK'
  BY <1>2, <1>5, TabStays DEF Shape, Handled, OnlyChanged
<1>7. Shape'
  BY <1>5, <1>6 DEF Shape
<1> QED
  BY <1>1, <1>2, <1>5, <1>7 DEF e

LEMMA ReturnHandled ==
    ASSUME Shape, NEW h \in Hosts, Return(h)
    PROVE  /\ stack[h] \in Seq(AnyFrame) /\ stack[h] # <<>> /\ stack[h][1].c \in Callbacks
           /\ heap[h][stack[h][1].obj] \in Sessions
           /\ Handled(h, stack[h][1].obj, Resume(heap[h][stack[h][1].obj], stack[h][1].c.then),
                      Tail(stack[h]))
           /\ UNCHANGED <<tab, maxIndex>> /\ Shape'
<1> DEFINE f == stack[h][1]
           n == f.obj
           e == Resume(heap[h][n], f.c.then)
<1>1. /\ stack[h] # <<>> /\ ~f.sweep /\ UNCHANGED <<tab, maxIndex>>
      /\ Apply(h, n, e, Tail(stack[h]), net)
  BY Zenon DEF Return
<1>2. stack[h] \in Seq(AnyFrame) /\ net \in SUBSET net
  BY DEF Shape, StackOK, FramesOK
<1>3. 1 \in DOMAIN stack[h] /\ Tail(stack[h]) \in Seq(AnyFrame)
  BY <1>1, <1>2, PopFacts
<1>4. f.c \in Callbacks /\ n \in DOMAIN heap[h]
  BY <1>1, <1>3 DEF Shape, StackOK, FramesOK, FrameOK
<1>5. heap[h][n] \in Sessions
  BY <1>4 DEF Shape, HeapOK
<1>6. Kept(heap[h][n], e)
  BY <1>4, <1>5, ResumeFacts DEF Resumed
<1>7. ASSUME NEW k \in DOMAIN Tail(stack[h])
      PROVE  FrameOK(h, DOMAIN heap[h], Tail(stack[h])[k])
             /\ (Tail(stack[h])[k].sweep => k = Len(Tail(stack[h])))
  <2>1. /\ k + 1 \in DOMAIN stack[h] /\ Tail(stack[h])[k] = stack[h][k + 1]
        /\ Len(Tail(stack[h])) + 1 = Len(stack[h])
    BY <1>1, <1>2, <1>7, PopFacts
  <2>2. k \in Nat /\ Len(Tail(stack[h])) \in Nat
    BY <1>3
  <2>3. /\ FrameOK(h, DOMAIN heap[h], stack[h][k + 1])
        /\ stack[h][k + 1].sweep => k + 1 = Len(stack[h])
    BY <2>1 DEF Shape, StackOK, FramesOK
  <2> QED
    BY <2>1, <2>2, <2>3
<1>77. FramesOK(h, DOMAIN heap[h], Tail(stack[h]))
  BY <1>3, <1>7 DEF FramesOK
<1> HIDE DEF e
<1>8. HeapOK' /\ StackOK' /\ NetOK' /\ Handled(h, n, e, Tail(stack[h]))
  BY <1>1, <1>2, <1>4, <1>6, <1>77, ApplyFacts
<1>9. TabOK'
  BY <1>1, <1>8, TabStays DEF Shape, Handled, OnlyChanged
<1>10. Shape'
  BY <1>8, <1>9 DEF Shape
<1> QED
  BY <1>1, <1>2, <1>4, <1>5, <1>8, <1>10 DEF e

\* The datagrams that are left when one has been taken.
LEMMA LeftFacts == ASSUME NEW m, NEW dup PROVE Left(m, dup) \in SUBSET net
  BY DEF Left

\* A datagram reaches the session that it names.
Received(h, n, m) ==
    /\ m \in net /\ m.type # "syn" /\ m \in Datagrams /\ m.to = h /\ stack[h] = <<>>
    /\ heap[h][n] \in Sessions /\ heap[h][n].id = m.dest
    /\ Handled(h, n, ProcUdpMsg(heap[h][n], m), <<>>)

LEMMA MessageHandled ==
    ASSUME Shape, NEW m \in net, NEW dup \in BOOLEAN, ProcSessionMsg(m.to, m, dup)
    PROVE  /\ UNCHANGED <<tab, maxIndex>> /\ m.to \in Hosts /\ Shape'
           /\ \/ \E n \in DOMAIN heap[m.to] : Received(m.to, n, m)
              \/ UNCHANGED <<heap, stack>> /\ net' \subseteq net
<1> DEFINE h == m.to
           n == Find(h, m.dest)
<1>1. /\ stack[h] = <<>> /\ m.type # "syn" /\ UNCHANGED <<tab, maxIndex>>
      /\ \/ n # 0 /\ Apply(h, n, ProcUdpMsg(heap[h][n], m), <<>>, Left(m, dup))
         \/ n = 0 /\ Transmit(Left(m, dup), {}) /\ UNCHANGED <<heap, stack>>
  BY Zenon DEF ProcSessionMsg
<1>2. m \in Datagrams /\ h \in Hosts
  BY DEF Shape, NetOK, Datagrams, Syns, Syn2s, Rests
<1>3. CASE n # 0
  <2> DEFINE e == ProcUdpMsg(heap[h][n], m)
  <2>1. n \in DOMAIN heap[h] /\ heap[h][n].id = m.dest
    BY <1>2, <1>3, NamedSession
  <2>2. heap[h][n] \in Sessions
    BY <1>2, <2>1 DEF Shape, HeapOK
  <2> HIDE DEF n
  <2>3. Kept(heap[h][n], e)
    BY <1>1, <1>2, <2>2, ProcUdpMsgFacts
  <2>4. Apply(h, n, e, <<>>, Left(m, dup)) /\ Left(m, dup) \in SUBSET net
    BY <1>1, <1>3, LeftFacts
  <2> HIDE DEF e
  <2>5. HeapOK' /\ StackOK' /\ NetOK' /\ Handled(h, n, e, <<>>)
    BY <1>2, <2>1, <2>3, <2>4, ApplyAlone
  <2>6. TabOK'
    BY <1>1, <2>5, TabStays DEF Shape, Handled, OnlyChanged
  <2> QED
    BY <1>1, <1>2, <2>1, <2>2, <2>5, <2>6 DEF Shape, Received, e
<1>4. CASE n = 0
  <2>1. Transmit(Left(m, dup), {}) /\ UNCHANGED <<heap, stack>>
    BY <1>1, <1>4
  <2>2. NetOK' /\ net' \subseteq Left(m, dup) \cup {}
    BY <2>1, LeftFacts, TransmitFacts, FS_EmptySet DEF Shape
  <2>3. HeapOK' /\ TabOK' /\ StackOK'
    BY <1>1, <2>1 DEF Shape, HeapOK, TabOK, StackOK, FramesOK
  <2> QED
    BY <1>1, <1>2, <2>1, <2>2, <2>3, LeftFacts DEF Shape
<1> QED
  BY <1>3, <1>4

\* A sweep is at an index of the table, and nothing is suspended below it.
LEMMA SweepAlone ==
    ASSUME Shape, NEW h \in Hosts, stack[h] # <<>>, stack[h][1].sweep
    PROVE  /\ stack[h] = <<stack[h][1]>> /\ stack[h][1] \in AnyFrame
           /\ stack[h][1].c = NoCall
           /\ stack[h][1].i \in Nat /\ stack[h][1].max \in Nat
           /\ stack[h][1].i < stack[h][1].max /\ stack[h][1].max <= MaxSessions[h]
           /\ stack[h][1].i \in Slots(h)
           /\ tab[h][stack[h][1].i] \in {0} \cup DOMAIN heap[h]
<1>1. stack[h] \in Seq(AnyFrame) /\ 1 \in DOMAIN stack[h]
  BY DEF Shape, StackOK, FramesOK
<1>2. FrameOK(h, DOMAIN heap[h], stack[h][1]) /\ 1 = Len(stack[h])
  BY <1>1 DEF Shape, StackOK, FramesOK
<1>3. stack[h] = <<stack[h][1]>> /\ stack[h][1] \in AnyFrame
  BY <1>1, <1>2
<1>4. stack[h][1].i \in Nat /\ stack[h][1].max \in Nat /\ MaxSessions[h] \in Nat
  BY <1>3, TableSizes DEF AnyFrame
<1>5. stack[h][1].i \in Slots(h)
  BY <1>2, <1>4 DEF FrameOK, Slots
<1> QED
  BY <1>2, <1>3, <1>4, <1>5 DEF FrameOK, Shape, TabOK

\* A sweep that is in a callback, and the rest of a sweep.
LEMMA OneSweep ==
    ASSUME NEW h \in Hosts, NEW objects, NEW i \in Nat, NEW max \in Nat, max <= MaxSessions[h],
           i < max, NEW busy \in BOOLEAN
    PROVE  FramesOK(h, objects, <<Sweep(i, max, busy)>>)
<1> DEFINE f == Sweep(i, max, busy)
           b == <<f>>
<1>1. f \in AnyFrame /\ f.sweep /\ f.c = NoCall /\ f.i = i /\ f.max = max
  BY DEF Sweep, AnyFrame, NoCall, Calls, Thens
<1> HIDE DEF f
<1>2. DOMAIN b = {1} /\ Len(b) = 1 /\ b[1] = f /\ b \in Seq(AnyFrame)
  BY <1>1
<1> HIDE DEF b
<1>3. FramesOK(h, objects, b)
  BY <1>1, <1>2 DEF FrameOK, FramesOK
<1> QED
  BY <1>3 DEF b, f

LEMMA RestOfSweep ==
    ASSUME NEW h \in Hosts, NEW objects, NEW i \in Nat, NEW max \in Nat, max <= MaxSessions[h],
           i < max
    PROVE  FramesOK(h, objects, SweepFrom(i + 1, max))
<1>1. CASE i + 1 = max
  <2>1. SweepFrom(i + 1, max) = <<>>
    BY <1>1, Zenon DEF SweepFrom
  <2> QED
    BY <2>1, NoFrames
<1>2. CASE i + 1 # max
  <2>1. SweepFrom(i + 1, max) = <<Sweep(i + 1, max, FALSE)>>
    BY <1>2, Zenon DEF SweepFrom
  <2>2. i + 1 \in Nat /\ i + 1 < max /\ FALSE \in BOOLEAN
    BY <1>2
  <2> QED
    BY <2>1, <2>2, OneSweep
<1> QED
  BY <1>1, <1>2

\* A session differs from what it was in nothing but its silence or its end.
Alike(s, t) ==
    /\ t \in Sessions /\ t.id = s.id /\ t.rand = s.rand /\ t.dest = s.dest /\ t.status = s.status
    /\ t.asked = s.asked /\ t.closed = s.closed /\ t.ups = s.ups /\ t.downs = s.downs

\* The sweep passes an empty slot or deletes a closed session.
Passed(h, f) ==
    /\ stack'[h] = SweepFrom(f.i + 1, f.max)
    /\ \A g \in Hosts : g # h => stack'[g] = stack[g]
    /\ UNCHANGED <<maxIndex, net>>

Deleted(h, n) ==
    /\ heap[h][n] \in Sessions /\ heap[h][n].status = "CLOSE"
    /\ Alike(heap[h][n], heap'[h][n]) /\ ~heap'[h][n].alive
    /\ OnlyChanged(h, n)

\* The sweep runs procTimer of session n.
Timed(h, n, late, below) ==
    /\ n \in DOMAIN heap[h] /\ heap[h][n] \in Sessions /\ heap[h][n].status # "CLOSE"
    /\ Handled(h, n, ProcTimer(heap[h][n], late), below) /\ UNCHANGED tab

\* A step of the sweep f at the entry n.
SweepDoes(h, late, f, n) ==
    LET e == ProcTimer(heap[h][n], late)
    IN  /\ stack[h] # <<>> /\ f.sweep
        /\ \/ n = 0 /\ Stacked(h, SweepFrom(f.i + 1, f.max)) /\ UNCHANGED <<heap, tab, maxIndex, net>>
           \/ /\ n # 0 /\ heap[h][n].status = "CLOSE"
              /\ Replaced(h, n, [heap[h][n] EXCEPT !.alive = FALSE])
              /\ tab' = [tab EXCEPT ![h][f.i] = 0]
              /\ Stacked(h, SweepFrom(f.i + 1, f.max)) /\ UNCHANGED <<maxIndex, net>>
           \/ /\ n # 0 /\ heap[h][n].status # "CLOSE" /\ e.c = NoCall
              /\ Apply(h, n, e, SweepFrom(f.i + 1, f.max), net)
              /\ maxIndex' = [maxIndex EXCEPT ![h] = Counted(f.i)]
              /\ UNCHANGED tab
           \/ /\ n # 0 /\ heap[h][n].status # "CLOSE" /\ e.c # NoCall
              /\ Apply(h, n, e, <<Sweep(f.i, f.max, TRUE)>>, net)
              /\ UNCHANGED <<tab, maxIndex>>

LEMMA SweepStepCases ==
    ASSUME NEW h, NEW late, SweepStep(h, late)
    PROVE  SweepDoes(h, late, stack[h][1], tab[h][stack[h][1].i])
  BY Zenon DEF SweepStep, Sweeping, Replaced, Stacked, SweepDoes

\* What it leaves.
SweepLeaves(h, late, f, n) ==
    /\ stack[h] # <<>> /\ f.sweep
    /\ \/ n = 0 /\ Passed(h, f) /\ UNCHANGED <<heap, tab>>
       \/ /\ n # 0 /\ n \in DOMAIN heap[h] /\ Passed(h, f) /\ Deleted(h, n)
          /\ tab'[h][f.i] = 0
          /\ \A g \in Hosts : \A i \in Slots(g) : g # h \/ i # f.i => tab'[g][i] = tab[g][i]
       \/ /\ n # 0 /\ Timed(h, n, late, SweepFrom(f.i + 1, f.max))
          /\ maxIndex'[h] = f.i + 1
          /\ \A g \in Hosts : g # h => maxIndex'[g] = maxIndex[g]
       \/ n # 0 /\ Timed(h, n, late, <<Sweep(f.i, f.max, TRUE)>>) /\ UNCHANGED maxIndex

LEMMA SweepStepHandled ==
    ASSUME Shape, NEW h \in Hosts, NEW late \in Lates, SweepStep(h, late),
           NEW f, f = stack[h][1], NEW n, n = tab[h][f.i]
    PROVE  SweepLeaves(h, late, f, n) /\ Shape'
<1> DEFINE e == ProcTimer(heap[h][n], late)
           rest == SweepFrom(f.i + 1, f.max)
           busy == <<Sweep(f.i, f.max, TRUE)>>
<1>0. SweepDoes(h, late, f, n)
  BY SweepStepCases
<1>1. /\ stack[h] # <<>> /\ f.sweep
      /\ \/ n = 0 /\ Stacked(h, rest) /\ UNCHANGED <<heap, tab, maxIndex, net>>
         \/ /\ n # 0 /\ heap[h][n].status = "CLOSE"
            /\ Replaced(h, n, [heap[h][n] EXCEPT !.alive = FALSE])
            /\ tab' = [tab EXCEPT ![h][f.i] = 0]
            /\ Stacked(h, rest) /\ UNCHANGED <<maxIndex, net>>
         \/ /\ n # 0 /\ heap[h][n].status # "CLOSE" /\ e.c = NoCall
            /\ Apply(h, n, e, rest, net)
            /\ maxIndex' = [maxIndex EXCEPT ![h] = Counted(f.i)]
            /\ UNCHANGED tab
         \/ /\ n # 0 /\ heap[h][n].status # "CLOSE" /\ e.c # NoCall
            /\ Apply(h, n, e, busy, net)
            /\ UNCHANGED <<tab, maxIndex>>
  BY <1>0, Zenon DEF SweepDoes
<1>2. /\ f.i \in Nat /\ f.max \in Nat /\ f.i < f.max /\ f.max <= MaxSessions[h] /\ f.i \in Slots(h)
      /\ n \in {0} \cup DOMAIN heap[h]
  BY <1>1, SweepAlone
<1>3. n # 0 => n \in DOMAIN heap[h] /\ heap[h][n] \in Sessions /\ Kept(heap[h][n], e)
  BY <1>2, ProcTimerFacts DEF Shape, HeapOK, TimerRuns
<1>4. \A objects : FramesOK(h, objects, rest)
  BY <1>2, RestOfSweep
<1>5. \A objects : FramesOK(h, objects, busy)
  BY <1>2, OneSweep
<1> HIDE DEF e, rest, busy
<1>6. CASE n = 0
  <2>1. Stacked(h, rest) /\ UNCHANGED <<heap, tab, maxIndex, net>>
    BY <1>1, <1>6
  <2>2. StackOK' /\ stack'[h] = rest /\ \A g \in Hosts : g # h => stack'[g] = stack[g]
    <3>1. StackOK /\ \A g \in Hosts : DOMAIN heap[g] \subseteq DOMAIN heap'[g]
      BY <2>1 DEF Shape
    <3> QED
      BY <1>4, <2>1, <3>1, StackFacts
  <2>3. HeapOK' /\ TabOK' /\ NetOK'
    BY <2>1 DEF Shape, HeapOK, TabOK, NetOK
  <2> QED
    BY <1>1, <1>6, <2>1, <2>2, <2>3 DEF SweepLeaves, Shape, Passed, rest
<1>7. CASE n # 0 /\ heap[h][n].status = "CLOSE"
  <2> DEFINE s == [heap[h][n] EXCEPT !.alive = FALSE]
  <2>1. /\ Replaced(h, n, s) /\ tab' = [tab EXCEPT ![h][f.i] = 0]
        /\ Stacked(h, rest) /\ UNCHANGED <<maxIndex, net>>
    BY <1>1, <1>7
  <2>2. Alike(heap[h][n], s) /\ ~s.alive
    BY <1>3, <1>7 DEF Alike, Sessions
  <2>3. s \in Sessions
    BY <2>2 DEF Alike
  <2> HIDE DEF s
  <2>4. HeapOK' /\ heap'[h][n] = s /\ OnlyChanged(h, n)
    BY <1>3, <1>7, <2>1, <2>3, ReplaceFacts, SMTT(30) DEF Shape, OnlyChanged
  <2>5. StackOK' /\ stack'[h] = rest /\ \A g \in Hosts : g # h => stack'[g] = stack[g]
    <3>1. StackOK
      BY DEF Shape
    <3>2. \A g \in Hosts : DOMAIN heap[g] \subseteq DOMAIN heap'[g]
      BY <2>4 DEF OnlyChanged
    <3> QED
      BY <1>4, <2>1, <3>1, <3>2, StackFacts
  <2>6. TabOK' /\ tab'[h][f.i] = 0
        /\ \A g \in Hosts : \A i \in Slots(g) : g # h \/ i # f.i => tab'[g][i] = tab[g][i]
    <3> DEFINE new == [tab[h] EXCEPT ![f.i] = 0]
    <3>1. tab' = [tab EXCEPT ![h] = new]
      BY <2>1
    <3>2. new \in [Slots(h) -> {0} \cup DOMAIN heap[h]] /\ new[f.i] = 0
          /\ \A i \in Slots(h) : i # f.i => new[i] = tab[h][i]
      BY <1>2 DEF Shape, TabOK
    <3> HIDE DEF new
    <3>3. DOMAIN tab' = Hosts /\ tab'[h] = new /\ \A g \in Hosts : g # h => tab'[g] = tab[g]
      BY <3>1 DEF Shape, TabOK
    <3> QED
      BY <2>1, <2>4, <3>2, <3>3 DEF Shape, TabOK, OnlyChanged
  <2>7. NetOK'
    BY <2>1 DEF Shape, NetOK
  <2>8. Deleted(h, n) /\ Passed(h, f)
    BY <1>3, <1>7, <2>1, <2>2, <2>4, <2>5 DEF Deleted, Passed, rest
  <2> QED
    BY <1>1, <1>3, <1>7, <2>4, <2>5, <2>6, <2>7, <2>8 DEF SweepLeaves, Shape
<1>8. CASE n # 0 /\ heap[h][n].status # "CLOSE" /\ e.c = NoCall
  <2>1. /\ Apply(h, n, e, rest, net) /\ maxIndex' = [maxIndex EXCEPT ![h] = Counted(f.i)]
        /\ UNCHANGED tab
    BY <1>1, <1>8
  <2>2. HeapOK' /\ StackOK' /\ NetOK' /\ Handled(h, n, e, rest)
    BY <1>3, <1>4, <1>8, <2>1, ApplyFacts
  <2>3. maxIndex'[h] = f.i + 1 /\ \A g \in Hosts : g # h => maxIndex'[g] = maxIndex[g]
    BY <2>1 DEF Counted, Shape, TabOK
  <2>4. TabOK'
    <3>1. maxIndex' \in [Hosts -> Nat] /\ \A g \in Hosts : maxIndex'[g] <= MaxSessions[g]
      <4>1. /\ f.i + 1 \in Nat /\ f.i + 1 <= MaxSessions[h] /\ Counted(f.i) = f.i + 1
        BY <1>2, TableSizes DEF Counted
      <4>2. maxIndex' = [maxIndex EXCEPT ![h] = f.i + 1]
        BY <2>1, <4>1
      <4> QED
        BY <4>1, <4>2 DEF Shape, TabOK
    <3>2. \A g \in Hosts : DOMAIN heap[g] = DOMAIN heap'[g]
      BY <2>2 DEF Handled, OnlyChanged
    <3> QED
      BY <2>1, <3>1, <3>2 DEF Shape, TabOK
  <2> QED
    BY <1>1, <1>3, <1>8, <2>1, <2>2, <2>3, <2>4 DEF SweepLeaves, Shape, Timed, e, rest
<1>9. CASE n # 0 /\ heap[h][n].status # "CLOSE" /\ e.c # NoCall
  <2>1. Apply(h, n, e, busy, net) /\ UNCHANGED <<tab, maxIndex>>
    BY <1>1, <1>9 DEF busy
  <2>2. HeapOK' /\ StackOK' /\ NetOK' /\ Handled(h, n, e, busy)
    BY <1>3, <1>5, <1>9, <2>1, ApplyFacts
  <2>3. TabOK'
    BY <2>1, <2>2, TabStays DEF Shape, Handled, OnlyChanged
  <2> QED
    BY <1>1, <1>3, <1>9, <2>1, <2>2, <2>3 DEF SweepLeaves, Shape, Timed, e, busy
<1> QED
  BY <1>6, <1>7, <1>8, <1>9

\* addUdpSession: host h has one more session, in the slot that was looked for.
Added(h, s) ==
    /\ h \in Hosts /\ s \in Sessions /\ CanAdd(h) /\ Len(heap[h]) \in Nat
    /\ \A g \in Hosts : g # h => heap'[g] = heap[g] /\ tab'[g] = tab[g] /\ maxIndex'[g] = maxIndex[g]
    /\ DOMAIN heap'[h] = DOMAIN heap[h] \cup {Len(heap[h]) + 1}
    /\ heap'[h][Len(heap[h]) + 1] = s
    /\ \A k \in DOMAIN heap[h] : heap'[h][k] = heap[h][k] /\ k # Len(heap[h]) + 1
    /\ Slot(h) \in Slots(h) /\ tab'[h][Slot(h)] = Len(heap[h]) + 1
    /\ \A i \in Slots(h) : i # Slot(h) => tab'[h][i] = tab[h][i]
    /\ maxIndex'[h] = IF Slot(h) = maxIndex[h] THEN maxIndex[h] + 1 ELSE maxIndex[h]

LEMMA AddHandled ==
    ASSUME Shape, NEW h \in Hosts, AddUdpSession(h), NEW s \in Sessions,
           heap' = [heap EXCEPT ![h] = Append(@, s)]
    PROVE  Added(h, s) /\ HeapOK' /\ TabOK'
<1>1. /\ CanAdd(h) /\ Len(heap[h]) < MaxObjects[h]
      /\ tab' = [tab EXCEPT ![h][Slot(h)] = Len(heap[h]) + 1]
      /\ maxIndex' = [maxIndex EXCEPT ![h] = IF Slot(h) = maxIndex[h] THEN maxIndex[h] + 1 ELSE maxIndex[h]]
  BY DEF AddUdpSession
<1>2. /\ HeapOK'
      /\ \A g \in Hosts : g # h => heap'[g] = heap[g]
      /\ DOMAIN heap'[h] = DOMAIN heap[h] \cup {Len(heap[h]) + 1}
      /\ heap'[h][Len(heap[h]) + 1] = s
      /\ \A k \in DOMAIN heap[h] : heap'[h][k] = heap[h][k] /\ k # Len(heap[h]) + 1
  BY <1>1, AddFacts DEF Shape
<1>3. Len(heap[h]) \in Nat /\ maxIndex[h] \in Nat /\ MaxSessions[h] \in Nat /\ maxIndex[h] <= MaxSessions[h]
  <2>1. heap[h] \in Seq(Sessions)
    BY DEF Shape, HeapOK
  <2>2. maxIndex[h] \in Nat /\ MaxSessions[h] \in Nat /\ maxIndex[h] <= MaxSessions[h]
    BY TableSizes DEF Shape, TabOK
  <2> QED
    BY <2>1, <2>2
<1>4. Slot(h) \in Nat /\ Slot(h) <= maxIndex[h] /\ Slot(h) < MaxSessions[h] /\ Slot(h) \in Slots(h)
  BY <1>1, <1>3, SlotFacts DEF CanAdd, Slots
<1> DEFINE new == [tab[h] EXCEPT ![Slot(h)] = Len(heap[h]) + 1]
           top == IF Slot(h) = maxIndex[h] THEN maxIndex[h] + 1 ELSE maxIndex[h]
<1>5. tab' = [tab EXCEPT ![h] = new] /\ maxIndex' = [maxIndex EXCEPT ![h] = top]
  BY <1>1
<1>6. /\ new \in [Slots(h) -> {0} \cup DOMAIN heap'[h]]
      /\ new[Slot(h)] = Len(heap[h]) + 1
      /\ \A i \in Slots(h) : i # Slot(h) => new[i] = tab[h][i]
  <2>1. tab[h] \in [Slots(h) -> {0} \cup DOMAIN heap[h]]
    BY DEF Shape, TabOK
  <2> QED
    BY <1>2, <1>4, <2>1
<1>7. top \in Nat /\ top <= MaxSessions[h]
  BY <1>3, <1>4
<1> HIDE DEF new, top
<1>8. /\ DOMAIN tab' = Hosts /\ tab'[h] = new /\ \A g \in Hosts : g # h => tab'[g] = tab[g]
      /\ maxIndex' \in [Hosts -> Nat] /\ maxIndex'[h] = top
      /\ \A g \in Hosts : g # h => maxIndex'[g] = maxIndex[g]
  BY <1>5, <1>7 DEF Shape, TabOK
<1>9. TabOK'
  BY <1>2, <1>6, <1>7, <1>8 DEF Shape, TabOK
<1> QED
  BY <1>1, <1>2, <1>3, <1>4, <1>6, <1>8, <1>9 DEF Added, top

\* A new id has the index of the slot.
LEMMA NewIdFacts ==
    ASSUME NEW h \in Hosts, NEW bits \in IdBits[h], Slot(h) \in Nat
    PROVE  NewId(h, bits) \in Ids /\ NewId(h, bits).idx = Slot(h)
<1>1. bits \in Nat
  BY IdBitsAreNumbers
<1> QED
  BY <1>1 DEF NewId, Ids

Created(h, bits) ==
    /\ Added(h, NewSession(NewId(h, bits), NoId, <<h, Len(heap[h]) + 1>>))
    /\ NewId(h, bits) \in Ids /\ NewId(h, bits).idx = Slot(h)
    /\ MayCall(h, "create_session") /\ UNCHANGED <<stack, net>>

LEMMA CreateHandled ==
    ASSUME Shape, NEW h \in Hosts, CreateSession(h)
    PROVE  (\E bits \in IdBits[h] : Created(h, bits)) /\ Shape'
<1>0. PICK bits \in IdBits[h] :
          heap' = [heap EXCEPT ![h] = Append(@, NewSession(NewId(h, bits), NoId, <<h, Len(@) + 1>>))]
  BY DEF CreateSession
<1> DEFINE s == NewSession(NewId(h, bits), NoId, <<h, Len(heap[h]) + 1>>)
<1>1. /\ MayCall(h, "create_session") /\ AddUdpSession(h) /\ UNCHANGED <<stack, net>>
      /\ heap' = [heap EXCEPT ![h] = Append(@, s)] /\ Len(heap[h]) < MaxObjects[h]
  BY <1>0 DEF CreateSession, AddUdpSession
<1>2. Len(heap[h]) \in Nat /\ Slot(h) \in Nat
  BY SlotFacts DEF Shape, HeapOK, TabOK
<1>3. NewId(h, bits) \in Ids /\ NewId(h, bits).idx = Slot(h)
  BY <1>2, NewIdFacts
<1>4. <<h, Len(heap[h]) + 1>> \in Hosts \X Nat
  BY <1>2
<1>5. s \in Sessions
  BY <1>3, <1>4, NewSessionFacts
<1> HIDE DEF s
<1>6. Added(h, s) /\ HeapOK' /\ TabOK'
  BY <1>1, <1>5, AddHandled
<1>7. StackOK'
  <2>1. \A g \in Hosts : DOMAIN heap[g] \subseteq DOMAIN heap'[g]
    BY <1>6 DEF Added
  <2> QED
    BY <1>1, <2>1 DEF Shape, StackOK, FramesOK, FrameOK
<1>8. NetOK'
  BY <1>1 DEF Shape, NetOK
<1> QED
  BY <1>1, <1>3, <1>6, <1>7, <1>8 DEF Shape, Created, s

\* A SYN is answered for the session that it made before, or makes one.
Repeated(h, m) ==
    /\ UNCHANGED <<heap, tab, maxIndex, stack>>
    /\ \E n \in DOMAIN heap[h] :
         /\ heap[h][n] \in Sessions /\ heap[h][n].rand = m.rand /\ heap[h][n].dest = m.loc
         /\ \A x \in net' : x \in net \/ x = Datagram(h, heap[h][n], "syn2")

Accepted(h, m, bits) ==
    LET s == OnAccept(NewSession(NewId(h, bits), m.loc, m.rand)).s
        L == Len(heap[h]) + 1
        f == Frame(Call("on_accept", "NORMAL"), L)
    IN  /\ Added(h, s)
        /\ NewId(h, bits) \in Ids /\ NewId(h, bits).idx = Slot(h)
        /\ ChkSynSession(h, m) = {}
        /\ stack[h] = <<>> /\ stack'[h] = <<f>> /\ f \in AnyFrame
        /\ \A g \in Hosts : g # h => stack'[g] = stack[g]
        /\ \A x \in net' : x \in net \/ x = Datagram(h, s, "syn2")

LEMMA SynHandled ==
    ASSUME Shape, NEW m \in net, NEW dup \in BOOLEAN, ProcSynMsg(m.to, m, dup)
    PROVE  /\ m.type = "syn" /\ m.to \in Hosts /\ m.loc \in Ids /\ m.rand \in Hosts \X Nat
           /\ stack[m.to] = <<>> /\ Shape'
           /\ \/ Repeated(m.to, m)
              \/ \E bits \in IdBits[m.to] : Accepted(m.to, m, bits)
              \/ UNCHANGED <<heap, tab, maxIndex, stack>> /\ net' \subseteq net
<1> DEFINE h == m.to
           i == CHOOSE i \in ChkSynSession(h, m) : \A j \in ChkSynSession(h, m) : i <= j
           e(bits) == OnAccept(NewSession(NewId(h, bits), m.loc, m.rand))
           Accepts(bits) ==
             /\ ChkSynSession(h, m) = {} /\ AddUdpSession(h)
             /\ heap' = [heap EXCEPT ![h] = Append(@, e(bits).s)]
             /\ Stacked(h, <<Frame(e(bits).c, Len(heap[h]) + 1)>>)
             /\ Transmit(Left(m, dup), Out(h, e(bits)))
<1>1. m \in Datagrams /\ m.type = "syn"
  BY DEF Shape, NetOK, ProcSynMsg
<1>2. h \in Hosts /\ m.loc \in Ids /\ m.rand \in Hosts \X Nat
  BY <1>1 DEF Datagrams, Syns, Syn2s, Rests
<1>3. /\ stack[h] = <<>>
      /\ \/ /\ ChkSynSession(h, m) # {}
            /\ Transmit(Left(m, dup), {Datagram(h, heap[h][tab[h][i]], "syn2")})
            /\ UNCHANGED <<heap, tab, maxIndex, stack>>
         \/ \E bits \in IdBits[h] : Accepts(bits)
         \/ /\ Transmit(Left(m, dup), {})
            /\ UNCHANGED <<heap, tab, maxIndex, stack>>
  BY Zenon DEF ProcSynMsg, Stacked
<1>4. Left(m, dup) \in SUBSET net /\ NetOK /\ HeapOK /\ TabOK /\ StackOK
  BY LeftFacts DEF Shape
<1> HIDE DEF h, e, Accepts
<1>5. ASSUME UNCHANGED <<heap, tab, maxIndex, stack>>
      PROVE  HeapOK' /\ TabOK' /\ StackOK'
  BY <1>4, <1>5 DEF HeapOK, TabOK, StackOK
<1>6. CASE /\ ChkSynSession(h, m) # {}
           /\ Transmit(Left(m, dup), {Datagram(h, heap[h][tab[h][i]], "syn2")})
           /\ UNCHANGED <<heap, tab, maxIndex, stack>>
  <2>1. i \in ChkSynSession(h, m)
    BY <1>2, <1>4, <1>6, FirstSynSession DEF TabOK
  <2> HIDE DEF i
  <2> DEFINE n == tab[h][i]
  <2>2. n # 0 /\ heap[h][n].rand = m.rand /\ heap[h][n].dest = m.loc /\ i \in 0 .. (maxIndex[h] - 1)
    BY <2>1 DEF ChkSynSession
  <2>3. i \in Slots(h)
    BY <1>2, <1>4, <2>2, TableSizes DEF TabOK, Slots
  <2>4. n \in DOMAIN heap[h]
    BY <1>2, <1>4, <2>2, <2>3 DEF TabOK
  <2>5. heap[h][n] \in Sessions /\ "syn2" \in Types
    BY <1>2, <1>4, <2>4 DEF HeapOK, Types
  <2> HIDE DEF n
  <2>6. Datagram(h, heap[h][n], "syn2") \in Datagrams /\ IsFiniteSet({Datagram(h, heap[h][n], "syn2")})
    BY <1>2, <2>5, DatagramFacts, FS_Singleton
  <2>7. NetOK' /\ net' \subseteq Left(m, dup) \cup {Datagram(h, heap[h][n], "syn2")}
    <3>1. {Datagram(h, heap[h][n], "syn2")} \in SUBSET Datagrams
      BY <2>6
    <3>2. Transmit(Left(m, dup), {Datagram(h, heap[h][n], "syn2")})
      BY <1>6 DEF n
    <3> QED
      BY <1>4, <2>6, <3>1, <3>2, TransmitFacts
  <2>8. Repeated(h, m)
    BY <1>4, <1>6, <2>2, <2>4, <2>5, <2>7 DEF Repeated, n
  <2> QED
    BY <1>1, <1>2, <1>3, <1>5, <1>6, <2>7, <2>8 DEF Shape, h
<1>7. CASE \E bits \in IdBits[h] : Accepts(bits)
  <2>0. PICK bits \in IdBits[h] : Accepts(bits)
    BY <1>7
  <2>a. PICK d : d = e(bits)
    OBVIOUS
  <2>b. /\ ChkSynSession(h, m) = {} /\ AddUdpSession(h)
        /\ heap' = [heap EXCEPT ![h] = Append(@, d.s)]
        /\ Stacked(h, <<Frame(d.c, Len(heap[h]) + 1)>>)
        /\ Transmit(Left(m, dup), Out(h, d))
    BY <2>0, <2>a DEF Accepts
  <2>1. Slot(h) \in Nat
    BY <1>2, <1>4, <2>b, SlotFacts DEF AddUdpSession, TabOK
  <2>2. NewId(h, bits) \in Ids /\ NewId(h, bits).idx = Slot(h)
    BY <1>2, <2>1, NewIdFacts
  <2>3. d.s \in Sessions /\ d.c = Call("on_accept", "NORMAL") /\ d.out = {"syn2"}
    BY <1>2, <2>2, <2>a, AcceptFacts DEF e
  <2>4. Added(h, d.s) /\ HeapOK' /\ TabOK'
    BY <1>2, <2>b, <2>3, AddHandled
  <2> DEFINE f == Frame(Call("on_accept", "NORMAL"), Len(heap[h]) + 1)
  <2>5. f \in AnyFrame /\ ~f.sweep /\ f.c \in Callbacks /\ f.obj = Len(heap[h]) + 1
    BY <2>4 DEF Added, Frame, AnyFrame, Callbacks, Call, Calls, Thens
  <2>6. Stacked(h, <<f>>)
    BY <2>b, <2>3
  <2> HIDE DEF f
  <2>7. FramesOK(h, DOMAIN heap'[h], <<f>>)
    BY <2>4, <2>5 DEF FramesOK, FrameOK, Added
  <2>8. StackOK' /\ stack'[h] = <<f>> /\ \A g \in Hosts : g # h => stack'[g] = stack[g]
    <3>1. \A g \in Hosts : DOMAIN heap[g] \subseteq DOMAIN heap'[g]
      BY <2>4 DEF Added
    <3> QED
      BY <1>2, <1>4, <2>6, <2>7, <3>1, StackFacts
  <2>9. NetOK' /\ net' \subseteq Left(m, dup) \cup Out(h, d)
    <3>1. Out(h, d) \in SUBSET Datagrams /\ IsFiniteSet(Out(h, d))
      BY <1>2, <2>3, OutFacts DEF Types
    <3> QED
      BY <1>4, <2>b, <3>1, TransmitFacts
  <2>10. \A x \in net' : x \in net \/ x = Datagram(h, d.s, "syn2")
    BY <1>4, <2>3, <2>9 DEF Out
  <2>11. Accepted(h, m, bits)
    BY <1>3, <2>a, <2>b, <2>2, <2>4, <2>5, <2>8, <2>10 DEF Accepted, e, f, h
  <2> QED
    BY <1>1, <1>2, <1>3, <2>0, <2>4, <2>8, <2>9, <2>11 DEF Shape, h
<1>8. CASE Transmit(Left(m, dup), {}) /\ UNCHANGED <<heap, tab, maxIndex, stack>>
  <2>1. NetOK' /\ net' \subseteq Left(m, dup) \cup {}
    BY <1>4, <1>8, TransmitFacts, FS_EmptySet
  <2> QED
    BY <1>1, <1>2, <1>3, <1>4, <1>5, <1>8, <2>1 DEF Shape, h
<1> QED
  BY <1>3, <1>6, <1>7, <1>8 DEF h

\* chkUpdate starts, a callback of the sweep has returned, a session falls silent.
LEMMA ChkUpdateHandled ==
    ASSUME Shape, NEW h \in Hosts, ChkUpdate(h)
    PROVE  /\ stack[h] = <<>> /\ maxIndex[h] > 0 /\ maxIndex'[h] = 0
           /\ stack'[h] = <<Sweep(0, maxIndex[h], FALSE)>>
           /\ \A g \in Hosts : g # h => stack'[g] = stack[g] /\ maxIndex'[g] = maxIndex[g]
           /\ UNCHANGED <<heap, tab, net>> /\ Shape'
<1> DEFINE b == <<Sweep(0, maxIndex[h], FALSE)>>
<1>1. /\ stack[h] = <<>> /\ maxIndex[h] > 0 /\ Stacked(h, b)
      /\ maxIndex' = [maxIndex EXCEPT ![h] = 0] /\ UNCHANGED <<heap, tab, net>>
  BY DEF ChkUpdate, Stacked
<1>2. maxIndex[h] \in Nat /\ maxIndex[h] <= MaxSessions[h] /\ MaxSessions \in [Hosts -> Nat]
  BY TableSizes DEF Shape, TabOK
<1>3. FramesOK(h, DOMAIN heap[h], b)
  BY <1>1, <1>2, OneSweep
<1> HIDE DEF b
<1>4. StackOK' /\ stack'[h] = b /\ \A g \in Hosts : g # h => stack'[g] = stack[g]
  BY <1>1, <1>3, StackFacts DEF Shape
<1>5. maxIndex' \in [Hosts -> Nat] /\ maxIndex'[h] = 0 /\ \A g \in Hosts : g # h => maxIndex'[g] = maxIndex[g]
  BY <1>1 DEF Shape, TabOK
<1>6. TabOK'
  BY <1>1, <1>2, <1>5 DEF Shape, TabOK
<1>7. HeapOK' /\ NetOK'
  BY <1>1 DEF Shape, HeapOK, NetOK
<1> QED
  BY <1>1, <1>4, <1>5, <1>6, <1>7 DEF Shape, b

LEMMA SweptHandled ==
    ASSUME Shape, NEW h \in Hosts, Swept(h)
    PROVE  /\ stack[h] # <<>> /\ stack[h][1].sweep
           /\ stack'[h] = SweepFrom(stack[h][1].i + 1, stack[h][1].max)
           /\ \A g \in Hosts : g # h => stack'[g] = stack[g] /\ maxIndex'[g] = maxIndex[g]
           /\ maxIndex'[h] = stack[h][1].i + 1
           /\ UNCHANGED <<heap, tab, net>> /\ Shape'
<1> DEFINE f == stack[h][1]
           b == SweepFrom(f.i + 1, f.max)
<1>1. /\ stack[h] # <<>> /\ f.sweep /\ Stacked(h, b)
      /\ maxIndex' = [maxIndex EXCEPT ![h] = Counted(f.i)] /\ UNCHANGED <<heap, tab, net>>
  BY DEF Swept, Sweeping, Stacked
<1>2. f.i \in Nat /\ f.max \in Nat /\ f.i < f.max /\ f.max <= MaxSessions[h] /\ MaxSessions \in [Hosts -> Nat]
  BY <1>1, SweepAlone, TableSizes
<1>3. FramesOK(h, DOMAIN heap[h], b)
  BY <1>2, RestOfSweep
<1> HIDE DEF b
<1>4. StackOK' /\ stack'[h] = b /\ \A g \in Hosts : g # h => stack'[g] = stack[g]
  BY <1>1, <1>3, StackFacts DEF Shape
<1>5. /\ maxIndex' \in [Hosts -> Nat] /\ maxIndex'[h] = f.i + 1
      /\ \A g \in Hosts : g # h => maxIndex'[g] = maxIndex[g]
  BY <1>1, <1>2 DEF Shape, TabOK, Counted
<1>6. TabOK'
  BY <1>1, <1>2, <1>5 DEF Shape, TabOK
<1>7. HeapOK' /\ NetOK'
  BY <1>1 DEF Shape, HeapOK, NetOK
<1> QED
  BY <1>1, <1>4, <1>5, <1>6, <1>7 DEF Shape, b

LEMMA SilenceHandled ==
    ASSUME Shape, NEW h \in Hosts, NEW n \in DOMAIN heap[h], SilenceElapses(h, n)
    PROVE  /\ heap[h][n] \in Sessions /\ Alike(heap[h][n], heap'[h][n])
           /\ heap'[h][n].alive = heap[h][n].alive /\ OnlyChanged(h, n)
           /\ UNCHANGED <<tab, maxIndex, stack, net>> /\ Shape'
<1> DEFINE s == [heap[h][n] EXCEPT !.silent = TRUE]
<1>1. Replaced(h, n, s) /\ UNCHANGED <<tab, maxIndex, stack, net>>
  BY DEF SilenceElapses, Replaced
<1>2. heap[h][n] \in Sessions
  BY DEF Shape, HeapOK
<1>3. s \in Sessions /\ Alike(heap[h][n], s) /\ s.alive = heap[h][n].alive
  BY <1>2 DEF Alike, Sessions
<1> HIDE DEF s
<1>4. HeapOK' /\ heap'[h][n] = s /\ OnlyChanged(h, n)
  BY <1>1, <1>3, ReplaceFacts DEF Shape, OnlyChanged
<1>5. TabOK'
  BY <1>1, <1>4, TabStays DEF Shape, OnlyChanged
<1>6. StackOK' /\ NetOK'
  BY <1>1, <1>4 DEF Shape, StackOK, FramesOK, NetOK, OnlyChanged
<1> QED
  BY <1>1, <1>2, <1>3, <1>4, <1>5, <1>6 DEF Shape

LEMMA LoseHandled ==
    ASSUME Shape, NEW m, Lose(m)
    PROVE  UNCHANGED <<heap, tab, maxIndex, stack>> /\ net' \subseteq net /\ Shape'
<1>1. UNCHANGED <<heap, tab, maxIndex, stack>> /\ net' \subseteq net
  BY DEF Lose
<1>2. IsFiniteSet(net) /\ Cardinality(net) <= NetCap /\ NetCap \in Nat
  BY NaturalCaps DEF Shape, NetOK
<1>3. IsFiniteSet(net') /\ Cardinality(net') <= Cardinality(net)
  BY <1>1, <1>2, FS_Subset
<1>4. Cardinality(net') \in Nat /\ Cardinality(net) \in Nat
  BY <1>2, <1>3, FS_CardinalityType
<1>5. Cardinality(net') <= NetCap
  BY <1>2, <1>3, <1>4
<1> QED
  BY <1>1, <1>3, <1>5 DEF Shape, HeapOK, TabOK, StackOK, NetOK

-----------------------------------------------------------------------------
(* Type correctness.                                                       *)

LEMMA InitShape == Init => Shape
<1> SUFFICES ASSUME Init PROVE Shape
  OBVIOUS
<1>1. HeapOK
  BY TableSizes DEF Init, HeapOK
<1>2. TabOK
  BY TableSizes DEF Init, TabOK
<1>3. StackOK
  BY NoFrames DEF Init, StackOK
<1>4. NetOK
  BY FS_EmptySet, NaturalCaps DEF Init, NetOK
<1> QED
  BY <1>1, <1>2, <1>3, <1>4 DEF Shape

LEMMA ShapeStep == Shape /\ [Next]_vars => Shape'
<1> SUFFICES ASSUME Shape, [Next]_vars PROVE Shape'
  OBVIOUS
<1>1. ASSUME NEW h \in Hosts, CreateSession(h) PROVE Shape'
  BY <1>1, CreateHandled
<1>2. ASSUME NEW h \in Hosts, NEW n \in DOMAIN heap[h], ConnectSession(h, n) PROVE Shape'
  BY <1>2, ConnectHandled
<1>3. ASSUME NEW h \in Hosts, NEW n \in DOMAIN heap[h], CloseSession(h, n) PROVE Shape'
  BY <1>3, CloseHandled
<1>4. ASSUME NEW h \in Hosts, NEW n \in DOMAIN heap[h], SilenceElapses(h, n) PROVE Shape'
  BY <1>4, SilenceHandled
<1>5. ASSUME NEW h \in Hosts, Return(h) PROVE Shape'
  BY <1>5, ReturnHandled
<1>6. ASSUME NEW h \in Hosts, ChkUpdate(h) PROVE Shape'
  BY <1>6, ChkUpdateHandled
<1>7. ASSUME NEW h \in Hosts, NEW late \in Lates, SweepStep(h, late) PROVE Shape'
  <2>1. PICK f : f = stack[h][1]
    OBVIOUS
  <2>2. PICK n : n = tab[h][f.i]
    OBVIOUS
  <2> QED
    BY <1>7, <2>1, <2>2, SweepStepHandled
<1>8. ASSUME NEW h \in Hosts, Swept(h) PROVE Shape'
  BY <1>8, SweptHandled
<1>9. ASSUME NEW m \in net, NEW dup \in BOOLEAN, ProcSynMsg(m.to, m, dup) PROVE Shape'
  BY <1>9, SynHandled
<1>10. ASSUME NEW m \in net, NEW dup \in BOOLEAN, ProcSessionMsg(m.to, m, dup) PROVE Shape'
  BY <1>10, MessageHandled
<1>11. ASSUME NEW m \in net, Lose(m) PROVE Shape'
  BY <1>11, LoseHandled
<1>12. CASE UNCHANGED vars
  BY <1>12 DEF vars, Shape, HeapOK, TabOK, StackOK, NetOK
<1> QED
  BY <1>1, <1>2, <1>3, <1>4, <1>5, <1>6, <1>7, <1>8, <1>9, <1>10, <1>11, <1>12, Zenon DEF Next

\* The state keeps its shape: every table entry is an object of its host,
\* every suspended handler is one of the callbacks of the code, and no more
\* datagrams are under way than the bound.
LEMMA ShapeAlways == Spec => []Shape
  BY InitShape, ShapeStep, PTL DEF Spec

THEOREM TypeCorrect == Spec => []TypeOK
<1>1. Shape => TypeOK
  <2> SUFFICES ASSUME Shape PROVE TypeOK
    OBVIOUS
  <2>1. \A h \in Hosts : \A n \in DOMAIN heap[h] : heap[h][n] \in Sessions
    BY DEF Shape, HeapOK
  <2>2. \A h \in Hosts : \A i \in Slots(h) : tab[h][i] \in {0} \cup DOMAIN heap[h]
    BY DEF Shape, TabOK
  <2>3. \A h \in Hosts : maxIndex[h] \in 0 .. MaxSessions[h]
    BY TableSizes DEF Shape, TabOK
  <2>4. ASSUME NEW h \in Hosts, NEW k \in DOMAIN stack[h]
        PROVE  stack[h][k].c.call \in Calls \cup {"none"} /\ stack[h][k].c.then \in Thens
    <3>1. stack[h][k] \in AnyFrame
      BY DEF Shape, StackOK
    <3> QED
      BY <3>1 DEF AnyFrame
  <2>5. Cardinality(net) <= NetCap
    BY DEF Shape, NetOK
  <2> QED
    BY <2>1, <2>2, <2>3, <2>4, <2>5 DEF TypeOK
<1> QED
  BY <1>1, ShapeAlways, PTL

-----------------------------------------------------------------------------
(* What any step does to a session, and what is new after it.              *)

\* The fields that only few steps change.
Same(s, t) == t.dest = s.dest /\ t.ups = s.ups /\ t.asked = s.asked /\ s.downs <= t.downs

Connects(h, s, t) ==
    /\ stack[h] = <<>> /\ s.rand[1] = h /\ ~s.asked
    /\ t.dest = s.dest /\ t.ups = s.ups /\ t.downs = s.downs
    /\ s.status = "CLOSE" => t.status = "CLOSE" /\ ~t.asked
    /\ s.status # "CLOSE" => t.status = "CONNECTING" /\ t.asked

Opens(h, s, t) ==
    /\ s.status = "CONNECTING" /\ t.status = "NORMAL" /\ t.ups = s.ups + 1
    /\ t.asked = s.asked /\ t.downs = s.downs
    /\ \E m \in net : m.type = "syn2" /\ m.to = h /\ m.dest = s.id /\ t.dest = m.loc

IsEnded(h, s, t) ==
    /\ s.status \notin {"NORMAL", "CLOSE"} /\ t.status = "FIN2" /\ Same(s, t)
    /\ \E m \in net : m.type = "fin" /\ m.to = h /\ m.dest = s.id

GoesOn(h, n, s, t) ==
    /\ stack[h] # <<>> /\ 1 \in DOMAIN stack[h] /\ ~stack[h][1].sweep
    /\ stack[h][1].obj = n /\ s.status # "CLOSE" /\ Same(s, t)
    /\ \/ stack[h][1].c.call = "on_accept" /\ t.status = "NORMAL"
       \/ /\ stack[h][1].c.call = "on_disconnection"
          /\ t.status = IF stack[h][1].c.then = "FIN2" THEN "FIN2" ELSE "FIN"

Moves(h, n, s, t) ==
    /\ s \in Sessions /\ t \in Sessions
    /\ t.id = s.id /\ t.rand = s.rand /\ (t.alive => s.alive)
    /\ \/ t.status = s.status /\ Same(s, t)
       \/ Connects(h, s, t)
       \/ Opens(h, s, t)
       \/ IsEnded(h, s, t)
       \/ GoesOn(h, n, s, t)
       \/ t.status = "CLOSE" /\ s.status # "NORMAL" /\ Same(s, t)

LEMMA SessionType ==
    ASSUME Shape, NEW g \in Hosts, NEW k \in DOMAIN heap[g]
    PROVE  heap[g][k] \in Sessions
  BY DEF Shape, HeapOK

LEMMA Unmoved ==
    ASSUME Shape, NEW g \in Hosts, NEW k \in DOMAIN heap[g], NEW t, t = heap[g][k]
    PROVE  Moves(g, k, heap[g][k], t)
<1>1. heap[g][k] \in Sessions
  BY SessionType
<1> QED
  BY <1>1 DEF Moves, Same, Sessions

\* Every session that exists stays, and moves in one of these ways.
LEMMA SessionSteps ==
    ASSUME Shape, [Next]_vars, NEW g \in Hosts, NEW k \in DOMAIN heap[g]
    PROVE  k \in DOMAIN heap'[g] /\ Moves(g, k, heap[g][k], heap'[g][k])
<1> DEFINE Goal == k \in DOMAIN heap'[g] /\ Moves(g, k, heap[g][k], heap'[g][k])
<1>2. ASSUME heap'[g] = heap[g] PROVE Goal
  BY <1>2, Unmoved
<1>3. ASSUME NEW h, NEW n, OnlyChanged(h, n), g = h /\ k = n => Moves(g, k, heap[g][k], heap'[g][k])
      PROVE  Goal
  BY <1>3, Unmoved DEF OnlyChanged
<1>4. ASSUME NEW h \in Hosts, CreateSession(h) PROVE Goal
  <2>0. PICK bits \in IdBits[h] : Created(h, bits)
    BY <1>4, CreateHandled
  <2>1. k \in DOMAIN heap'[g] /\ heap'[g][k] = heap[g][k]
    BY <2>0 DEF Created, Added
  <2> QED
    BY <2>1, Unmoved
<1>5. ASSUME NEW h \in Hosts, NEW n \in DOMAIN heap[h], ConnectSession(h, n) PROVE Goal
  <2> DEFINE s == heap[h][n]
             e == Connect(s)
  <2>1. Handled(h, n, e, <<>>) /\ s \in Sessions /\ ~s.asked /\ s.rand[1] = h /\ stack[h] = <<>>
    BY <1>5, ConnectHandled
  <2>2. /\ Kept(s, e)
        /\ e.s.dest = s.dest /\ e.s.ups = s.ups /\ e.s.downs = s.downs
        /\ s.status = "CLOSE" => e.s.status = "CLOSE" /\ ~e.s.asked
        /\ s.status # "CLOSE" => e.s.status = "CONNECTING" /\ e.s.asked
    BY <2>1, ConnectFacts
  <2> HIDE DEF e, Goal
  <2>3. Moves(h, n, s, e.s)
    BY <2>1, <2>2 DEF Moves, Connects, Kept
  <2> QED
    BY <1>3, <2>1, <2>3 DEF Handled
<1>6. ASSUME NEW h \in Hosts, NEW n \in DOMAIN heap[h], CloseSession(h, n) PROVE Goal
  <2> DEFINE s == heap[h][n]
             e == Disconnect([s EXCEPT !.closed = TRUE], "FIN")
  <2>1. Handled(h, n, e, stack[h]) /\ s \in Sessions /\ s.status \in {"CONNECTING", "NORMAL"}
    BY <1>6, CloseHandled
  <2>2. /\ Kept(s, e)
        /\ e.s.dest = s.dest /\ e.s.asked = s.asked /\ e.s.ups = s.ups
        /\ e.s.status = s.status /\ e.s.downs = s.downs + 1
    BY <2>1, CloseFacts
  <2> HIDE DEF e, Goal
  <2>3. Moves(h, n, s, e.s)
    BY <2>1, <2>2 DEF Moves, Same, Kept, Sessions
  <2> QED
    BY <1>3, <2>1, <2>3 DEF Handled
<1>7. ASSUME NEW h \in Hosts, NEW n \in DOMAIN heap[h], SilenceElapses(h, n) PROVE Goal
  <2>1. /\ heap[h][n] \in Sessions /\ Alike(heap[h][n], heap'[h][n])
        /\ heap'[h][n].alive = heap[h][n].alive /\ OnlyChanged(h, n)
    BY <1>7, SilenceHandled
  <2>2. Moves(h, n, heap[h][n], heap'[h][n])
    BY <2>1 DEF Moves, Same, Alike, Sessions
  <2> HIDE DEF Goal
  <2> QED
    BY <1>3, <2>1, <2>2
<1>8. ASSUME NEW h \in Hosts, Return(h) PROVE Goal
  <2> DEFINE f == stack[h][1]
             n == f.obj
             s == heap[h][n]
             e == Resume(s, f.c.then)
  <2>1. /\ stack[h] \in Seq(AnyFrame) /\ stack[h] # <<>> /\ f.c \in Callbacks /\ ~f.sweep /\ s \in Sessions
        /\ Handled(h, n, e, Tail(stack[h]))
    BY <1>8, ReturnHandled DEF Return
  <2>2. /\ Kept(s, e) /\ e.s.asked = s.asked
        /\ e.s.dest = s.dest /\ e.s.ups = s.ups /\ e.s.downs = s.downs
        /\ s.status = "CLOSE" => e.s.status = "CLOSE"
        /\ s.status # "CLOSE" =>
              /\ f.c.call = "on_accept" => e.s.status = "NORMAL"
              /\ f.c.call = "on_connection" => e.s.status = s.status
              /\ f.c.call = "on_disconnection" =>
                    e.s.status = IF f.c.then = "FIN2" THEN "FIN2" ELSE "FIN"
    BY <2>1, ResumeFacts DEF Resumed
  <2>3. f.c.call \in {"on_accept", "on_connection", "on_disconnection"} /\ 1 \in DOMAIN stack[h]
    BY <2>1 DEF Callbacks, Call
  <2> HIDE DEF e, Goal
  <2>4. Moves(h, n, s, e.s)
    BY <2>1, <2>2, <2>3, SMTT(30) DEF Moves, Same, GoesOn, Kept, Sessions
  <2> QED
    BY <1>3, <2>1, <2>4 DEF Handled
<1>9. ASSUME NEW h \in Hosts, ChkUpdate(h) PROVE Goal
  BY <1>2, <1>9, ChkUpdateHandled
<1>10. ASSUME NEW h \in Hosts, NEW late \in Lates, SweepStep(h, late) PROVE Goal
  <2>a. PICK f : f = stack[h][1]
    OBVIOUS
  <2>b. PICK n : n = tab[h][f.i]
    OBVIOUS
  <2> DEFINE s == heap[h][n]
             e == ProcTimer(s, late)
  <2>1. \/ UNCHANGED heap
        \/ Deleted(h, n)
        \/ \E below : Timed(h, n, late, below)
    BY <1>10, <2>a, <2>b, SweepStepHandled DEF SweepLeaves
  <2> HIDE DEF Goal
  <2>2. CASE UNCHANGED heap
    BY <1>2, <2>2
  <2>3. CASE Deleted(h, n)
    <3>1. Moves(h, n, s, heap'[h][n])
      BY <2>3 DEF Deleted, Alike, Moves, Same, Sessions
    <3> QED
      BY <1>3, <2>3, <3>1 DEF Deleted
  <2>4. ASSUME NEW below, Timed(h, n, late, below) PROVE Goal
    <3>1. s \in Sessions /\ Handled(h, n, e, below)
      BY <2>4 DEF Timed
    <3>2. /\ Kept(s, e) /\ e.s.asked = s.asked /\ e.s.dest = s.dest /\ e.s.ups = s.ups
          /\ \/ e.s.status = s.status /\ e.s.downs = s.downs
             \/ e.s.status = s.status /\ e.s.downs = s.downs + 1
             \/ s.status # "NORMAL" /\ e.s.status = "CLOSE" /\ e.s.downs = s.downs
      BY <3>1, ProcTimerFacts DEF TimerRuns
    <3> HIDE DEF e
    <3>3. Moves(h, n, s, e.s)
      BY <3>1, <3>2 DEF Moves, Same, Kept, Sessions
    <3> QED
      BY <1>3, <3>1, <3>3 DEF Handled
  <2> QED
    BY <2>1, <2>2, <2>3, <2>4
<1>11. ASSUME NEW h \in Hosts, Swept(h) PROVE Goal
  BY <1>2, <1>11, SweptHandled
<1>12. ASSUME NEW m \in net, NEW dup \in BOOLEAN, ProcSynMsg(m.to, m, dup) PROVE Goal
  <2>1. UNCHANGED heap \/ \E bits \in IdBits[m.to] : Accepted(m.to, m, bits)
    BY <1>12, SynHandled DEF Repeated
  <2>2. CASE UNCHANGED heap
    BY <1>2, <2>2
  <2>3. ASSUME NEW bits \in IdBits[m.to], Accepted(m.to, m, bits) PROVE Goal
    <3>1. k \in DOMAIN heap'[g] /\ heap'[g][k] = heap[g][k]
      BY <2>3 DEF Accepted, Added
    <3> QED
      BY <3>1, Unmoved
  <2> QED
    BY <2>1, <2>2, <2>3
<1>13. ASSUME NEW m \in net, NEW dup \in BOOLEAN, ProcSessionMsg(m.to, m, dup) PROVE Goal
  <2>1. UNCHANGED heap \/ \E n \in DOMAIN heap[m.to] : Received(m.to, n, m)
    BY <1>13, MessageHandled
  <2>2. CASE UNCHANGED heap
    BY <1>2, <2>2
  <2>3. ASSUME NEW n \in DOMAIN heap[m.to], Received(m.to, n, m) PROVE Goal
    <3> DEFINE h == m.to
               s == heap[h][n]
               e == ProcUdpMsg(s, m)
    <3>1. /\ m.type # "syn" /\ m \in Datagrams /\ s \in Sessions /\ s.id = m.dest
          /\ Handled(h, n, e, <<>>)
      BY <2>3 DEF Received
    <3>2. /\ Kept(s, e) /\ e.s.asked = s.asked
          /\ \/ e.s.dest = s.dest /\ e.s.status = s.status /\ e.s.ups = s.ups /\ e.s.downs = s.downs
             \/ /\ m.type = "syn2" /\ s.status = "CONNECTING"
                /\ e.s.dest = m.loc /\ e.s.status = "NORMAL" /\ e.s.ups = s.ups + 1 /\ e.s.downs = s.downs
             \/ /\ e.s.dest = s.dest /\ e.s.status = s.status /\ e.s.ups = s.ups
                /\ e.s.downs = s.downs + 1
             \/ /\ m.type = "fin" /\ s.status # "NORMAL"
                /\ e.s.dest = s.dest /\ e.s.ups = s.ups /\ e.s.downs = s.downs
                /\ e.s.status = IF s.status = "CLOSE" THEN "CLOSE" ELSE "FIN2"
             \/ /\ s.status # "NORMAL"
                /\ e.s.dest = s.dest /\ e.s.status = "CLOSE" /\ e.s.ups = s.ups /\ e.s.downs = s.downs
      BY <3>1, ProcUdpMsgFacts, SMTT(30)
    <3> HIDE DEF e, Goal
    <3>3. Moves(h, n, s, e.s)
      BY <3>1, <3>2, SMTT(30) DEF Moves, Same, Opens, IsEnded, Kept, Sessions
    <3> HIDE DEF h
    <3> QED
      BY <1>3, <3>1, <3>3 DEF Handled
  <2> QED
    BY <2>1, <2>2, <2>3
<1>14. ASSUME NEW m \in net, Lose(m) PROVE Goal
  BY <1>2, <1>14, LoseHandled
<1>15. ASSUME UNCHANGED vars PROVE Goal
  BY <1>2, <1>15 DEF vars
<1> HIDE DEF Goal
<1>16. Goal
  BY <1>4, <1>5, <1>6, <1>7, <1>8, <1>9, <1>10, <1>11, <1>12, <1>13, <1>14, <1>15, Zenon DEF Next
<1> QED
  BY <1>16 DEF Goal

\* A session that a step adds was created, or accepted for a SYN.
Made(g, k, t) ==
    /\ k = Len(heap[g]) + 1 /\ Len(heap[g]) \in Nat /\ t \in Sessions
    /\ t.status = "NONE" /\ ~t.asked /\ t.downs = 0
    /\ \/ t.rand = <<g, k>> /\ t.dest = NoId /\ t.ups = 0
       \/ /\ t.ups = 1 /\ stack[g] = <<>>
          /\ \E m \in net : /\ m.type = "syn" /\ m.to = g /\ t.rand = m.rand /\ t.dest = m.loc
                            /\ ChkSynSession(g, m) = {}

\* When a session sends a datagram of some type.
Sends(g, s, t) ==
    /\ t = "syn"  => (s.rand[1] = g /\ Used(g, s)) \/ s.status = "CONNECTING"
    /\ t = "syn2" => \E m \in net : m.type = "syn" /\ m.to = g /\ s.rand = m.rand /\ s.dest = m.loc
    /\ t = "fin"  => s.downs > 0 \/ s.status = "FIN"

Sent(m) ==
    \E g \in Hosts : \E n \in DOMAIN heap'[g] : \E t \in Types :
        /\ heap'[g][n] \in Sessions
        /\ m = Datagram(g, heap'[g][n], t) /\ Sends(g, heap'[g][n], t)

\* When a callback begins.
Called(g, f) ==
    /\ ~f.sweep
    /\ \/ /\ f.c = Call("on_accept", "NORMAL") /\ f.obj \in DOMAIN heap'[g]
          /\ \E m \in net : m.type = "syn" /\ m.to = g /\ heap'[g][f.obj].rand = m.rand
       \/ /\ f.c = Call("on_connection", "none") /\ f.obj \in DOMAIN heap[g]
          /\ heap[g][f.obj].status = "CONNECTING"
       \/ /\ f.c = Call("on_connection", "none")
          /\ \E j \in DOMAIN stack[g] : ~stack[g][j].sweep /\ stack[g][j].obj = f.obj
       \/ /\ f.c \in {Call("on_disconnection", "FIN"), Call("on_disconnection", "timeout")}
          /\ f.obj \in DOMAIN heap[g]
          /\ heap[g][f.obj].status \in {"CONNECTING", "NORMAL"} /\ heap'[g][f.obj].downs > 0
       \/ /\ f.c = Call("on_disconnection", "FIN2") /\ f.obj \in DOMAIN heap[g]
          /\ heap[g][f.obj].status = "NORMAL" /\ heap'[g][f.obj].status = "NORMAL"
          /\ heap'[g][f.obj].downs > 0
          /\ \E m \in net : m.type = "fin" /\ m.to = g /\ m.dest = heap[g][f.obj].id

NewFrames == \A g \in Hosts : \A k \in DOMAIN stack'[g] :
                \/ stack'[g][k].sweep /\ stack'[g][k].c = NoCall
                \/ \E j \in DOMAIN stack[g] : stack[g][j] = stack'[g][k]
                \/ Called(g, stack'[g][k])

NewDatagrams == \A m \in net' : m \in net \/ Sent(m)

NewObjects == \A g \in Hosts : \A k \in DOMAIN heap'[g] : k \in DOMAIN heap[g] \/ Made(g, k, heap'[g][k])

Brings == NewFrames /\ NewDatagrams /\ NewObjects

\* The frames below were there before, or are sweeps.
Old(g, b) == \A k \in DOMAIN b :
                \/ b[k].sweep /\ b[k].c = NoCall
                \/ \E j \in DOMAIN stack[g] : stack[g][j] = b[k]

LEMMA HandledBrings ==
    ASSUME NEW h, NEW n, NEW e, NEW below, Handled(h, n, e, below), Old(h, below),
           e.c = NoCall \/ Called(h, Frame(e.c, n)),
           \A t \in e.out : t \in Types /\ Sends(h, e.s, t)
    PROVE  Brings
<1>1. NewObjects
  BY DEF Handled, OnlyChanged, NewObjects
<1>2. NewDatagrams
  <2>1. ASSUME NEW m \in net', m \notin net PROVE Sent(m)
    <3>1. PICK t \in e.out : m = Datagram(h, e.s, t)
      BY <2>1 DEF Handled
    <3>2. h \in Hosts /\ n \in DOMAIN heap'[h] /\ heap'[h][n] = e.s /\ e.s \in Sessions
      BY DEF Handled, OnlyChanged, Kept
    <3> QED
      BY <3>1, <3>2 DEF Sent
  <2> QED
    BY <2>1 DEF NewDatagrams
<1>3. ASSUME NEW g \in Hosts, NEW k \in DOMAIN stack'[g]
      PROVE  \/ stack'[g][k].sweep /\ stack'[g][k].c = NoCall
             \/ \E j \in DOMAIN stack[g] : stack[g][j] = stack'[g][k]
             \/ Called(g, stack'[g][k])
  <2>1. CASE g # h
    BY <2>1 DEF Handled
  <2>2. CASE g = h /\ e.c = NoCall
    BY <2>2 DEF Handled, Old
  <2>3. CASE g = h /\ e.c # NoCall
    <3> DEFINE f == Frame(e.c, n)
    <3>1. f \in AnyFrame /\ stack'[h] = <<f>> \o below /\ below \in Seq(AnyFrame) /\ Called(h, f)
      BY <2>3 DEF Handled
    <3> HIDE DEF f
    <3>2. stack'[h][k] = f \/ (k - 1 \in DOMAIN below /\ stack'[h][k] = below[k - 1])
      <4> DEFINE b == <<f>> \o below
      <4>1. /\ b[1] = f
            /\ \A j \in DOMAIN b : j # 1 => j - 1 \in DOMAIN below /\ b[j] = below[j - 1]
        BY <3>1, PushFacts
      <4>2. k \in DOMAIN b /\ stack'[h] = b
        BY <2>3, <3>1
      <4> HIDE DEF b
      <4>3. CASE k = 1
        BY <4>1, <4>2, <4>3, Zenon
      <4>4. CASE k # 1
        BY <4>1, <4>2, <4>4
      <4> QED
        BY <4>3, <4>4
    <3> QED
      BY <2>3, <3>1, <3>2 DEF Old
  <2> QED
    BY <2>1, <2>2, <2>3
<1> QED
  BY <1>1, <1>2, <1>3 DEF Brings, NewFrames

LEMMA SweepsAreOld ==
    ASSUME NEW g, NEW b, NEW i, NEW max,
           \/ b = <<>> \/ b = SweepFrom(i, max) \/ \E busy \in BOOLEAN : b = <<Sweep(i, max, busy)>>
    PROVE  Old(g, b)
<1>1. ASSUME NEW busy \in BOOLEAN, b = <<Sweep(i, max, busy)>> PROVE Old(g, b)
  <2> DEFINE f == Sweep(i, max, busy)
  <2>1. f.sweep /\ f.c = NoCall
    BY DEF Sweep
  <2> HIDE DEF f
  <2>2. b = <<f>>
    BY <1>1 DEF f
  <2> QED
    BY <2>1, <2>2 DEF Old
<1>2. CASE b = <<>>
  BY <1>2 DEF Old
<1>3. CASE b = SweepFrom(i, max)
  <2>1. b = <<>> \/ b = <<Sweep(i, max, FALSE)>>
    BY <1>3, Zenon DEF SweepFrom
  <2> QED
    BY <1>1, <1>2, <2>1
<1> QED
  BY <1>1, <1>2, <1>3

LEMMA QuietBrings ==
    ASSUME UNCHANGED heap, net' \subseteq net,
           \A g \in Hosts : stack'[g] = stack[g] \/ Old(g, stack'[g])
    PROVE  Brings
  BY DEF Brings, NewFrames, NewDatagrams, NewObjects, Old

LEMMA AddedIsMade ==
    ASSUME NEW h, NEW s, Added(h, s), Made(h, Len(heap[h]) + 1, s)
    PROVE  NewObjects
  BY DEF Added, NewObjects

LEMMA CreateBrings ==
    ASSUME Shape, NEW h \in Hosts, CreateSession(h)
    PROVE  Brings
<1>0. PICK bits \in IdBits[h] : Created(h, bits)
  BY CreateHandled
<1> DEFINE L == Len(heap[h]) + 1
           s == NewSession(NewId(h, bits), NoId, <<h, L>>)
<1>1. Added(h, s) /\ UNCHANGED <<stack, net>> /\ NewId(h, bits) \in Ids
  BY <1>0 DEF Created
<1>2. Len(heap[h]) \in Nat /\ s \in Sessions /\ <<h, L>> \in Hosts \X Nat
  BY <1>1 DEF Added
<1>3. s.id = NewId(h, bits) /\ s.dest = NoId /\ s.rand = <<h, L>> /\ s.status = "NONE" /\ ~s.asked
      /\ s.ups = 0 /\ s.downs = 0
  BY <1>1, <1>2, NewSessionFacts
<1> HIDE DEF s
<1>4. Made(h, L, s)
  BY <1>1, <1>2, <1>3 DEF Made
<1>5. NewObjects
  BY <1>1, <1>4, AddedIsMade
<1> QED
  BY <1>1, <1>5 DEF Brings, NewFrames, NewDatagrams

LEMMA SynBrings ==
    ASSUME Shape, NEW m \in net, NEW dup \in BOOLEAN, ProcSynMsg(m.to, m, dup)
    PROVE  Brings
<1> DEFINE h == m.to
<1>1. /\ m.type = "syn" /\ h \in Hosts /\ m.loc \in Ids /\ m.rand \in Hosts \X Nat /\ stack[h] = <<>>
      /\ \/ Repeated(h, m) \/ \E bits \in IdBits[h] : Accepted(h, m, bits)
         \/ UNCHANGED <<heap, tab, maxIndex, stack>> /\ net' \subseteq net
  BY SynHandled
<1>2. CASE Repeated(h, m)
  <2>1. UNCHANGED <<heap, stack>>
    BY <1>2 DEF Repeated
  <2>2. PICK n \in DOMAIN heap[h] :
            /\ heap[h][n] \in Sessions /\ heap[h][n].rand = m.rand /\ heap[h][n].dest = m.loc
            /\ \A x \in net' : x \in net \/ x = Datagram(h, heap[h][n], "syn2")
    BY <1>2 DEF Repeated
  <2>3. "syn2" \in Types /\ Sends(h, heap[h][n], "syn2")
    BY <1>1, <2>2 DEF Sends, Types
  <2>4. NewDatagrams
    BY <1>1, <2>1, <2>2, <2>3 DEF NewDatagrams, Sent
  <2> QED
    BY <2>1, <2>4 DEF Brings, NewFrames, NewObjects
<1>3. ASSUME NEW bits \in IdBits[h], Accepted(h, m, bits) PROVE Brings
  <2> DEFINE e == OnAccept(NewSession(NewId(h, bits), m.loc, m.rand))
             s == e.s
             L == Len(heap[h]) + 1
             f == Frame(Call("on_accept", "NORMAL"), L)
  <2>1. /\ Added(h, s) /\ NewId(h, bits) \in Ids /\ ChkSynSession(h, m) = {}
        /\ stack'[h] = <<f>> /\ \A g \in Hosts : g # h => stack'[g] = stack[g]
        /\ \A x \in net' : x \in net \/ x = Datagram(h, s, "syn2")
    BY <1>3 DEF Accepted
  <2>2. /\ s \in Sessions /\ s.id = NewId(h, bits) /\ s.dest = m.loc /\ s.rand = m.rand /\ s.status = "NONE"
        /\ ~s.asked /\ s.ups = 1 /\ s.downs = 0
    BY <1>1, <2>1, AcceptFacts
  <2>3. f.obj = L /\ f.c = Call("on_accept", "NORMAL") /\ ~f.sweep
    BY DEF Frame
  <2> HIDE DEF s, f, e
  <2>4. Made(h, L, s)
    BY <1>1, <2>1, <2>2 DEF Made, Added
  <2>5. NewObjects
    BY <2>1, <2>4, AddedIsMade
  <2>6. h \in Hosts /\ L \in DOMAIN heap'[h] /\ heap'[h][L] = s
    BY <2>1 DEF Added
  <2>7. "syn2" \in Types /\ Sends(h, s, "syn2")
    BY <1>1, <2>2 DEF Sends, Types
  <2>8. NewDatagrams
    BY <2>1, <2>2, <2>6, <2>7 DEF NewDatagrams, Sent
  <2>9. Called(h, f)
    BY <1>1, <2>2, <2>3, <2>6 DEF Called
  <2>10. NewFrames
    BY <2>1, <2>9 DEF NewFrames
  <2> QED
    BY <2>5, <2>8, <2>10 DEF Brings
<1>4. CASE UNCHANGED <<heap, tab, maxIndex, stack>> /\ net' \subseteq net
  BY <1>4, QuietBrings
<1> QED
  BY <1>1, <1>2, <1>3, <1>4

LEMMA ConnectBrings ==
    ASSUME Shape, NEW h \in Hosts, NEW n \in DOMAIN heap[h], ConnectSession(h, n)
    PROVE  Brings
<1> DEFINE s == heap[h][n]
           e == Connect(s)
<1>1. Handled(h, n, e, <<>>) /\ s \in Sessions /\ ~s.asked /\ s.rand[1] = h
  BY ConnectHandled
<1>2. /\ Kept(s, e) /\ e.c = NoCall /\ e.out = {"syn"}
      /\ s.status = "CLOSE" => e.s.status = "CLOSE"
      /\ s.status # "CLOSE" => e.s.asked
  BY <1>1, ConnectFacts
<1> HIDE DEF e
<1>3. "syn" \in Types /\ Sends(h, e.s, "syn")
  BY <1>1, <1>2 DEF Sends, Used, Kept, Types
<1>4. Old(h, <<>>)
  BY DEF Old
<1> QED
  BY <1>1, <1>2, <1>3, <1>4, HandledBrings

LEMMA CloseBrings ==
    ASSUME Shape, NEW h \in Hosts, NEW n \in DOMAIN heap[h], CloseSession(h, n)
    PROVE  Brings
<1> DEFINE s == heap[h][n]
           e == Disconnect([s EXCEPT !.closed = TRUE], "FIN")
           f == Frame(e.c, n)
<1>1. Handled(h, n, e, stack[h]) /\ s \in Sessions /\ s.status \in {"CONNECTING", "NORMAL"}
  BY CloseHandled
<1>2. Kept(s, e) /\ e.c = Call("on_disconnection", "FIN") /\ e.out = {"fin"} /\ e.s.downs = s.downs + 1
  BY <1>1, CloseFacts
<1> HIDE DEF e
<1>3. ~f.sweep /\ f.c = Call("on_disconnection", "FIN") /\ f.obj = n
  BY <1>2 DEF Frame
<1> HIDE DEF f
<1>4. s.downs \in Nat /\ heap'[h][n] = e.s
  BY <1>1 DEF Sessions, Handled
<1>5. Called(h, f)
  BY <1>1, <1>2, <1>3, <1>4 DEF Called
<1>6. "fin" \in Types /\ Sends(h, e.s, "fin")
  BY <1>2, <1>4 DEF Sends, Types
<1>7. Old(h, stack[h])
  BY DEF Old
<1> QED
  BY <1>1, <1>2, <1>5, <1>6, <1>7, HandledBrings DEF f

LEMMA ReturnBrings ==
    ASSUME Shape, NEW h \in Hosts, Return(h)
    PROVE  Brings
<1> DEFINE n == stack[h][1].obj
           s == heap[h][n]
           e == Resume(s, stack[h][1].c.then)
           f == Frame(e.c, n)
<1>1. /\ stack[h] \in Seq(AnyFrame) /\ stack[h] # <<>> /\ stack[h][1].c \in Callbacks
      /\ s \in Sessions /\ ~stack[h][1].sweep
      /\ Handled(h, n, e, Tail(stack[h]))
  BY ReturnHandled DEF Return
<1>2. e.c \in {NoCall, Call("on_connection", "none")} /\ e.out = {}
  BY <1>1, ResumeFacts DEF Resumed
<1> HIDE DEF e
<1>3. 1 \in DOMAIN stack[h] /\ \A k \in DOMAIN Tail(stack[h]) :
                                  k + 1 \in DOMAIN stack[h] /\ Tail(stack[h])[k] = stack[h][k + 1]
  BY <1>1, PopFacts
<1>4. Old(h, Tail(stack[h]))
  BY <1>3 DEF Old
<1>5. ~f.sweep /\ f.c = e.c /\ f.obj = n
  BY DEF Frame
<1> HIDE DEF f
<1>6. e.c = NoCall \/ Called(h, f)
  BY <1>1, <1>2, <1>3, <1>5 DEF Called
<1> QED
  BY <1>1, <1>2, <1>4, <1>6, HandledBrings DEF f

LEMMA SweepStepBrings ==
    ASSUME Shape, NEW h \in Hosts, NEW late \in Lates, SweepStep(h, late)
    PROVE  Brings
<1>a. PICK f : f = stack[h][1]
  OBVIOUS
<1>b. PICK n : n = tab[h][f.i]
  OBVIOUS
<1> DEFINE s == heap[h][n]
           e == ProcTimer(s, late)
<1>1. \/ Passed(h, f) /\ UNCHANGED heap
      \/ Passed(h, f) /\ Deleted(h, n)
      \/ Timed(h, n, late, SweepFrom(f.i + 1, f.max))
      \/ Timed(h, n, late, <<Sweep(f.i, f.max, TRUE)>>)
  BY <1>a, <1>b, SweepStepHandled DEF SweepLeaves
<1>2. Old(h, SweepFrom(f.i + 1, f.max)) /\ Old(h, <<Sweep(f.i, f.max, TRUE)>>)
  BY SweepsAreOld
<1>3. CASE Passed(h, f) /\ UNCHANGED heap
  BY <1>2, <1>3, QuietBrings DEF Passed
<1>4. CASE Passed(h, f) /\ Deleted(h, n)
  <2>1. NewObjects /\ NewDatagrams
    BY <1>4 DEF Passed, Deleted, OnlyChanged, NewObjects, NewDatagrams
  <2>2. NewFrames
    BY <1>2, <1>4 DEF Passed, NewFrames, Old
  <2> QED
    BY <2>1, <2>2 DEF Brings
<1>5. ASSUME NEW below, Old(h, below), Timed(h, n, late, below)
      PROVE  Brings
  <2> DEFINE fr == Frame(e.c, n)
  <2>1. n \in DOMAIN heap[h] /\ s \in Sessions /\ Handled(h, n, e, below)
    BY <1>5 DEF Timed
  <2>2. /\ Kept(s, e)
        /\ \/ /\ e.s.status = s.status /\ e.c = NoCall
              /\ \/ e.out \subseteq {"keepalive"} \/ e.out \subseteq {"fin2"}
                 \/ e.out = {"syn"} /\ s.status = "CONNECTING"
                 \/ e.out = {"fin"} /\ s.status = "FIN"
           \/ /\ s.status \in {"CONNECTING", "NORMAL"} /\ e.s.downs = s.downs + 1
              /\ e.c \in {Call("on_disconnection", "FIN"), Call("on_disconnection", "timeout")}
              /\ e.out = {"fin"}
           \/ e.c = NoCall /\ e.out = {}
    BY <2>1, ProcTimerFacts DEF TimerRuns
  <2>3. s.downs \in Nat /\ heap'[h][n] = e.s
    BY <2>1 DEF Sessions, Handled
  <2>4. ~fr.sweep /\ fr.c = e.c /\ fr.obj = n
    BY DEF Frame
  <2> HIDE DEF e, fr
  <2>5. e.c = NoCall \/ Called(h, fr)
    BY <2>1, <2>2, <2>3, <2>4 DEF Called
  <2>6. \A t \in e.out : t \in Types /\ Sends(h, e.s, t)
    BY <2>2, <2>3 DEF Sends, Types
  <2> QED
    BY <1>5, <2>1, <2>5, <2>6, HandledBrings DEF fr
<1> QED
  BY <1>1, <1>2, <1>3, <1>4, <1>5

LEMMA MessageBrings ==
    ASSUME Shape, NEW m \in net, NEW dup \in BOOLEAN, ProcSessionMsg(m.to, m, dup)
    PROVE  Brings
<1> DEFINE h == m.to
<1>1. \/ \E n \in DOMAIN heap[h] : Received(h, n, m)
      \/ UNCHANGED <<heap, stack>> /\ net' \subseteq net
  BY MessageHandled
<1>2. ASSUME NEW n \in DOMAIN heap[h], Received(h, n, m) PROVE Brings
  <2> DEFINE s == heap[h][n]
             e == ProcUdpMsg(s, m)
             f == Frame(e.c, n)
  <2>1. /\ m.type # "syn" /\ m \in Datagrams /\ s \in Sessions /\ s.id = m.dest
        /\ Handled(h, n, e, <<>>)
    BY <1>2 DEF Received
  <2>2. /\ Kept(s, e)
        /\ \/ e.c = NoCall /\ e.out \subseteq {"keepalive_ack"}
           \/ /\ s.status = "CONNECTING" /\ e.c = Call("on_connection", "none") /\ e.out = {"keepalive"}
           \/ /\ m.type = "fin" /\ s.status = "NORMAL" /\ e.s.status = s.status
              /\ e.s.downs = s.downs + 1
              /\ e.c = Call("on_disconnection", "FIN2") /\ e.out = {"fin2"}
           \/ e.c = NoCall /\ e.out = {"fin2"}
    BY <2>1, ProcUdpMsgFacts
  <2>3. s.downs \in Nat /\ heap'[h][n] = e.s
    BY <2>1 DEF Sessions, Handled
  <2>4. ~f.sweep /\ f.c = e.c /\ f.obj = n
    BY DEF Frame
  <2> HIDE DEF e, f, h
  <2>5. e.c = NoCall \/ Called(h, f)
    BY <2>1, <2>2, <2>3, <2>4 DEF Called, h
  <2>6. \A t \in e.out : t \in Types /\ Sends(h, e.s, t)
    BY <2>2 DEF Sends, Types
  <2>7. Old(h, <<>>)
    BY DEF Old
  <2> QED
    BY <2>1, <2>5, <2>6, <2>7, HandledBrings DEF f
<1>3. CASE UNCHANGED <<heap, stack>> /\ net' \subseteq net
  BY <1>3, QuietBrings
<1> QED
  BY <1>1, <1>2, <1>3

LEMMA StepBrings ==
    ASSUME Shape, [Next]_vars
    PROVE  Brings
<1>1. ASSUME NEW h \in Hosts, CreateSession(h) PROVE Brings
  BY <1>1, CreateBrings
<1>2. ASSUME NEW h \in Hosts, NEW n \in DOMAIN heap[h], ConnectSession(h, n) PROVE Brings
  BY <1>2, ConnectBrings
<1>3. ASSUME NEW h \in Hosts, NEW n \in DOMAIN heap[h], CloseSession(h, n) PROVE Brings
  BY <1>3, CloseBrings
<1>4. ASSUME NEW h \in Hosts, NEW n \in DOMAIN heap[h], SilenceElapses(h, n) PROVE Brings
  <2>1. OnlyChanged(h, n) /\ UNCHANGED <<stack, net>>
    BY <1>4, SilenceHandled
  <2> QED
    BY <2>1 DEF OnlyChanged, Brings, NewFrames, NewDatagrams, NewObjects
<1>5. ASSUME NEW h \in Hosts, Return(h) PROVE Brings
  BY <1>5, ReturnBrings
<1>6. ASSUME NEW h \in Hosts, ChkUpdate(h) PROVE Brings
  <2>1. /\ UNCHANGED <<heap, net>> /\ stack'[h] = <<Sweep(0, maxIndex[h], FALSE)>>
        /\ \A g \in Hosts : g # h => stack'[g] = stack[g]
    BY <1>6, ChkUpdateHandled
  <2>2. Old(h, stack'[h])
    BY <2>1, SweepsAreOld
  <2> QED
    BY <2>1, <2>2, QuietBrings
<1>7. ASSUME NEW h \in Hosts, NEW late \in Lates, SweepStep(h, late) PROVE Brings
  BY <1>7, SweepStepBrings
<1>8. ASSUME NEW h \in Hosts, Swept(h) PROVE Brings
  <2>1. /\ UNCHANGED <<heap, net>> /\ stack'[h] = SweepFrom(stack[h][1].i + 1, stack[h][1].max)
        /\ \A g \in Hosts : g # h => stack'[g] = stack[g]
    BY <1>8, SweptHandled
  <2>2. Old(h, stack'[h])
    BY <2>1, SweepsAreOld
  <2> QED
    BY <2>1, <2>2, QuietBrings
<1>9. ASSUME NEW m \in net, NEW dup \in BOOLEAN, ProcSynMsg(m.to, m, dup) PROVE Brings
  BY <1>9, SynBrings
<1>10. ASSUME NEW m \in net, NEW dup \in BOOLEAN, ProcSessionMsg(m.to, m, dup) PROVE Brings
  BY <1>10, MessageBrings
<1>11. ASSUME NEW m \in net, Lose(m) PROVE Brings
  BY <1>11, LoseHandled, QuietBrings
<1>12. ASSUME UNCHANGED vars PROVE Brings
  BY <1>12, QuietBrings DEF vars
<1> QED
  BY <1>1, <1>2, <1>3, <1>4, <1>5, <1>6, <1>7, <1>8, <1>9, <1>10, <1>11, <1>12, Zenon DEF Next

-----------------------------------------------------------------------------
(* The table.                                                              *)

\* The sweep below a callback stays, and a callback is no sweep.
LEMMA SweepsOfPush ==
    ASSUME NEW b \in Seq(AnyFrame), NEW f \in AnyFrame, ~f.sweep
    PROVE  Sweeps(<<f>> \o b) = Sweeps(b)
<1> DEFINE c == <<f>> \o b
<1>1. /\ c[1] = f
      /\ \A k \in DOMAIN c : k # 1 => k - 1 \in DOMAIN b /\ c[k] = b[k - 1]
      /\ \A k \in DOMAIN b : k + 1 \in DOMAIN c /\ c[k + 1] = b[k]
  BY PushFacts
<1> HIDE DEF c
<1>2. Sweeps(c) = Sweeps(b)
  BY <1>1 DEF Sweeps
<1> QED
  BY <1>2 DEF c

LEMMA SweepsOfTail ==
    ASSUME NEW b \in Seq(AnyFrame), b # <<>>, ~b[1].sweep
    PROVE  Sweeps(Tail(b)) = Sweeps(b)
<1> DEFINE c == Tail(b)
<1>1. /\ \A k \in DOMAIN c : k + 1 \in DOMAIN b /\ c[k] = b[k + 1]
      /\ \A k \in DOMAIN b : k # 1 => k - 1 \in DOMAIN c /\ b[k] = c[k - 1]
  BY PopFacts
<1> HIDE DEF c
<1>2. Sweeps(c) = Sweeps(b)
  BY <1>1 DEF Sweeps
<1> QED
  BY <1>2 DEF c

LEMMA SweepsOfOne ==
    ASSUME NEW f
    PROVE  Sweeps(<<>>) = {} /\ Sweeps(<<f>>) = {g \in {f} : g.sweep}
  BY DEF Sweeps

LEMMA SweepsOfRest ==
    ASSUME NEW i, NEW max
    PROVE  /\ i = max => Sweeps(SweepFrom(i, max)) = {}
           /\ i # max => \A f \in Sweeps(SweepFrom(i, max)) : f.i = i /\ f.max = max
           /\ i # max => Sweeps(SweepFrom(i, max)) # {}
<1>1. CASE i = max
  <2>1. SweepFrom(i, max) = <<>>
    BY <1>1, Zenon DEF SweepFrom
  <2> QED
    BY <1>1, <2>1, SweepsOfOne
<1>2. CASE i # max
  <2> DEFINE f == Sweep(i, max, FALSE)
  <2>1. SweepFrom(i, max) = <<f>>
    BY <1>2, Zenon DEF SweepFrom
  <2>2. f.sweep /\ f.i = i /\ f.max = max
    BY DEF Sweep
  <2> HIDE DEF f
  <2> QED
    BY <1>2, <2>1, <2>2, SweepsOfOne
<1> QED
  BY <1>1, <1>2

\* The sweep of a thread that is in no callback.
LEMMA SweepsOfSweep ==
    ASSUME Shape, NEW h \in Hosts, stack[h] # <<>>, stack[h][1].sweep
    PROVE  Sweeps(stack[h]) = {stack[h][1]}
<1> DEFINE f == stack[h][1]
<1>1. stack[h] = <<f>> /\ f.sweep
  BY SweepAlone
<1> HIDE DEF f
<1>2. Sweeps(<<f>>) = {f}
  BY <1>1, SweepsOfOne
<1> QED
  BY <1>1, <1>2 DEF f

LEMMA HandledSweeps ==
    ASSUME NEW h, NEW n, NEW e, NEW below, Handled(h, n, e, below)
    PROVE  Sweeps(stack'[h]) = Sweeps(below)
<1> DEFINE f == Frame(e.c, n)
<1>1. ~f.sweep
  BY DEF Frame
<1>2. CASE e.c = NoCall
  BY <1>2 DEF Handled
<1>3. CASE e.c # NoCall
  <2>1. stack'[h] = <<f>> \o below /\ f \in AnyFrame /\ below \in Seq(AnyFrame)
    BY <1>3 DEF Handled
  <2> HIDE DEF f
  <2> QED
    BY <1>1, <2>1, SweepsOfPush
<1> QED
  BY <1>2, <1>3

\* No handler changes the id of a session or deletes it.
LEMMA HandledTable ==
    ASSUME NEW h, NEW n, NEW e, NEW below, Handled(h, n, e, below), UNCHANGED tab, TabOK,
           NEW g \in Hosts, Entries(g), EveryoneListed(g)
    PROVE  Entries(g)' /\ EveryoneListed(g)'
<1>1. \A k \in DOMAIN heap[g] : heap'[g][k].id = heap[g][k].id /\ heap'[g][k].alive = heap[g][k].alive
  BY DEF Handled, OnlyChanged, Kept
<1>2. DOMAIN heap'[g] = DOMAIN heap[g]
  BY DEF Handled, OnlyChanged
<1>3. \A i \in Slots(g) : tab[g][i] # 0 => tab[g][i] \in DOMAIN heap[g]
  BY DEF TabOK
<1>4. Entries(g)'
  BY <1>1, <1>3 DEF Entries
<1> QED
  BY <1>1, <1>2, <1>4 DEF EveryoneListed, Listed

\* What no step touches stays as it is.
LEMMA TableStays ==
    ASSUME NEW g \in Hosts, Entries(g), EveryoneListed(g), heap'[g] = heap[g], tab'[g] = tab[g]
    PROVE  Entries(g)' /\ EveryoneListed(g)'
  BY DEF Entries, EveryoneListed, Listed

LEMMA ReachedStays ==
    ASSUME NEW g \in Hosts, Reached(g), tab'[g] = tab[g], maxIndex'[g] = maxIndex[g],
           Sweeps(stack'[g]) = Sweeps(stack[g])
    PROVE  Reached(g)'
  BY DEF Reached

\* No sweep and no callback is suspended where a session is created.
LEMMA CreatedAlone ==
    ASSUME NoCreation, NEW h \in Hosts, MayCall(h, "create_session")
    PROVE  stack[h] = <<>>
  BY ReentryPairs DEF NoCreation, MayCall

LEMMA AddedTable ==
    ASSUME Shape, TableInv, NEW h, NEW s, Added(h, s), s.alive, s.id.idx = Slot(h),
           stack[h] = <<>>, Sweeps(stack'[h]) = {},
           \A g \in Hosts : g # h => stack'[g] = stack[g]
    PROVE  TableInv'
<1> DEFINE L == Len(heap[h]) + 1
           new == Slot(h)
<1>1. /\ h \in Hosts /\ Len(heap[h]) \in Nat /\ maxIndex[h] \in Nat
      /\ \A g \in Hosts : g # h => heap'[g] = heap[g] /\ tab'[g] = tab[g] /\ maxIndex'[g] = maxIndex[g]
      /\ DOMAIN heap'[h] = DOMAIN heap[h] \cup {L} /\ heap'[h][L] = s
      /\ \A k \in DOMAIN heap[h] : heap'[h][k] = heap[h][k] /\ k # L
      /\ new \in Slots(h) /\ tab'[h][new] = L
      /\ \A i \in Slots(h) : i # new => tab'[h][i] = tab[h][i]
      /\ maxIndex'[h] = IF new = maxIndex[h] THEN maxIndex[h] + 1 ELSE maxIndex[h]
  BY DEF Added, Shape, TabOK
<1>2. new \in Nat /\ new <= maxIndex[h] /\ (new < maxIndex[h] => tab[h][new] = 0)
  BY <1>1, SlotFacts
<1>3. /\ Entries(h) /\ EveryoneListed(h)
      /\ \A i \in Slots(h) : tab[h][i] # 0 => i < maxIndex[h]
  <2>1. Sweeps(stack[h]) = {}
    BY SweepsOfOne
  <2> QED
    BY <1>1, <2>1 DEF TableInv, Reached
<1>4. tab[h][new] = 0
  BY <1>1, <1>2, <1>3
<1>5. \A i \in Slots(h) : i \in Nat /\ tab[h][i] \in {0} \cup DOMAIN heap[h]
  <2>1. tab[h] \in [Slots(h) -> {0} \cup DOMAIN heap[h]]
    BY <1>1 DEF Shape, TabOK
  <2>2. \A i \in Slots(h) : i \in Nat
    BY DEF Slots
  <2> QED
    BY <2>1, <2>2
<1>6. \A k \in DOMAIN heap'[h] : k # 0
  BY <1>1 DEF Shape, HeapOK
<1> HIDE DEF new, L
<1>7. Entries(h)'
  <2>1. ASSUME NEW i \in Slots(h), tab'[h][i] # 0
        PROVE  heap'[h][tab'[h][i]].alive /\ heap'[h][tab'[h][i]].id.idx = i
    <3>1. CASE i = new
      BY <1>1, <3>1 DEF new
    <3>2. CASE i # new
      BY <1>1, <1>3, <1>5, <2>1, <3>2 DEF Entries
    <3> QED
      BY <3>1, <3>2
  <2> QED
    BY <2>1 DEF Entries
<1>8. EveryoneListed(h)'
  <2>1. ASSUME NEW n \in DOMAIN heap'[h], heap'[h][n].alive
        PROVE  \E i \in Slots(h) : tab'[h][i] = n
    <3>1. CASE n = L
      BY <1>1, <3>1
    <3>2. CASE n # L
      <4>1. n \in DOMAIN heap[h] /\ heap[h][n].alive /\ n # 0
        BY <1>1, <1>6, <2>1, <3>2
      <4>2. PICK i \in Slots(h) : tab[h][i] = n
        BY <1>3, <4>1 DEF EveryoneListed, Listed
      <4> QED
        BY <1>1, <1>4, <4>1, <4>2
    <3> QED
      BY <3>1, <3>2
  <2> QED
    BY <2>1 DEF EveryoneListed, Listed
<1>9. Reached(h)'
  <2>1. ASSUME NEW i \in Slots(h), tab'[h][i] # 0
        PROVE  i < maxIndex'[h]
    <3>1. i \in Nat
      BY <1>5
    <3>2. CASE i = new
      BY <1>1, <1>2, <3>1, <3>2 DEF new
    <3>3. CASE i # new
      <4>1. tab[h][i] # 0
        BY <1>1, <2>1, <3>3 DEF new
      <4>2. i < maxIndex[h]
        BY <1>3, <4>1
      <4>3. maxIndex'[h] = maxIndex[h] + 1 \/ maxIndex'[h] = maxIndex[h]
        BY <1>1
      <4> QED
        BY <1>1, <3>1, <4>2, <4>3
    <3> QED
      BY <3>2, <3>3
  <2> QED
    BY <2>1 DEF Reached
<1>10. ASSUME NEW g \in Hosts, g # h
       PROVE  Entries(g)' /\ EveryoneListed(g)' /\ Reached(g)'
  <2>1. /\ heap'[g] = heap[g] /\ tab'[g] = tab[g] /\ maxIndex'[g] = maxIndex[g]
        /\ Sweeps(stack'[g]) = Sweeps(stack[g])
        /\ Entries(g) /\ EveryoneListed(g) /\ Reached(g)
    BY <1>1, <1>10 DEF TableInv
  <2> QED
    BY <2>1, TableStays, ReachedStays
<1> QED
  BY <1>1, <1>7, <1>8, <1>9, <1>10 DEF TableInv

\* A handler that leaves the table alone and the sweep where it is.
LEMMA HandledKeepsTable ==
    ASSUME Shape, TableInv, NEW h, NEW n, NEW e, NEW below, Handled(h, n, e, below),
           UNCHANGED <<tab, maxIndex>>, Sweeps(below) = Sweeps(stack[h])
    PROVE  TableInv'
<1> SUFFICES ASSUME NEW g \in Hosts PROVE Entries(g)' /\ EveryoneListed(g)' /\ Reached(g)'
  BY DEF TableInv
<1>1. Entries(g)' /\ EveryoneListed(g)'
  BY HandledTable DEF TableInv, Shape
<1>2. Sweeps(stack'[g]) = Sweeps(stack[g])
  <2>1. CASE g = h
    BY <2>1, HandledSweeps
  <2>2. CASE g # h
    BY <2>2 DEF Handled
  <2> QED
    BY <2>1, <2>2
<1>3. Reached(g) /\ tab'[g] = tab[g] /\ maxIndex'[g] = maxIndex[g]
  BY DEF TableInv
<1> QED
  BY <1>1, <1>2, <1>3, ReachedStays

\* The sweep goes on after index i of the table, which it has dealt with: it
\* is empty, or counted.
LEMMA SweepGoesOn ==
    ASSUME Shape, NEW h \in Hosts, stack[h] # <<>>, stack[h][1].sweep, Reached(h),
           \A i \in Slots(h) : tab'[h][i] # 0 => tab[h][i] # 0,
           \/ maxIndex'[h] = stack[h][1].i + 1
           \/ maxIndex'[h] = maxIndex[h] /\ tab'[h][stack[h][1].i] = 0,
           Sweeps(stack'[h]) = Sweeps(SweepFrom(stack[h][1].i + 1, stack[h][1].max))
    PROVE  Reached(h)'
<1> DEFINE f == stack[h][1]
<1>1. /\ f.i \in Nat /\ f.max \in Nat /\ f.i < f.max /\ f.i \in Slots(h)
      /\ Sweeps(stack[h]) = {f} /\ maxIndex[h] \in Nat
  BY SweepAlone, SweepsOfSweep DEF Shape, TabOK
<1>2. /\ f.i + 1 = f.max => Sweeps(stack'[h]) = {}
      /\ f.i + 1 # f.max => \A g \in Sweeps(stack'[h]) : g.i = f.i + 1 /\ g.max = f.max
      /\ f.i + 1 # f.max => Sweeps(stack'[h]) # {}
  BY SweepsOfRest
<1> HIDE DEF f
<1>3. ASSUME NEW i \in Slots(h), tab'[h][i] # 0
      PROVE  /\ Sweeps(stack'[h]) = {} => i < maxIndex'[h]
             /\ \A g \in Sweeps(stack'[h]) : i < g.max /\ (i < maxIndex'[h] \/ g.i <= i)
  <2>1. i \in Nat
    BY DEF Slots
  <2>2. i < f.max /\ (i < maxIndex[h] \/ f.i <= i)
    BY <1>1, <1>3 DEF Reached
  <2>3. \/ maxIndex'[h] = f.i + 1
        \/ maxIndex'[h] = maxIndex[h] /\ i # f.i
    BY <1>3 DEF f
  <2>4. i < maxIndex'[h] \/ f.i + 1 <= i
    BY <1>1, <2>1, <2>2, <2>3
  <2> QED
    BY <1>1, <1>2, <2>1, <2>2, <2>4
<1> QED
  BY <1>3 DEF Reached

LEMMA CreateKeepsTable ==
    ASSUME NoCreation, Shape, TableInv, NEW h \in Hosts, CreateSession(h)
    PROVE  TableInv'
<1>0. PICK bits \in IdBits[h] : Created(h, bits)
  BY CreateHandled
<1> DEFINE s == NewSession(NewId(h, bits), NoId, <<h, Len(heap[h]) + 1>>)
<1>1. /\ Added(h, s) /\ NewId(h, bits) \in Ids /\ NewId(h, bits).idx = Slot(h)
      /\ MayCall(h, "create_session") /\ UNCHANGED stack
  BY <1>0 DEF Created
<1>2. <<h, Len(heap[h]) + 1>> \in Hosts \X Nat
  BY <1>1 DEF Added
<1>3. s.id = NewId(h, bits) /\ s.alive
  BY <1>1, <1>2, NewSessionFacts
<1> HIDE DEF s
<1>4. stack[h] = <<>> /\ Sweeps(stack'[h]) = {}
  BY <1>1, CreatedAlone, SweepsOfOne
<1> QED
  BY <1>1, <1>3, <1>4, AddedTable

LEMMA SynKeepsTable ==
    ASSUME Shape, TableInv, NEW m \in net, NEW dup \in BOOLEAN, ProcSynMsg(m.to, m, dup)
    PROVE  TableInv'
<1> DEFINE h == m.to
<1>1. /\ h \in Hosts /\ m.loc \in Ids /\ m.rand \in Hosts \X Nat /\ stack[h] = <<>>
      /\ \/ UNCHANGED <<heap, tab, maxIndex, stack>>
         \/ \E bits \in IdBits[h] : Accepted(h, m, bits)
  BY SynHandled DEF Repeated
<1>2. CASE UNCHANGED <<heap, tab, maxIndex, stack>>
  BY <1>2 DEF TableInv, Entries, EveryoneListed, Listed, Reached
<1>3. ASSUME NEW bits \in IdBits[h], Accepted(h, m, bits) PROVE TableInv'
  <2> DEFINE e == OnAccept(NewSession(NewId(h, bits), m.loc, m.rand))
             s == e.s
             f == Frame(Call("on_accept", "NORMAL"), Len(heap[h]) + 1)
  <2>1. /\ Added(h, s) /\ NewId(h, bits) \in Ids /\ NewId(h, bits).idx = Slot(h)
        /\ stack'[h] = <<f>> /\ \A g \in Hosts : g # h => stack'[g] = stack[g]
    BY <1>3 DEF Accepted
  <2>2. s.id = NewId(h, bits) /\ s.alive
    BY <1>1, <2>1, AcceptFacts
  <2>3. ~f.sweep
    BY DEF Frame
  <2> HIDE DEF s, f, e
  <2>4. Sweeps(stack'[h]) = {}
    BY <2>1, <2>3, SweepsOfOne
  <2> QED
    BY <1>1, <2>1, <2>2, <2>4, AddedTable
<1> QED
  BY <1>1, <1>2, <1>3

LEMMA SweepStepKeepsTable ==
    ASSUME Shape, TableInv, NEW h \in Hosts, NEW late \in Lates, SweepStep(h, late)
    PROVE  TableInv'
<1>a. PICK f : f = stack[h][1]
  OBVIOUS
<1>b. PICK n : n = tab[h][f.i]
  OBVIOUS
<1>0. SweepLeaves(h, late, f, n)
  BY <1>a, <1>b, SweepStepHandled
<1>1. /\ stack[h] # <<>> /\ f.sweep
      /\ \/ n = 0 /\ Passed(h, f) /\ UNCHANGED <<heap, tab>>
         \/ /\ n # 0 /\ n \in DOMAIN heap[h] /\ Passed(h, f) /\ Deleted(h, n)
            /\ tab'[h][f.i] = 0
            /\ \A g \in Hosts : \A i \in Slots(g) : g # h \/ i # f.i => tab'[g][i] = tab[g][i]
         \/ /\ Timed(h, n, late, SweepFrom(f.i + 1, f.max))
            /\ maxIndex'[h] = f.i + 1
            /\ \A g \in Hosts : g # h => maxIndex'[g] = maxIndex[g]
         \/ Timed(h, n, late, <<Sweep(f.i, f.max, TRUE)>>) /\ UNCHANGED maxIndex
  BY <1>0, Zenon DEF SweepLeaves
<1>2. f.i \in Nat /\ f.i < f.max /\ f.max \in Nat /\ f.i \in Slots(h) /\ Sweeps(stack[h]) = {f}
  BY <1>a, <1>1, SweepAlone, SweepsOfSweep
<1>3. \A g \in Hosts : Entries(g) /\ EveryoneListed(g) /\ Reached(g)
  BY DEF TableInv
<1>4. ASSUME \A g \in Hosts : Entries(g)' /\ EveryoneListed(g)', Reached(h)',
             \A g \in Hosts : g # h => /\ stack'[g] = stack[g] /\ maxIndex'[g] = maxIndex[g]
                                       /\ \A i \in Slots(g) : tab'[g][i] = tab[g][i]
      PROVE  TableInv'
  <2>1. ASSUME NEW g \in Hosts, g # h PROVE Reached(g)'
    BY <1>3, <1>4, <2>1 DEF Reached
  <2> QED
    BY <1>4, <2>1 DEF TableInv
<1>5. CASE n = 0 /\ Passed(h, f) /\ UNCHANGED <<heap, tab>>
  <2>1. \A g \in Hosts : Entries(g)' /\ EveryoneListed(g)'
    BY <1>3, <1>5, TableStays
  <2>2. Reached(h)'
    BY <1>a, <1>b, <1>1, <1>3, <1>5, SweepGoesOn DEF Passed
  <2> QED
    BY <1>4, <1>5, <2>1, <2>2 DEF Passed
<1>6. CASE /\ n # 0 /\ n \in DOMAIN heap[h] /\ Passed(h, f) /\ Deleted(h, n)
           /\ tab'[h][f.i] = 0
           /\ \A g \in Hosts : \A i \in Slots(g) : g # h \/ i # f.i => tab'[g][i] = tab[g][i]
  <2>1. ASSUME NEW g \in Hosts PROVE Entries(g)' /\ EveryoneListed(g)'
    <3>1. /\ DOMAIN heap'[g] = DOMAIN heap[g]
          /\ \A k \in DOMAIN heap[g] : heap'[g][k].id = heap[g][k].id
          /\ \A k \in DOMAIN heap[g] : g # h \/ k # n => heap'[g][k].alive = heap[g][k].alive
          /\ g = h => ~heap'[g][n].alive
      BY <1>6 DEF Deleted, OnlyChanged, Alike
    <3>2. \A i \in Slots(g) : tab[g][i] # 0 => tab[g][i] \in DOMAIN heap[g]
      BY DEF Shape, TabOK
    <3>3. \A i \in Slots(g) : g = h /\ tab[g][i] = n => i = f.i
      BY <1>b, <1>2, <1>3, <1>6 DEF Entries
    <3>4. Entries(g)'
      BY <1>3, <1>6, <3>1, <3>2, <3>3 DEF Entries
    <3>5. ASSUME NEW k \in DOMAIN heap[g], heap'[g][k].alive
          PROVE  \E i \in Slots(g) : tab'[g][i] = k
      <4>1. heap[g][k].alive /\ (g # h \/ k # n)
        BY <3>1, <3>5
      <4>2. PICK i \in Slots(g) : tab[g][i] = k
        BY <1>3, <4>1 DEF EveryoneListed, Listed
      <4>3. g # h \/ i # f.i
        BY <1>b, <4>1, <4>2
      <4> QED
        BY <1>6, <4>2, <4>3
    <3> QED
      BY <3>1, <3>4, <3>5 DEF EveryoneListed, Listed
  <2>2. Reached(h)'
    <3>1. \A i \in Slots(h) : tab'[h][i] # 0 => tab[h][i] # 0
      BY <1>6
    <3> QED
      BY <1>a, <1>1, <1>3, <1>6, <3>1, SweepGoesOn DEF Passed
  <2> QED
    BY <1>4, <1>6, <2>1, <2>2 DEF Passed
<1>7. CASE /\ Timed(h, n, late, SweepFrom(f.i + 1, f.max))
           /\ maxIndex'[h] = f.i + 1
           /\ \A g \in Hosts : g # h => maxIndex'[g] = maxIndex[g]
  <2> DEFINE e == ProcTimer(heap[h][n], late)
             rest == SweepFrom(f.i + 1, f.max)
  <2>1. Handled(h, n, e, rest) /\ UNCHANGED tab
    BY <1>7 DEF Timed
  <2> HIDE DEF e
  <2>2. \A g \in Hosts : Entries(g)' /\ EveryoneListed(g)'
    BY <1>3, <2>1, HandledTable DEF Shape
  <2>3. Sweeps(stack'[h]) = Sweeps(rest)
    BY <2>1, HandledSweeps
  <2>4. Reached(h)'
    BY <1>a, <1>1, <1>3, <1>7, <2>1, <2>3, SweepGoesOn
  <2>5. \A g \in Hosts : g # h => stack'[g] = stack[g]
    BY <2>1 DEF Handled
  <2> QED
    BY <1>4, <1>7, <2>1, <2>2, <2>4, <2>5
<1>8. CASE Timed(h, n, late, <<Sweep(f.i, f.max, TRUE)>>) /\ UNCHANGED maxIndex
  <2> DEFINE e == ProcTimer(heap[h][n], late)
             b == Sweep(f.i, f.max, TRUE)
  <2>1. Handled(h, n, e, <<b>>) /\ UNCHANGED tab
    BY <1>8 DEF Timed
  <2>2. b.sweep /\ b.i = f.i /\ b.max = f.max
    BY DEF Sweep
  <2> HIDE DEF e, b
  <2>3. \A g \in Hosts : Entries(g)' /\ EveryoneListed(g)'
    BY <1>3, <2>1, HandledTable DEF Shape
  <2>4. Sweeps(stack'[h]) = {b}
    <3>1. Sweeps(stack'[h]) = Sweeps(<<b>>)
      BY <2>1, HandledSweeps
    <3> QED
      BY <2>2, <3>1, SweepsOfOne
  <2>5. Reached(h)'
    BY <1>2, <1>3, <1>8, <2>1, <2>2, <2>4 DEF Reached
  <2>6. \A g \in Hosts : g # h => stack'[g] = stack[g]
    BY <2>1 DEF Handled
  <2> QED
    BY <1>4, <1>8, <2>1, <2>3, <2>5, <2>6
<1> QED
  BY <1>1, <1>5, <1>6, <1>7, <1>8

LEMMA TableStep ==
    ASSUME NoCreation, Shape, TableInv, [Next]_vars
    PROVE  TableInv'
<1>1. ASSUME NEW h \in Hosts, CreateSession(h) PROVE TableInv'
  BY <1>1, CreateKeepsTable
<1>2. ASSUME NEW h \in Hosts, NEW n \in DOMAIN heap[h], ConnectSession(h, n) PROVE TableInv'
  <2> DEFINE e == Connect(heap[h][n])
  <2>1. Handled(h, n, e, <<>>) /\ stack[h] = <<>> /\ UNCHANGED <<tab, maxIndex>>
    BY <1>2, ConnectHandled
  <2> HIDE DEF e
  <2> QED
    BY <2>1, HandledKeepsTable
<1>3. ASSUME NEW h \in Hosts, NEW n \in DOMAIN heap[h], CloseSession(h, n) PROVE TableInv'
  <2> DEFINE e == Disconnect([heap[h][n] EXCEPT !.closed = TRUE], "FIN")
  <2>1. Handled(h, n, e, stack[h]) /\ UNCHANGED <<tab, maxIndex>>
    BY <1>3, CloseHandled
  <2> HIDE DEF e
  <2> QED
    BY <2>1, HandledKeepsTable
<1>4. ASSUME NEW h \in Hosts, NEW n \in DOMAIN heap[h], SilenceElapses(h, n) PROVE TableInv'
  <2>1. /\ Alike(heap[h][n], heap'[h][n]) /\ heap'[h][n].alive = heap[h][n].alive
        /\ OnlyChanged(h, n) /\ UNCHANGED <<tab, maxIndex, stack>>
    BY <1>4, SilenceHandled
  <2>2. ASSUME NEW g \in Hosts PROVE Entries(g)' /\ EveryoneListed(g)' /\ Reached(g)'
    <3>1. /\ DOMAIN heap'[g] = DOMAIN heap[g]
          /\ \A k \in DOMAIN heap[g] : /\ heap'[g][k].id = heap[g][k].id
                                       /\ heap'[g][k].alive = heap[g][k].alive
      BY <2>1 DEF OnlyChanged, Alike
    <3>2. \A i \in Slots(g) : tab[g][i] # 0 => tab[g][i] \in DOMAIN heap[g]
      BY DEF Shape, TabOK
    <3>3. Entries(g) /\ EveryoneListed(g) /\ Reached(g)
      BY DEF TableInv
    <3> QED
      BY <2>1, <3>1, <3>2, <3>3 DEF Entries, EveryoneListed, Listed, Reached
  <2> QED
    BY <2>2 DEF TableInv
<1>5. ASSUME NEW h \in Hosts, Return(h) PROVE TableInv'
  <2> DEFINE n == stack[h][1].obj
             e == Resume(heap[h][n], stack[h][1].c.then)
  <2>1. /\ Handled(h, n, e, Tail(stack[h])) /\ UNCHANGED <<tab, maxIndex>>
        /\ stack[h] \in Seq(AnyFrame) /\ stack[h] # <<>> /\ ~stack[h][1].sweep
    BY <1>5, ReturnHandled DEF Return
  <2>2. Sweeps(Tail(stack[h])) = Sweeps(stack[h])
    BY <2>1, SweepsOfTail
  <2> HIDE DEF e
  <2> QED
    BY <2>1, <2>2, HandledKeepsTable
<1>6. ASSUME NEW h \in Hosts, ChkUpdate(h) PROVE TableInv'
  <2> DEFINE f == Sweep(0, maxIndex[h], FALSE)
  <2>1. /\ stack[h] = <<>> /\ maxIndex'[h] = 0 /\ stack'[h] = <<f>>
        /\ \A g \in Hosts : g # h => stack'[g] = stack[g] /\ maxIndex'[g] = maxIndex[g]
        /\ UNCHANGED <<heap, tab>>
    BY <1>6, ChkUpdateHandled
  <2>2. f.sweep /\ f.i = 0 /\ f.max = maxIndex[h]
    BY DEF Sweep
  <2> HIDE DEF f
  <2>3. Sweeps(stack[h]) = {} /\ Sweeps(stack'[h]) = {f}
    BY <2>1, <2>2, SweepsOfOne
  <2>4. ASSUME NEW g \in Hosts PROVE Entries(g)' /\ EveryoneListed(g)' /\ Reached(g)'
    <3>1. Entries(g) /\ EveryoneListed(g) /\ Reached(g)
      BY DEF TableInv
    <3>2. Entries(g)' /\ EveryoneListed(g)'
      BY <2>1, <3>1, TableStays
    <3>3. CASE g # h
      BY <2>1, <3>1, <3>2, <3>3, ReachedStays
    <3>4. CASE g = h
      <4>1. \A i \in Slots(h) : i \in Nat
        BY DEF Slots
      <4> QED
        BY <2>1, <2>2, <2>3, <3>1, <3>2, <3>4, <4>1 DEF Reached
    <3> QED
      BY <3>3, <3>4
  <2> QED
    BY <2>4 DEF TableInv
<1>7. ASSUME NEW h \in Hosts, NEW late \in Lates, SweepStep(h, late) PROVE TableInv'
  BY <1>7, SweepStepKeepsTable
<1>8. ASSUME NEW h \in Hosts, Swept(h) PROVE TableInv'
  <2>1. /\ stack[h] # <<>> /\ stack[h][1].sweep /\ maxIndex'[h] = stack[h][1].i + 1
        /\ stack'[h] = SweepFrom(stack[h][1].i + 1, stack[h][1].max)
        /\ \A g \in Hosts : g # h => stack'[g] = stack[g] /\ maxIndex'[g] = maxIndex[g]
        /\ UNCHANGED <<heap, tab>>
    BY <1>8, SweptHandled
  <2>2. ASSUME NEW g \in Hosts PROVE Entries(g)' /\ EveryoneListed(g)' /\ Reached(g)'
    <3>1. Entries(g) /\ EveryoneListed(g) /\ Reached(g)
      BY DEF TableInv
    <3>2. Entries(g)' /\ EveryoneListed(g)'
      BY <2>1, <3>1, TableStays
    <3>3. CASE g # h
      BY <2>1, <3>1, <3>2, <3>3, ReachedStays
    <3>4. CASE g = h
      BY <2>1, <3>1, <3>2, <3>4, SweepGoesOn
    <3> QED
      BY <3>3, <3>4
  <2> QED
    BY <2>2 DEF TableInv
<1>9. ASSUME NEW m \in net, NEW dup \in BOOLEAN, ProcSynMsg(m.to, m, dup) PROVE TableInv'
  BY <1>9, SynKeepsTable
<1>10. ASSUME UNCHANGED <<heap, tab, maxIndex, stack>> PROVE TableInv'
  BY <1>10 DEF TableInv, Entries, EveryoneListed, Listed, Reached
<1>11. ASSUME NEW m \in net, NEW dup \in BOOLEAN, ProcSessionMsg(m.to, m, dup) PROVE TableInv'
  <2> DEFINE h == m.to
  <2>1. /\ UNCHANGED <<tab, maxIndex>>
        /\ \/ \E n \in DOMAIN heap[h] : Received(h, n, m)
           \/ UNCHANGED <<heap, stack>>
    BY <1>11, MessageHandled
  <2>2. ASSUME NEW n \in DOMAIN heap[h], Received(h, n, m) PROVE TableInv'
    <3> DEFINE e == ProcUdpMsg(heap[h][n], m)
    <3>1. Handled(h, n, e, <<>>) /\ stack[h] = <<>>
      BY <2>2 DEF Received
    <3> HIDE DEF e, h
    <3> QED
      BY <2>1, <3>1, HandledKeepsTable
  <2> QED
    BY <1>10, <2>1, <2>2
<1>12. ASSUME NEW m \in net, Lose(m) PROVE TableInv'
  BY <1>10, <1>12, LoseHandled
<1>13. ASSUME UNCHANGED vars PROVE TableInv'
  BY <1>10, <1>13 DEF vars
<1> QED
  BY <1>1, <1>2, <1>3, <1>4, <1>5, <1>6, <1>7, <1>8, <1>9, <1>11, <1>12, <1>13, Zenon DEF Next

LEMMA TableAlways ==
    ASSUME NoCreation
    PROVE  Spec => []TableInv
<1>1. Init => TableInv
  BY DEF Init, TableInv, Entries, EveryoneListed, Reached
<1>2. Shape /\ TableInv /\ [Next]_vars => TableInv'
  BY TableStep
<1> QED
  BY <1>1, <1>2, ShapeAlways, PTL DEF Spec

\* The table of every thread holds exactly the sessions that exist, each where
\* its id says and, when nobody is in the table, below m_nMaxIndex.
THEOREM TableIsSound ==
    ASSUME NoCreation
    PROVE  Spec => []TableSound
<1>1. TableInv => TableSound
  <2>1. Sweeps(<<>>) = {}
    BY SweepsOfOne
  <2> QED
    BY <2>1 DEF TableInv, Entries, EveryoneListed, Reached, TableSound
<1> QED
  BY <1>1, TableAlways, PTL

-----------------------------------------------------------------------------
(* Names.                                                                  *)

\* Who made an attempt to connect is settled for good.
LEMMA AttemptStays ==
    ASSUME Shape, [Next]_vars, NEW g \in Hosts, NEW rand, NEW id, Attempt(g, rand, id)
    PROVE  Attempt(g, rand, id)'
<1>1. rand[2] \in DOMAIN heap[g]
  BY DEF Attempt
<1>2. /\ rand[2] \in DOMAIN heap'[g]
      /\ heap'[g][rand[2]].id = heap[g][rand[2]].id
      /\ heap'[g][rand[2]].rand = heap[g][rand[2]].rand
  BY <1>1, SessionSteps DEF Moves
<1> QED
  BY <1>2 DEF Attempt

LEMMA NamedStays ==
    ASSUME Shape, NamesInv, [Next]_vars, NEW h \in Hosts, NEW n \in DOMAIN heap[h]
    PROVE  Named(h, n)'
<1> DEFINE s == heap[h][n]
           t == heap'[h][n]
<1>1. Moves(h, n, s, t) /\ Named(h, n)
  BY SessionSteps DEF NamesInv
<1>2. /\ s.rand[1] = h => s.rand[2] = n
      /\ s.rand[1] # h => Attempt(Other(h), s.rand, s.dest) /\ s.ups = 1
      /\ s.status = "CONNECTING" => s.rand[1] = h
  BY <1>1 DEF Named
<1>3. t.id = s.id /\ t.rand = s.rand
  BY <1>1 DEF Moves
<1>4. s.rand[1] # h => t.dest = s.dest /\ t.ups = s.ups
  BY <1>1, <1>2 DEF Moves, Same, Connects, Opens, IsEnded, GoesOn
<1>5. t.status = "CONNECTING" => s.rand[1] = h
  BY <1>1, <1>2 DEF Moves, Same, Connects, Opens, IsEnded, GoesOn
<1>6. PICK rand, dest : rand = s.rand /\ dest = s.dest
  OBVIOUS
<1>7. s.rand[1] # h => Attempt(Other(h), rand, dest)'
  <2>1. Other(h) \in Hosts
    BY OtherHost
  <2>2. s.rand[1] # h => Attempt(Other(h), rand, dest)
    BY <1>2, <1>6
  <2> QED
    BY <2>1, <2>2, AttemptStays
<1> QED
  BY <1>2, <1>3, <1>4, <1>5, <1>6, <1>7 DEF Named, Attempt

LEMMA NamesStep ==
    ASSUME Shape, NamesInv, [Next]_vars
    PROVE  NamesInv'
<1>1. NewFrames /\ NewDatagrams /\ NewObjects
  BY StepBrings DEF Brings
<1>2. \A m \in net : m.type = "syn" => Attempt(Other(m.to), m.rand, m.loc)
  BY DEF NamesInv, SynsNamed
<1>22. \A m \in net : m.to \in Hosts
  BY DEF Shape, NetOK, Datagrams, Syns, Syn2s, Rests
<1>3. ASSUME NEW h \in Hosts, NEW n \in DOMAIN heap'[h]
      PROVE  Named(h, n)'
  <2>1. CASE n \in DOMAIN heap[h]
    BY <2>1, NamedStays
  <2>2. CASE n \notin DOMAIN heap[h]
    <3> DEFINE t == heap'[h][n]
    <3>1. Made(h, n, t)
      BY <1>1, <1>3, <2>2 DEF NewObjects
    <3>2. t.status = "NONE" /\ n \in Nat
      BY <3>1 DEF Made
    <3>3. CASE t.rand = <<h, n>>
      BY <3>2, <3>3 DEF Named
    <3>4. ASSUME t.ups = 1, NEW m \in net, m.type = "syn", m.to = h, t.rand = m.rand, t.dest = m.loc
          PROVE  Named(h, n)'
      <4>1. Attempt(Other(h), m.rand, m.loc) /\ Other(h) \in Hosts /\ Other(h) # h
        BY <1>2, <3>4, OtherHost
      <4>2. Attempt(Other(h), m.rand, m.loc)' /\ m.rand[1] = Other(h)
        BY <4>1, AttemptStays DEF Attempt
      <4> QED
        BY <3>2, <3>4, <4>1, <4>2 DEF Named, Attempt
    <3> QED
      BY <3>1, <3>3, <3>4 DEF Made
  <2> QED
    BY <2>1, <2>2
<1>4. ASSUME NEW x \in net', x.type = "syn"
      PROVE  Attempt(Other(x.to), x.rand, x.loc)'
  <2>1. CASE x \in net
    <3>1. Attempt(Other(x.to), x.rand, x.loc) /\ Other(x.to) \in Hosts
      BY <1>2, <1>22, <1>4, <2>1, OtherHost
    <3>2. Attempt(Other(x.to), x.rand, x.loc)'
      BY <3>1, AttemptStays
    <3> QED
      BY <3>2
  <2>2. CASE x \notin net
    <3>0. PICK g \in Hosts : \E n \in DOMAIN heap'[g] : \E t \in Types :
              /\ heap'[g][n] \in Sessions
              /\ x = Datagram(g, heap'[g][n], t) /\ Sends(g, heap'[g][n], t)
      BY <1>1, <2>2 DEF NewDatagrams, Sent
    <3>1. PICK n \in DOMAIN heap'[g], t \in Types :
              /\ heap'[g][n] \in Sessions
              /\ x = Datagram(g, heap'[g][n], t) /\ Sends(g, heap'[g][n], t)
      BY <3>0
    <3> DEFINE s == heap'[g][n]
    <3>2. t = "syn" /\ Other(x.to) = g /\ x.rand = s.rand /\ x.loc = s.id
      <4>1. /\ x.type = t /\ x.to = Other(g)
            /\ t = "syn" => x.rand = s.rand /\ x.loc = s.id
        BY <3>1, DatagramFacts
      <4>2. Other(Other(g)) = g
        BY OtherHost
      <4> QED
        BY <1>4, <4>1, <4>2
    <3>3. s.rand[1] = g
      <4>1. s.rand[1] = g \/ s.status = "CONNECTING"
        BY <3>1, <3>2 DEF Sends
      <4>2. Named(g, n)'
        BY <1>3
      <4> QED
        BY <4>1, <4>2 DEF Named
    <3>4. s.rand[2] = n
      BY <1>3, <3>3 DEF Named
    <3> QED
      BY <3>2, <3>3, <3>4 DEF Attempt
  <2> QED
    BY <2>1, <2>2
<1>5. ASSUME NEW h \in Hosts, NEW k \in DOMAIN stack'[h], stack'[h][k].c.call = "on_accept"
      PROVE  heap'[h][stack'[h][k].obj].rand[1] # h
  <2> DEFINE f == stack'[h][k]
  <2>1. f.c # NoCall /\ ~(f.sweep /\ f.c = NoCall)
    BY <1>5 DEF NoCall
  <2>2. ASSUME NEW j \in DOMAIN stack[h], stack[h][j] = f
        PROVE  heap'[h][f.obj].rand[1] # h
    <3>1. f.obj \in DOMAIN heap[h]
      BY <2>1, <2>2 DEF Shape, StackOK, FramesOK, FrameOK
    <3>2. heap[h][f.obj].rand[1] # h
      BY <1>5, <2>2 DEF NamesInv, AcceptsNamed
    <3> HIDE DEF f
    <3> QED
      BY <3>1, <3>2, SessionSteps DEF Moves
  <2>3. ASSUME Called(h, f)
        PROVE  heap'[h][f.obj].rand[1] # h
    <3>1. f.c.call = "on_accept"
      BY <1>5
    <3> HIDE DEF f
    <3>2. PICK m \in net : m.type = "syn" /\ m.to = h /\ heap'[h][f.obj].rand = m.rand
      BY <2>3, <3>1 DEF Called, Call
    <3>3. m.rand[1] = Other(h) /\ Other(h) # h
      BY <1>2, <3>2, OtherHost DEF Attempt
    <3> QED
      BY <3>2, <3>3
  <2> HIDE DEF f
  <2>4. \/ \E j \in DOMAIN stack[h] : stack[h][j] = f
        \/ Called(h, f)
    BY <1>1, <2>1 DEF NewFrames, f
  <2> QED
    BY <2>2, <2>3, <2>4 DEF f
<1>6. SynsNamed' /\ AcceptsNamed'
  BY <1>4, <1>5 DEF SynsNamed, AcceptsNamed
<1> QED
  BY <1>3, <1>6 DEF NamesInv

LEMMA NamesAlways == Spec => []NamesInv
<1>1. Init => NamesInv
  BY DEF Init, NamesInv, SynsNamed, AcceptsNamed
<1>2. Shape /\ NamesInv /\ [Next]_vars => NamesInv'
  BY NamesStep
<1> QED
  BY <1>1, <1>2, ShapeAlways, PTL DEF Spec

-----------------------------------------------------------------------------
(* Twins.                                                                  *)

\* A session that a step adds has no living twin.
LEMMA NoTwinIsMade ==
    ASSUME Shape, TableInv, NamesInv, NEW h \in Hosts, NEW k \in DOMAIN heap[h], heap[h][k].alive,
           NEW n, NEW t, Made(h, n, t), n \notin DOMAIN heap[h]
    PROVE  heap[h][k].rand # t.rand
<1> DEFINE s == heap[h][k]
<1>1. /\ s.rand[1] = h => s.rand[2] = k
      /\ s.rand[1] # h => Attempt(Other(h), s.rand, s.dest)
  BY DEF NamesInv, Named
<1>2. CASE t.rand = <<h, n>>
  BY <1>1, <1>2
<1>3. ASSUME stack[h] = <<>>, NEW m \in net, m.type = "syn", m.to = h, t.rand = m.rand,
             ChkSynSession(h, m) = {}, s.rand = t.rand
      PROVE  FALSE
  <2>1. Attempt(Other(h), m.rand, m.loc) /\ Other(h) # h
    BY <1>3, OtherHost DEF NamesInv, SynsNamed
  <2>2. s.rand[1] # h
    BY <1>3, <2>1 DEF Attempt
  <2>3. s.dest = m.loc
    BY <1>1, <1>3, <2>1, <2>2 DEF Attempt
  <2>4. PICK i \in Slots(h) : tab[h][i] = k
    BY DEF TableInv, EveryoneListed, Listed
  <2>5. k # 0 /\ i \in Nat /\ maxIndex[h] \in Nat
    BY DEF Shape, HeapOK, TabOK, Slots
  <2>6. Sweeps(stack[h]) = {}
    BY <1>3, SweepsOfOne
  <2>7. i < maxIndex[h]
    BY <2>4, <2>5, <2>6 DEF TableInv, Reached
  <2>8. i \in ChkSynSession(h, m)
    BY <1>3, <2>3, <2>4, <2>5, <2>7 DEF ChkSynSession
  <2> QED
    BY <1>3, <2>8
<1> QED
  BY <1>2, <1>3 DEF Made

LEMMA NoTwinsStep ==
    ASSUME Shape, TableInv, NamesInv, NoTwins, [Next]_vars
    PROVE  NoTwins'
<1>1. NewObjects
  BY StepBrings DEF Brings
<1>2. SUFFICES ASSUME NEW h \in Hosts, NEW k \in DOMAIN heap'[h], NEW n \in DOMAIN heap'[h],
                      heap'[h][k].alive, heap'[h][n].alive, heap'[h][k].rand = heap'[h][n].rand
               PROVE  k = n
  BY DEF NoTwins
<1>3. \A j \in DOMAIN heap[h] :
          (heap'[h][j].alive => heap[h][j].alive) /\ heap'[h][j].rand = heap[h][j].rand
  BY SessionSteps DEF Moves
<1>4. \A j \in DOMAIN heap'[h] : j \in DOMAIN heap[h] \/ Made(h, j, heap'[h][j])
  BY <1>1 DEF NewObjects
<1>5. CASE k \in DOMAIN heap[h] /\ n \in DOMAIN heap[h]
  BY <1>2, <1>3, <1>5 DEF NoTwins
<1>6. CASE k \in DOMAIN heap[h] /\ n \notin DOMAIN heap[h]
  BY <1>2, <1>3, <1>4, <1>6, NoTwinIsMade
<1>7. CASE k \notin DOMAIN heap[h] /\ n \in DOMAIN heap[h]
  BY <1>2, <1>3, <1>4, <1>7, NoTwinIsMade
<1>8. CASE k \notin DOMAIN heap[h] /\ n \notin DOMAIN heap[h]
  BY <1>4, <1>8 DEF Made
<1> QED
  BY <1>5, <1>6, <1>7, <1>8

\* However often a SYN is repeated, one attempt to connect has one session at
\* the accepting host: chkSynSession finds it below m_nMaxIndex.
THEOREM OneSessionPerAttempt ==
    ASSUME NoCreation
    PROVE  Spec => []NoTwins
<1>1. Init => NoTwins
  BY DEF Init, NoTwins
<1>2. Shape /\ TableInv /\ NamesInv /\ NoTwins /\ [Next]_vars => NoTwins'
  BY NoTwinsStep
<1> QED
  BY <1>1, <1>2, ShapeAlways, TableAlways, NamesAlways, PTL DEF Spec

-----------------------------------------------------------------------------
(* Ids that are in use.                                                    *)

\* What was in use stays in use.
LEMMA UsedStays ==
    ASSUME NEW h, NEW n, NEW s, NEW t, Moves(h, n, s, t), Used(h, s)
    PROVE  Used(h, t)
  BY DEF Moves, Same, Connects, Opens, IsEnded, GoesOn, Used

LEMMA KnownStays ==
    ASSUME Shape, [Next]_vars, NEW h \in Hosts, NEW id, Known(h, id)
    PROVE  Known(h, id)'
<1>1. CASE id = NoId
  BY <1>1 DEF Known
<1>2. ASSUME NEW k \in DOMAIN heap[h], heap[h][k].id = id, Used(h, heap[h][k])
      PROVE  Known(h, id)'
  <2>1. k \in DOMAIN heap'[h] /\ Moves(h, k, heap[h][k], heap'[h][k])
    BY SessionSteps
  <2>2. Used(h, heap'[h][k])
    BY <1>2, <2>1, UsedStays
  <2>3. heap'[h][k].id = id
    BY <1>2, <2>1 DEF Moves
  <2> QED
    BY <2>1, <2>2, <2>3 DEF Known, Used
<1> QED
  BY <1>1, <1>2 DEF Known

\* Ids that differ have always differed.
LEMMA IdsDiffered ==
    ASSUME Shape, [Next]_vars, IdsDiffer'
    PROVE  IdsDiffer
<1> SUFFICES ASSUME NEW h \in Hosts, NEW j \in DOMAIN heap[h], NEW k \in DOMAIN heap[h]
             PROVE  heap[h][j].id # NoId /\ (heap[h][k].id = heap[h][j].id => k = j)
  BY DEF IdsDiffer, OwnId
<1>1. j \in DOMAIN heap'[h] /\ k \in DOMAIN heap'[h]
  BY SessionSteps
<1>2. heap'[h][j].id = heap[h][j].id /\ heap'[h][k].id = heap[h][k].id
  BY SessionSteps DEF Moves
<1> QED
  BY <1>1, <1>2 DEF IdsDiffer, OwnId

LEMMA KnownIsUsed ==
    ASSUME IdsDiffer, NEW h \in Hosts, NEW n \in DOMAIN heap[h], Known(h, heap[h][n].id)
    PROVE  Used(h, heap[h][n])
  BY DEF Known, IdsDiffer, OwnId

\* A session that a FIN or SYN2 reaches is in use.
LEMMA ReachedIsUsed ==
    ASSUME IdsDiffer, Shape, NamesInv, KnownInv, NEW h \in Hosts, NEW n \in DOMAIN heap[h],
           NEW m \in net, m.type # "syn", m.to = h, m.dest = heap[h][n].id
    PROVE  Used(h, heap[h][n])
<1>1. Known(h, heap[h][n].id)
  BY DEF KnownInv, KnownDatagram
<1> QED
  BY <1>1, KnownIsUsed

LEMMA KnownEndStays ==
    ASSUME IdsDiffer, Shape, NamesInv, KnownInv, [Next]_vars, NEW h \in Hosts, NEW n \in DOMAIN heap[h]
    PROVE  KnownEnd(h, n)'
<1> DEFINE s == heap[h][n]
           t == heap'[h][n]
<1>1. Moves(h, n, s, t) /\ KnownEnd(h, n) /\ Named(h, n)
  BY SessionSteps DEF KnownInv, NamesInv
<1>2. /\ Known(Other(h), s.dest) /\ Other(h) \in Hosts
      /\ s.rand[1] = h /\ ~s.asked => s.status \in {"NONE", "CLOSE"} /\ s.dest = NoId
      /\ s.status = "CONNECTING" => s.asked /\ s.dest = NoId /\ s.rand[1] = h
      /\ s.rand[1] = h /\ s.dest # NoId => s.ups > 0
  BY <1>1, OtherHost DEF KnownEnd, Named
<1>3. t.rand = s.rand /\ s \in Sessions /\ t \in Sessions /\ s.ups \in Nat
  BY <1>1 DEF Moves, Sessions
<1>4. PICK dest : dest = t.dest
  OBVIOUS
<1>5. ASSUME NEW m \in net, m.type # "syn", m.to = h, m.dest = s.id
      PROVE  Used(h, s)
  BY <1>5, ReachedIsUsed
<1>6. stack[h] # <<>> /\ 1 \in DOMAIN stack[h] /\ ~stack[h][1].sweep /\ stack[h][1].obj = n
         => s.asked \/ s.rand[1] # h
  BY DEF KnownInv, KnownFrame
<1>7. CASE t.status = s.status /\ Same(s, t)
  <2>1. Known(Other(h), dest)
    BY <1>2, <1>4, <1>7 DEF Same
  <2>2. Known(Other(h), dest)'
    BY <1>2, <2>1, KnownStays
  <2> QED
    BY <1>2, <1>3, <1>4, <1>7, <2>2 DEF Same, KnownEnd, Known, Used
<1>8. CASE Connects(h, s, t)
  <2>1. Known(Other(h), dest)
    BY <1>2, <1>4, <1>8 DEF Connects
  <2>2. Known(Other(h), dest)'
    BY <1>2, <2>1, KnownStays
  <2> QED
    BY <1>2, <1>3, <1>4, <1>8, <2>2 DEF Connects, KnownEnd, Known, Used
<1>9. CASE Opens(h, s, t)
  <2>1. Known(Other(h), dest)
    BY <1>4, <1>9 DEF Opens, KnownInv, KnownDatagram
  <2>2. Known(Other(h), dest)'
    BY <1>2, <2>1, KnownStays
  <2>3. t.ups > 0 /\ t.asked /\ t.status = "NORMAL"
    BY <1>2, <1>3, <1>9 DEF Opens
  <2> QED
    BY <1>4, <2>2, <2>3 DEF KnownEnd, Known, Used
<1>10. CASE IsEnded(h, s, t)
  <2>1. Known(Other(h), dest)
    BY <1>2, <1>4, <1>10 DEF Same, IsEnded
  <2>2. Known(Other(h), dest)'
    BY <1>2, <2>1, KnownStays
  <2>3. s.asked \/ s.rand[1] # h
    BY <1>5, <1>10 DEF IsEnded, Used
  <2> QED
    BY <1>2, <1>3, <1>4, <1>10, <2>2, <2>3 DEF Same, IsEnded, KnownEnd, Known, Used
<1>11. CASE GoesOn(h, n, s, t)
  <2>1. Known(Other(h), dest)
    BY <1>2, <1>4, <1>11 DEF Same, GoesOn
  <2>2. Known(Other(h), dest)'
    BY <1>2, <2>1, KnownStays
  <2>3. (s.asked \/ s.rand[1] # h) /\ t.status # "CONNECTING" /\ Same(s, t)
    BY <1>6, <1>11 DEF GoesOn
  <2> QED
    BY <1>2, <1>3, <1>4, <2>2, <2>3 DEF Same, KnownEnd, Known, Used
<1>12. CASE t.status = "CLOSE" /\ Same(s, t)
  <2>1. Known(Other(h), dest)
    BY <1>2, <1>4, <1>12 DEF Same
  <2>2. Known(Other(h), dest)'
    BY <1>2, <2>1, KnownStays
  <2> QED
    BY <1>2, <1>3, <1>4, <1>12, <2>2 DEF Same, KnownEnd, Known, Used
<1> QED
  BY <1>1, <1>7, <1>8, <1>9, <1>10, <1>11, <1>12 DEF Moves

\* An accepted session has its end's id from the SYN, a created one none.
LEMMA MadeIsKnown ==
    ASSUME Shape, NamesInv, KnownInv, [Next]_vars, NEW h \in Hosts, NEW n \in DOMAIN heap'[h],
           Made(h, n, heap'[h][n])
    PROVE  KnownEnd(h, n)'
<1> DEFINE t == heap'[h][n]
<1>1. t.status = "NONE" /\ ~t.asked
  BY DEF Made
<1>2. CASE t.rand = <<h, n>> /\ t.dest = NoId
  BY <1>1, <1>2 DEF KnownEnd, Known
<1>3. ASSUME NEW m \in net, m.type = "syn", m.to = h, t.rand = m.rand, t.dest = m.loc
      PROVE  KnownEnd(h, n)'
  <2>1. m.rand[1] = Other(h) /\ Other(h) # h /\ Other(h) \in Hosts
    BY <1>3, OtherHost DEF NamesInv, SynsNamed, Attempt
  <2>2. PICK id : id = m.loc
    OBVIOUS
  <2>3. Known(Other(h), id)
    BY <1>3, <2>2 DEF KnownInv, KnownDatagram
  <2>4. Known(Other(h), id)'
    BY <2>1, <2>3, KnownStays
  <2> QED
    BY <1>1, <1>3, <2>1, <2>2, <2>4 DEF KnownEnd, Known, Used
<1> QED
  BY <1>2, <1>3 DEF Made

LEMMA KnownDatagramsStep ==
    ASSUME Shape, KnownInv, NamesInv, NamesInv', [Next]_vars,
           \A h \in Hosts : \A n \in DOMAIN heap'[h] : KnownEnd(h, n)',
           NEW x \in net'
    PROVE  KnownDatagram(x)'
<1>1. CASE x \in net
  <2>1. /\ x.to \in Hosts /\ Other(x.to) \in Hosts
    BY <1>1, OtherHost DEF Shape, NetOK, Datagrams, Syns, Syn2s, Rests
  <2>2. KnownDatagram(x)
    BY <1>1 DEF KnownInv
  <2>3. x.type = "syn" => Known(Other(x.to), x.loc)'
    BY <2>1, <2>2, KnownStays DEF KnownDatagram
  <2>4. x.type # "syn" => Known(x.to, x.dest)'
    BY <2>1, <2>2, KnownStays DEF KnownDatagram
  <2>5. x.type = "syn2" => Known(Other(x.to), x.loc)'
    BY <2>1, <2>2, KnownStays DEF KnownDatagram
  <2> QED
    BY <2>3, <2>4, <2>5 DEF KnownDatagram
<1>2. CASE x \notin net
  <2>0. PICK g \in Hosts : \E n \in DOMAIN heap'[g] : \E t \in Types :
            /\ heap'[g][n] \in Sessions
            /\ x = Datagram(g, heap'[g][n], t) /\ Sends(g, heap'[g][n], t)
    BY <1>2, StepBrings DEF Brings, NewDatagrams, Sent
  <2>1. PICK n \in DOMAIN heap'[g], t \in Types :
            /\ heap'[g][n] \in Sessions
            /\ x = Datagram(g, heap'[g][n], t) /\ Sends(g, heap'[g][n], t)
    BY <2>0
  <2> DEFINE s == heap'[g][n]
  <2>2. /\ x.type = t /\ x.to = Other(g) /\ Other(x.to) = g
        /\ t = "syn" => x.loc = s.id
        /\ t = "syn2" => x.loc = s.id
        /\ t # "syn" => x.dest = s.dest
    <3>1. Other(Other(g)) = g
      BY OtherHost
    <3> QED
      BY <2>1, <3>1, DatagramFacts
  <2>3. KnownEnd(g, n)'
    OBVIOUS
  <2>4. t = "syn" => Used(g, s)
    BY <2>1, <2>3 DEF Sends, Used, KnownEnd
  <2>5. t = "syn2" => Used(g, s)
    <3>1. ASSUME NEW m \in net, m.type = "syn", m.to = g, s.rand = m.rand PROVE Used(g, s)
      <4>1. m.rand[1] = Other(g) /\ Other(g) # g
        BY <3>1, OtherHost DEF NamesInv, SynsNamed, Attempt
      <4> QED
        BY <3>1, <4>1 DEF Used
    <3> QED
      BY <2>1, <3>1 DEF Sends
  <2>6. t \in {"syn", "syn2"} => Known(Other(x.to), x.loc)'
    BY <2>2, <2>4, <2>5 DEF Known, Used
  <2>7. t # "syn" => Known(x.to, x.dest)'
    BY <2>2, <2>3 DEF KnownEnd, Known, Used
  <2> QED
    BY <2>2, <2>6, <2>7 DEF KnownDatagram
<1> QED
  BY <1>1, <1>2

LEMMA KnownFramesStep ==
    ASSUME Shape, KnownInv, NamesInv, [Next]_vars, NEW h \in Hosts, NEW k \in DOMAIN stack'[h],
           NEW f, f = stack'[h][k]
    PROVE  KnownFrame(h, f)'
<1>1. SUFFICES ASSUME ~f.sweep PROVE heap'[h][f.obj].asked \/ heap'[h][f.obj].rand[1] # h
  BY DEF KnownFrame
<1>2. ASSUME NEW n \in DOMAIN heap[h], heap[h][n].asked \/ heap[h][n].rand[1] # h
      PROVE  heap'[h][n].asked \/ heap'[h][n].rand[1] # h
  <2>1. Moves(h, n, heap[h][n], heap'[h][n])
    BY SessionSteps
  <2> QED
    BY <1>2, <2>1 DEF Moves, Same, Connects, Opens, IsEnded, GoesOn
<1>3. ASSUME NEW j \in DOMAIN stack[h], ~stack[h][j].sweep, stack[h][j].obj = f.obj
      PROVE  heap'[h][f.obj].asked \/ heap'[h][f.obj].rand[1] # h
  <2>1. f.obj \in DOMAIN heap[h]
    BY <1>3 DEF Shape, StackOK, FramesOK, FrameOK
  <2>2. heap[h][f.obj].asked \/ heap[h][f.obj].rand[1] # h
    BY <1>3 DEF KnownInv, KnownFrame
  <2> QED
    BY <1>2, <2>1, <2>2
<1>4. ASSUME Called(h, f)
      PROVE  heap'[h][f.obj].asked \/ heap'[h][f.obj].rand[1] # h
  <2>1. ASSUME NEW m \in net, m.type = "syn", m.to = h, heap'[h][f.obj].rand = m.rand
        PROVE  heap'[h][f.obj].rand[1] # h
    <3>1. m.rand[1] = Other(h) /\ Other(h) # h
      BY <2>1, OtherHost DEF NamesInv, SynsNamed, Attempt
    <3> QED
      BY <2>1, <3>1
  <2>2. ASSUME f.obj \in DOMAIN heap[h], heap[h][f.obj].status \in {"CONNECTING", "NORMAL"}
        PROVE  heap'[h][f.obj].asked \/ heap'[h][f.obj].rand[1] # h
    <3>1. KnownEnd(h, f.obj)
      BY <2>2 DEF KnownInv
    <3>2. heap[h][f.obj].asked \/ heap[h][f.obj].rand[1] # h
      BY <2>2, <3>1 DEF KnownEnd
    <3> QED
      BY <1>2, <2>2, <3>2
  <2> QED
    BY <1>3, <1>4, <2>1, <2>2 DEF Called
<1>5. \/ \E j \in DOMAIN stack[h] : stack[h][j] = f
      \/ Called(h, f)
  BY <1>1, StepBrings DEF Brings, NewFrames
<1> QED
  BY <1>1, <1>3, <1>4, <1>5

LEMMA KnownStep ==
    ASSUME IdsDiffer, Shape, NamesInv, KnownInv, [Next]_vars
    PROVE  KnownInv'
<1>1. NamesInv'
  BY NamesStep
<1>2. ASSUME NEW h \in Hosts, NEW n \in DOMAIN heap'[h] PROVE KnownEnd(h, n)'
  <2>1. n \in DOMAIN heap[h] \/ Made(h, n, heap'[h][n])
    BY StepBrings DEF Brings, NewObjects
  <2> QED
    BY <2>1, KnownEndStays, MadeIsKnown
<1>3. ASSUME NEW x \in net' PROVE KnownDatagram(x)'
  BY <1>1, <1>2, KnownDatagramsStep
<1>4. ASSUME NEW h \in Hosts, NEW k \in DOMAIN stack'[h], NEW f, f = stack'[h][k]
      PROVE  KnownFrame(h, f)'
  BY <1>4, KnownFramesStep
<1>5. \A h \in Hosts : \A k \in DOMAIN stack'[h] :
          ~stack'[h][k].sweep => \/ heap'[h][stack'[h][k].obj].asked
                                 \/ heap'[h][stack'[h][k].obj].rand[1] # h
  BY <1>4 DEF KnownFrame
<1> QED
  BY <1>2, <1>3, <1>5 DEF KnownInv, KnownFrame

LEMMA KnownAlways == Spec => [](IdsDiffer => KnownInv)
<1>1. Init => KnownInv
  BY DEF Init, KnownInv
<1>2. Shape /\ NamesInv /\ (IdsDiffer => KnownInv) /\ [Next]_vars => (IdsDiffer => KnownInv)'
  BY KnownStep, IdsDiffered
<1> QED
  BY <1>1, <1>2, ShapeAlways, NamesAlways, PTL DEF Spec

-----------------------------------------------------------------------------
(* Sessions that were accepted.                                            *)

\* An accepted session never connects: its other end is settled.
LEMMA AcceptedStays ==
    ASSUME Shape, NamesInv, [Next]_vars, NEW h \in Hosts, NEW n \in DOMAIN heap[h],
           heap[h][n].rand[1] # h
    PROVE  /\ n \in DOMAIN heap'[h]
           /\ heap'[h][n].id = heap[h][n].id /\ heap'[h][n].rand = heap[h][n].rand
           /\ heap'[h][n].dest = heap[h][n].dest
<1>1. n \in DOMAIN heap'[h] /\ Moves(h, n, heap[h][n], heap'[h][n]) /\ Named(h, n)
  BY SessionSteps DEF NamesInv
<1> QED
  BY <1>1 DEF Moves, Same, Connects, Opens, IsEnded, GoesOn, Named

LEMMA UpIsAcceptedStays ==
    ASSUME Shape, NamesInv, AcceptInv, [Next]_vars, NEW h \in Hosts, NEW n \in DOMAIN heap[h]
    PROVE  UpIsAccepted(h, n)'
<1> DEFINE s == heap[h][n]
           t == heap'[h][n]
           o == Other(h)
<1>1. Moves(h, n, s, t) /\ UpIsAccepted(h, n) /\ o \in Hosts /\ o # h /\ Other(o) = h
  BY SessionSteps, OtherHost DEF AcceptInv
<1>2. t.rand = s.rand /\ t.id = s.id
  BY <1>1 DEF Moves
<1>3. ASSUME s.rand[1] = h, NEW k \in DOMAIN heap[o],
             heap[o][k].id = t.dest, heap[o][k].dest = s.id, heap[o][k].rand[1] = h
      PROVE  UpIsAccepted(h, n)'
  <2>1. /\ k \in DOMAIN heap'[o]
        /\ heap'[o][k].id = t.dest /\ heap'[o][k].dest = s.id /\ heap'[o][k].rand[1] = h
    BY <1>1, <1>3, AcceptedStays
  <2> QED
    BY <1>2, <2>1 DEF UpIsAccepted
<1>4. CASE t.dest = s.dest /\ t.ups = s.ups
  <2> SUFFICES ASSUME t.rand[1] = h, t.ups > 0 PROVE UpIsAccepted(h, n)'
    BY DEF UpIsAccepted
  <2>1. PICK k \in DOMAIN heap[o] :
            heap[o][k].id = s.dest /\ heap[o][k].dest = s.id /\ heap[o][k].rand[1] = h
    BY <1>1, <1>2, <1>4 DEF UpIsAccepted
  <2> QED
    BY <1>2, <1>3, <1>4, <2>1
<1>5. CASE Opens(h, s, t)
  <2>1. PICK m \in net : m.type = "syn2" /\ m.to = h /\ m.dest = s.id /\ t.dest = m.loc
    BY <1>5 DEF Opens
  <2>2. PICK k \in DOMAIN heap[o] : heap[o][k].id = m.loc /\ heap[o][k].dest = m.dest /\ heap[o][k].rand[1] = h
    BY <2>1 DEF AcceptInv, Syn2Accepted
  <2> SUFFICES ASSUME t.rand[1] = h PROVE UpIsAccepted(h, n)'
    BY DEF UpIsAccepted
  <2> QED
    BY <1>2, <1>3, <2>1, <2>2
<1> QED
  BY <1>1, <1>4, <1>5 DEF Moves, Same, Connects, IsEnded, GoesOn

LEMMA AcceptStep ==
    ASSUME Shape, NamesInv, AcceptInv, [Next]_vars
    PROVE  AcceptInv'
<1>1. ASSUME NEW h \in Hosts, NEW n \in DOMAIN heap'[h] PROVE UpIsAccepted(h, n)'
  <2>1. CASE n \in DOMAIN heap[h]
    BY <2>1, UpIsAcceptedStays
  <2>2. CASE n \notin DOMAIN heap[h]
    <3>1. Made(h, n, heap'[h][n])
      BY <2>2, StepBrings DEF Brings, NewObjects
    <3>2. ASSUME NEW m \in net, m.type = "syn", m.to = h, heap'[h][n].rand = m.rand
          PROVE  heap'[h][n].rand[1] # h
      BY <3>2, OtherHost DEF NamesInv, SynsNamed, Attempt
    <3> QED
      BY <3>1, <3>2, SMTT(30) DEF Made, UpIsAccepted
  <2> QED
    BY <2>1, <2>2
<1>2. ASSUME NEW x \in net' PROVE Syn2Accepted(x)'
  <2>1. CASE x \in net
    <3>1. x.to \in Hosts
      BY <2>1 DEF Shape, NetOK, Datagrams, Syns, Syn2s, Rests
    <3>2. Other(x.to) \in Hosts /\ Other(x.to) # x.to
      BY <3>1, OtherHost
    <3>3. Syn2Accepted(x)
      BY <2>1 DEF AcceptInv
    <3> QED
      BY <3>2, <3>3, AcceptedStays DEF Syn2Accepted
  <2>2. CASE x \notin net
    <3>0. PICK g \in Hosts : \E n \in DOMAIN heap'[g] : \E t \in Types :
              /\ heap'[g][n] \in Sessions
              /\ x = Datagram(g, heap'[g][n], t) /\ Sends(g, heap'[g][n], t)
      BY <2>2, StepBrings DEF Brings, NewDatagrams, Sent
    <3>1. PICK n \in DOMAIN heap'[g], t \in Types :
              /\ heap'[g][n] \in Sessions
              /\ x = Datagram(g, heap'[g][n], t) /\ Sends(g, heap'[g][n], t)
      BY <3>0
    <3> DEFINE s == heap'[g][n]
    <3>2. /\ x.type = t /\ x.to = Other(g) /\ Other(x.to) = g
          /\ t = "syn2" => x.loc = s.id /\ x.dest = s.dest
      <4>1. Other(Other(g)) = g
        BY OtherHost
      <4> QED
        BY <3>1, <4>1, DatagramFacts
    <3>3. ASSUME NEW m \in net, m.type = "syn", m.to = g, s.rand = m.rand
          PROVE  s.rand[1] = Other(g)
      BY <3>3 DEF NamesInv, SynsNamed, Attempt
    <3>4. t = "syn2" => s.rand[1] = x.to
      BY <3>1, <3>2, <3>3 DEF Sends
    <3> QED
      BY <3>2, <3>4 DEF Syn2Accepted
  <2> QED
    BY <2>1, <2>2
<1> QED
  BY <1>1, <1>2 DEF AcceptInv

LEMMA AcceptAlways == Spec => []AcceptInv
<1>1. Init => AcceptInv
  BY DEF Init, AcceptInv
<1>2. Shape /\ NamesInv /\ AcceptInv /\ [Next]_vars => AcceptInv'
  BY AcceptStep
<1> QED
  BY <1>1, <1>2, ShapeAlways, NamesAlways, PTL DEF Spec

\* The session that an accepted one is for is the only one with its id, or has it
\* from an earlier one.
LEMMA AttemptOfOwn ==
    ASSUME NamesInv, NEW h \in Hosts, NEW n \in DOMAIN heap[h], OwnId(h, n),
           NEW k \in DOMAIN heap[Other(h)],
           heap[Other(h)][k].dest = heap[h][n].id, heap[Other(h)][k].rand[1] = h
    PROVE  heap[Other(h)][k].rand = heap[h][n].rand
<1>1. Other(h) \in Hosts /\ Other(h) # h /\ Other(Other(h)) = h
  BY OtherHost
<1>2. Attempt(h, heap[Other(h)][k].rand, heap[Other(h)][k].dest)
  BY <1>1 DEF NamesInv, Named
<1> QED
  BY <1>2 DEF Attempt, OwnId

\* Who is told that its connection is up sends to a session that was accepted, that
\* sends to it, and whose application was told so as well: one made for this very
\* attempt, unless an earlier session of its host had the same id.
THEOREM UpOnBothSides == Spec => []ConnectedIsAccepted
<1>1. NamesInv /\ AcceptInv => ConnectedIsAccepted
  <2> SUFFICES ASSUME NamesInv, AcceptInv, NEW h \in Hosts, NEW n \in DOMAIN heap[h],
                      heap[h][n].rand[1] = h, heap[h][n].ups > 0
               PROVE  \E k \in DOMAIN heap[Other(h)] :
                         /\ heap[Other(h)][k].id = heap[h][n].dest
                         /\ heap[Other(h)][k].dest = heap[h][n].id
                         /\ heap[Other(h)][k].ups = 1
                         /\ OwnId(h, n) => heap[Other(h)][k].rand = heap[h][n].rand
    BY DEF ConnectedIsAccepted
  <2>1. PICK k \in DOMAIN heap[Other(h)] :
            /\ heap[Other(h)][k].id = heap[h][n].dest
            /\ heap[Other(h)][k].dest = heap[h][n].id
            /\ heap[Other(h)][k].rand[1] = h
    BY DEF AcceptInv, UpIsAccepted
  <2>2. Other(h) \in Hosts /\ Other(h) # h
    BY OtherHost
  <2>3. heap[Other(h)][k].ups = 1
    BY <2>1, <2>2 DEF NamesInv, Named
  <2>4. OwnId(h, n) => heap[Other(h)][k].rand = heap[h][n].rand
    BY <2>1, AttemptOfOwn
  <2> QED
    BY <2>1, <2>3, <2>4
<1> QED
  BY <1>1, AcceptAlways, NamesAlways, PTL

-----------------------------------------------------------------------------
(* Sessions that the other side has ended.                                 *)

LEMMA SettledStays ==
    ASSUME NEW h, NEW n, NEW s, NEW t, Moves(h, n, s, t)
    PROVE  /\ t.id = s.id /\ t.rand = s.rand
           /\ s.downs > 0 => t.downs > 0
           /\ s.status # "CONNECTING" => t.dest = s.dest /\ t.ups = s.ups
           /\ s.status # "CONNECTING" /\ (s.asked \/ s.rand[1] # h) => t.status # "CONNECTING"
<1>1. s.downs \in Nat /\ t.downs \in Nat
  BY DEF Moves, Sessions
<1> QED
  BY <1>1 DEF Moves, Same, Connects, Opens, IsEnded, GoesOn

LEMMA ReasonStays ==
    ASSUME Shape, [Next]_vars, NEW h \in Hosts, NEW n \in DOMAIN heap[h], Reason(h, n),
           heap'[h][n].dest = heap[h][n].dest
    PROVE  Reason(h, n)'
<1> DEFINE o == Other(h)
<1>1. o \in Hosts
  BY OtherHost
<1>2. \A k \in DOMAIN heap[o] : /\ k \in DOMAIN heap'[o]
                                /\ heap'[o][k].id = heap[o][k].id /\ heap'[o][k].rand = heap[o][k].rand
                                /\ heap[o][k].downs > 0 => heap'[o][k].downs > 0
  BY <1>1, SessionSteps, SettledStays
<1>3. heap'[h][n].rand = heap[h][n].rand
  BY SessionSteps DEF Moves
<1> QED
  BY <1>2, <1>3 DEF Reason, Partner

\* A FIN that reaches a session that was up comes from its partner, or from a
\* second session for the same attempt.
LEMMA FinHasReason ==
    ASSUME IdsDiffer, Shape, NamesInv, KnownInv, AcceptInv, GoneInv,
           NEW h \in Hosts, NEW n \in DOMAIN heap[h], heap[h][n].ups > 0,
           NEW m \in net, m.type = "fin", m.to = h, m.dest = heap[h][n].id
    PROVE  Reason(h, n)
<1> DEFINE g == Other(h)
           s == heap[h][n]
<1>1. g \in Hosts /\ g # h /\ Other(g) = h /\ Hosts = {h, g}
  BY OtherHost
<1>2. /\ s.id # NoId /\ \A k \in DOMAIN heap[h] : heap[h][k].id = s.id => k = n
      /\ OwnId(h, n) /\ \A k \in DOMAIN heap[g] : OwnId(g, k)
  BY <1>1 DEF IdsDiffer, OwnId
<1>3. PICK o \in DOMAIN heap[g] : heap[g][o].dest = s.id /\ heap[g][o].downs > 0
  BY <1>2 DEF GoneInv, FinTold
<1>4. Named(h, n) /\ UpIsAccepted(h, n) /\ Named(g, o) /\ UpIsAccepted(g, o) /\ KnownEnd(g, o)
  BY <1>1, <1>3 DEF NamesInv, AcceptInv, KnownInv
<1>5. CASE heap[g][o].rand[1] = g
  <2>1. heap[g][o].ups > 0
    BY <1>2, <1>3, <1>4, <1>5 DEF KnownEnd
  <2>2. PICK j \in DOMAIN heap[h] : /\ heap[h][j].id = heap[g][o].dest /\ heap[h][j].dest = heap[g][o].id
                                    /\ heap[h][j].rand[1] = g
    BY <1>1, <1>4, <1>5, <2>1 DEF UpIsAccepted
  <2>3. j = n /\ heap[h][j].rand = heap[g][o].rand
    BY <1>1, <1>2, <1>3, <2>2, AttemptOfOwn
  <2>4. o \in Partner(h, n)
    BY <1>3, <2>2, <2>3 DEF Partner
  <2> QED
    BY <1>3, <2>4 DEF Reason
<1>6. CASE heap[g][o].rand[1] # g
  <2>1. Attempt(h, heap[g][o].rand, heap[g][o].dest)
    BY <1>1, <1>4, <1>6 DEF Named
  <2>2. heap[g][o].rand = s.rand /\ s.rand[1] = h
    BY <1>2, <1>3, <2>1 DEF Attempt
  <2>3. PICK k \in DOMAIN heap[g] : heap[g][k].rand = s.rand /\ heap[g][k].id = s.dest
    <3>1. PICK k \in DOMAIN heap[g] : /\ heap[g][k].id = s.dest /\ heap[g][k].dest = s.id
                                      /\ heap[g][k].rand[1] = h
      BY <1>4, <2>2 DEF UpIsAccepted
    <3> QED
      BY <1>2, <3>1, AttemptOfOwn
  <2>4. CASE k = o
    BY <1>3, <2>3, <2>4 DEF Reason, Partner
  <2>5. CASE k # o
    BY <2>2, <2>3, <2>5 DEF Reason
  <2> QED
    BY <2>4, <2>5
<1> QED
  BY <1>5, <1>6

LEMMA GoneSessionStays ==
    ASSUME IdsDiffer, Shape, NamesInv, KnownInv, AcceptInv, GoneInv, [Next]_vars,
           NEW h \in Hosts, NEW n \in DOMAIN heap[h]
    PROVE  GoneSession(h, n)'
<1> DEFINE s == heap[h][n]
           t == heap'[h][n]
<1>1. Moves(h, n, s, t) /\ GoneSession(h, n) /\ (s.downs > 0 => t.downs > 0)
  BY SessionSteps, SettledStays DEF GoneInv
<1>2. CASE t.status = s.status /\ Same(s, t)
  <2>1. t.dest = s.dest /\ Reason(h, n) => Reason(h, n)'
    BY ReasonStays
  <2> QED
    BY <1>1, <1>2, <2>1 DEF Same, GoneSession
<1>3. CASE IsEnded(h, s, t)
  <2>1. s.ups > 0 => Reason(h, n)
    BY <1>3, FinHasReason DEF IsEnded
  <2>2. t.dest = s.dest /\ t.ups = s.ups /\ t.status = "FIN2"
    BY <1>3 DEF IsEnded, Same
  <2>3. s.ups > 0 => Reason(h, n)'
    BY <2>1, <2>2, ReasonStays
  <2> QED
    BY <2>2, <2>3 DEF GoneSession
<1>4. CASE GoesOn(h, n, s, t)
  <2> DEFINE f == stack[h][1]
  <2>1. GoneFrame(h, f) /\ f.obj = n
    BY <1>4 DEF GoesOn, GoneInv
  <2>2. t.dest = s.dest /\ t.ups = s.ups
    BY <1>4 DEF GoesOn, Same
  <2>3. t.status = "FIN" => t.downs > 0
    BY <1>1, <1>4, <2>1 DEF GoesOn, GoneFrame
  <2>4. t.status = "FIN2" /\ t.ups > 0 => Reason(h, n)
    BY <1>4, <2>1, <2>2 DEF GoesOn, GoneFrame
  <2>5. t.status = "FIN2" /\ t.ups > 0 => Reason(h, n)'
    BY <2>2, <2>4, ReasonStays
  <2> QED
    BY <2>3, <2>5 DEF GoneSession
<1>5. CASE t.status \in {"CONNECTING", "NORMAL", "CLOSE"}
  BY <1>5 DEF GoneSession
<1> QED
  BY <1>1, <1>2, <1>3, <1>4, <1>5 DEF Moves, Connects, Opens

LEMMA CallIs == \A call, then : Call(call, then).call = call /\ Call(call, then).then = then
  BY DEF Call

LEMMA GoneFramesStep ==
    ASSUME IdsDiffer, Shape, NamesInv, KnownInv, AcceptInv, GoneInv, [Next]_vars,
           NEW h \in Hosts, NEW k \in DOMAIN stack'[h], NEW f, f = stack'[h][k]
    PROVE  GoneFrame(h, f)'
<1>1. ASSUME f.c = NoCall PROVE GoneFrame(h, f)'
  BY <1>1 DEF NoCall, GoneFrame
<1>2. ASSUME NEW j \in DOMAIN stack[h], stack[h][j] = f, f.c # NoCall PROVE GoneFrame(h, f)'
  <2>1. ~f.sweep /\ f.obj \in DOMAIN heap[h]
    BY <1>2 DEF Shape, StackOK, FramesOK, FrameOK
  <2>2. PICK n \in DOMAIN heap[h] : n = f.obj
    BY <2>1
  <2>3. /\ GoneFrame(h, f) /\ Moves(h, n, heap[h][n], heap'[h][n])
        /\ heap[h][n].asked \/ heap[h][n].rand[1] # h
    BY <1>2, <2>1, <2>2, SessionSteps DEF GoneInv, KnownInv, KnownFrame
  <2>4. /\ heap[h][n].downs > 0 => heap'[h][n].downs > 0
        /\ heap[h][n].status # "CONNECTING" =>
             /\ heap'[h][n].dest = heap[h][n].dest /\ heap'[h][n].ups = heap[h][n].ups
             /\ heap'[h][n].status # "CONNECTING"
    BY <2>3, SettledStays
  <2>5. heap[h][n].status # "CONNECTING" /\ Reason(h, n) => Reason(h, n)'
    BY <2>4, ReasonStays
  <2> QED
    BY <2>2, <2>3, <2>4, <2>5 DEF GoneFrame
<1>3. ASSUME Called(h, f) PROVE GoneFrame(h, f)'
  <2>1. CASE f.c.call # "on_disconnection" /\ f.c.then # "FIN2"
    BY <2>1 DEF GoneFrame
  <2>2. CASE f.c \in {Call("on_disconnection", "FIN"), Call("on_disconnection", "timeout")}
    <3>0. /\ f.c.call = "on_disconnection" /\ f.c.then # "FIN2"
          /\ f.c \notin {Call("on_accept", "NORMAL"), Call("on_connection", "none"),
                         Call("on_disconnection", "FIN2")}
      BY <2>2, CallIs
    <3>1. heap'[h][f.obj].downs > 0
      BY <1>3, <3>0, Zenon DEF Called
    <3> QED
      BY <3>0, <3>1 DEF GoneFrame
  <2>3. CASE f.c = Call("on_disconnection", "FIN2")
    <3>0. f.c \notin {Call("on_accept", "NORMAL"), Call("on_connection", "none"),
                     Call("on_disconnection", "FIN"), Call("on_disconnection", "timeout")}
      BY <2>3, CallIs
    <3>1. /\ f.obj \in DOMAIN heap[h]
          /\ heap[h][f.obj].status = "NORMAL" /\ heap'[h][f.obj].status = "NORMAL"
          /\ heap'[h][f.obj].downs > 0
          /\ \E m \in net : m.type = "fin" /\ m.to = h /\ m.dest = heap[h][f.obj].id
      BY <1>3, <3>0 DEF Called
    <3>2. PICK n \in DOMAIN heap[h] : n = f.obj
      BY <3>1
    <3>3. heap[h][n].ups > 0 => Reason(h, n)
      BY <3>1, <3>2, FinHasReason
    <3>4. heap'[h][n].dest = heap[h][n].dest /\ heap'[h][n].ups = heap[h][n].ups
      BY <3>1, <3>2, SessionSteps, SettledStays
    <3>5. heap[h][n].ups > 0 => Reason(h, n)'
      BY <3>3, <3>4, ReasonStays
    <3> QED
      BY <3>1, <3>2, <3>4, <3>5 DEF GoneFrame
  <2>4. f.c \in {Call("on_accept", "NORMAL"), Call("on_connection", "none"),
                 Call("on_disconnection", "FIN"), Call("on_disconnection", "timeout"),
                 Call("on_disconnection", "FIN2")}
    BY <1>3, Zenon DEF Called
  <2>5. CASE f.c \in {Call("on_accept", "NORMAL"), Call("on_connection", "none")}
    <3>1. f.c.call # "on_disconnection" /\ f.c.then # "FIN2"
      BY <2>5, CallIs
    <3> QED
      BY <2>1, <3>1
  <2> QED
    BY <2>2, <2>3, <2>4, <2>5
<1>4. \/ f.c = NoCall
      \/ f.c # NoCall /\ \E j \in DOMAIN stack[h] : stack[h][j] = f
      \/ Called(h, f)
  BY StepBrings DEF Brings, NewFrames
<1> QED
  BY <1>1, <1>2, <1>3, <1>4

LEMMA FinsStep ==
    ASSUME Shape, KnownInv, GoneInv, [Next]_vars,
           \A h \in Hosts : \A n \in DOMAIN heap'[h] : GoneSession(h, n)',
           NEW x \in net'
    PROVE  FinTold(x)'
<1>1. CASE x \in net
  <2> SUFFICES ASSUME x.type = "fin", x.dest # NoId PROVE FinTold(x)'
    BY DEF FinTold
  <2>1. x.to \in Hosts
    BY <1>1 DEF Shape, NetOK, Datagrams, Syns, Syn2s, Rests
  <2> DEFINE g == Other(x.to)
  <2>2. g \in Hosts
    BY <2>1, OtherHost
  <2>3. PICK o \in DOMAIN heap[g] : heap[g][o].dest = x.dest /\ heap[g][o].downs > 0
    BY <1>1 DEF GoneInv, FinTold
  <2>4. heap[g][o].status # "CONNECTING"
    BY <2>2, <2>3 DEF KnownInv, KnownEnd
  <2>5. o \in DOMAIN heap'[g] /\ heap'[g][o].dest = x.dest /\ heap'[g][o].downs > 0
    BY <2>2, <2>3, <2>4, SessionSteps, SettledStays
  <2> QED
    BY <2>5 DEF FinTold
<1>2. CASE x \notin net
  <2>0. PICK g \in Hosts : \E n \in DOMAIN heap'[g] : \E t \in Types :
            /\ heap'[g][n] \in Sessions
            /\ x = Datagram(g, heap'[g][n], t) /\ Sends(g, heap'[g][n], t)
    BY <1>2, StepBrings DEF Brings, NewDatagrams, Sent
  <2>1. PICK n \in DOMAIN heap'[g], t \in Types :
            /\ heap'[g][n] \in Sessions
            /\ x = Datagram(g, heap'[g][n], t) /\ Sends(g, heap'[g][n], t)
    BY <2>0
  <2>2. x.type = t /\ Other(x.to) = g /\ (t # "syn" => x.dest = heap'[g][n].dest)
    <3>1. Other(Other(g)) = g
      BY OtherHost
    <3> QED
      BY <2>1, <3>1, DatagramFacts
  <2>3. t = "fin" => heap'[g][n].downs > 0
    BY <2>1 DEF Sends, GoneSession
  <2> QED
    BY <2>2, <2>3 DEF FinTold
<1> QED
  BY <1>1, <1>2

LEMMA GoneStep ==
    ASSUME IdsDiffer, Shape, NamesInv, KnownInv, AcceptInv, GoneInv, [Next]_vars
    PROVE  GoneInv'
<1>1. ASSUME NEW h \in Hosts, NEW n \in DOMAIN heap'[h] PROVE GoneSession(h, n)'
  <2>1. n \in DOMAIN heap[h] \/ Made(h, n, heap'[h][n])
    BY StepBrings DEF Brings, NewObjects
  <2>2. CASE Made(h, n, heap'[h][n])
    BY <2>2 DEF Made, GoneSession
  <2> QED
    BY <2>1, <2>2, GoneSessionStays
<1>2. ASSUME NEW x \in net' PROVE FinTold(x)'
  BY <1>1, FinsStep
<1>3. ASSUME NEW h \in Hosts, NEW k \in DOMAIN stack'[h], NEW f, f = stack'[h][k] PROVE GoneFrame(h, f)'
  BY <1>3, GoneFramesStep
<1>4. (\A h \in Hosts : \A k \in DOMAIN stack[h] : GoneFrame(h, stack[h][k]))'
  BY <1>3 DEF GoneFrame, Reason, Partner
<1> QED
  BY <1>1, <1>2, <1>4 DEF GoneInv

LEMMA GoneAlways == Spec => [](IdsDiffer => GoneInv)
<1>1. Init => GoneInv
  BY DEF Init, GoneInv
<1>2. /\ Shape /\ NamesInv /\ (IdsDiffer => KnownInv) /\ AcceptInv /\ (IdsDiffer => GoneInv) /\ [Next]_vars
      => (IdsDiffer => GoneInv)'
  BY GoneStep, IdsDiffered
<1> QED
  BY <1>1, <1>2, ShapeAlways, NamesAlways, KnownAlways, AcceptAlways, PTL DEF Spec

\* As long as ids differ, a session that was up is ended by the other side only
\* if its partner was told that it is gone, or the attempt has two sessions over
\* there.
THEOREM EndedForAReason == Spec => []GoneForAReason
<1>1. (IdsDiffer => GoneInv) => GoneForAReason
  BY DEF GoneInv, GoneSession, Reason, GoneForAReason
<1> QED
  BY <1>1, GoneAlways, PTL

-----------------------------------------------------------------------------
(* What the application was told.                                          *)

SameTold(s, t) ==
    /\ t.status = s.status /\ t.ups = s.ups /\ t.downs = s.downs /\ t.closed = s.closed
    /\ t.asked = s.asked /\ t.rand = s.rand

\* A step that leaves the callbacks of a host, and what it told, as they were.
LEMMA ToldStays ==
    ASSUME Shape, NEW g \in Hosts, Told(g), DOMAIN heap'[g] = DOMAIN heap[g],
           \A k \in DOMAIN heap[g] : SameTold(heap[g][k], heap'[g][k]),
           \/ stack'[g] = stack[g]
           \/ \A b \in {stack[g], stack'[g]} : \A k \in DOMAIN b : b[k].c = NoCall
    PROVE  Told(g)'
<1>1. CASE stack'[g] = stack[g]
  <2>1. Placed(stack'[g])
    BY <1>1 DEF Told
  <2>2. ASSUME NEW k \in DOMAIN stack[g], NEW f, f = stack[g][k] PROVE ToldFrame(g, f)'
    <3>1. CASE f.c = NoCall
      BY <3>1 DEF ToldFrame, NoCall
    <3>2. CASE f.c # NoCall
      <4>1. f.obj \in DOMAIN heap[g]
        BY <2>2, <3>2 DEF Shape, StackOK, FramesOK, FrameOK
      <4> QED
        BY <2>2, <4>1 DEF Told, ToldFrame, SameTold
    <3> QED
      BY <3>1, <3>2
  <2>3. ASSUME NEW n \in DOMAIN heap[g] PROVE ToldSession(g, n)'
    BY <1>1 DEF Told, ToldSession, GoingOn, Over, Idle, SameTold, Pending
  <2> QED
    BY <1>1, <2>1, <2>2, <2>3 DEF Told, ToldFrame
<1>2. CASE \A b \in {stack[g], stack'[g]} : \A k \in DOMAIN b : b[k].c = NoCall
  <2>1. /\ \A k \in DOMAIN stack[g] : stack[g][k].c.call = "none"
        /\ \A k \in DOMAIN stack'[g] : stack'[g][k].c.call = "none"
    BY <1>2 DEF NoCall
  <2>2. Placed(stack'[g]) /\ \A k \in DOMAIN stack'[g] : ToldFrame(g, stack'[g][k])
    BY <2>1 DEF Placed, ToldFrame
  <2>3. ASSUME NEW n \in DOMAIN heap[g] PROVE ToldSession(g, n)'
    BY <2>1 DEF Told, ToldSession, GoingOn, Over, Idle, SameTold, Pending
  <2>4. (\A k \in DOMAIN stack[g] : ToldFrame(g, stack[g][k]))'
    BY <2>1 DEF ToldFrame
  <2> QED
    BY <2>2, <2>3, <2>4 DEF Told
<1> QED
  BY <1>1, <1>2

\* Whether a callback is among suspended handlers.
Among(b, n, call) == \E i \in DOMAIN b : b[i].obj = n /\ b[i].c.call = call

\* What the handlers below an effect on session n have to be like.
Fits(h, n, e, below) ==
    /\ \A k \in DOMAIN heap[h] : Pending(h, k, "on_disconnection") => k = n
    /\ \A k \in DOMAIN heap[h] : Pending(h, k, "on_accept") => k = n \/ Among(below, k, "on_accept")
    /\ \A i \in DOMAIN below :
         /\ below[i].c.call # "on_disconnection"
         /\ below[i].c.call = "on_accept" =>
              /\ i = Len(below)
              /\ \E j \in DOMAIN stack[h] : stack[h][j] = below[i]
              /\ below[i].obj = n => e.s.status = "NONE" /\ e.s.ups = 1 /\ e.s.downs = 0

\* What the effect has to be like.
Tells(h, n, e, below) ==
    /\ e.c.call = "on_disconnection" => e.s.status \in {"CONNECTING", "NORMAL"} /\ e.s.downs = 1
    /\ e.c.call # "on_accept"
    /\ GoingOn(e.s, e.c.call = "on_disconnection", Among(below, n, "on_accept"))
    /\ Over(e.s)
    /\ Idle(h, e.s)

LEMMA HandledTold ==
    ASSUME Shape, NEW h, NEW n, NEW e, NEW below, Handled(h, n, e, below), Told(h),
           Fits(h, n, e, below), Tells(h, n, e, below)
    PROVE  Told(h)'
<1> DEFINE f == Frame(e.c, n)
<1>1. /\ h \in Hosts /\ n \in DOMAIN heap[h] /\ heap'[h][n] = e.s /\ DOMAIN heap'[h] = DOMAIN heap[h]
      /\ \A k \in DOMAIN heap[h] : k # n => heap'[h][k] = heap[h][k]
      /\ below \in Seq(AnyFrame) /\ e.c \in {NoCall} \cup Callbacks
      /\ e.c = NoCall => stack'[h] = below
      /\ e.c # NoCall => stack'[h] = <<f>> \o below /\ f \in AnyFrame
  BY DEF Handled, OnlyChanged, Kept
<1>2. f.obj = n /\ f.c = e.c
  BY DEF Frame
<1> HIDE DEF f
\* Where the frames are.
<1>3. /\ \A k \in DOMAIN stack'[h] :
           \/ e.c # NoCall /\ k = 1 /\ stack'[h][k] = f
           \/ \E i \in DOMAIN below : stack'[h][k] = below[i] /\ (i = Len(below) => k = Len(stack'[h]))
      /\ \A i \in DOMAIN below : \E k \in DOMAIN stack'[h] : stack'[h][k] = below[i]
      /\ e.c # NoCall => 1 \in DOMAIN stack'[h] /\ stack'[h][1] = f
  <2>1. CASE e.c = NoCall
    BY <1>1, <2>1
  <2>2. CASE e.c # NoCall
    <3> DEFINE b == <<f>> \o below
    <3>1. /\ b \in Seq(AnyFrame) /\ Len(b) = Len(below) + 1 /\ b[1] = f
          /\ \A k \in DOMAIN b : k # 1 => k - 1 \in DOMAIN below /\ b[k] = below[k - 1]
          /\ \A k \in DOMAIN below : k + 1 \in DOMAIN b /\ b[k + 1] = below[k]
      BY <1>1, <2>2, PushFacts
    <3>2. stack'[h] = b
      BY <1>1, <2>2
    <3>3. \A k \in DOMAIN b : k \in Nat
      BY <3>1
    <3>4. 1 \in DOMAIN b /\ Len(below) \in Nat
      BY <1>1, <3>1
    <3> HIDE DEF b
    <3>5. ASSUME NEW k \in DOMAIN b, k # 1
          PROVE  \E i \in DOMAIN below : b[k] = below[i] /\ (i = Len(below) => k = Len(b))
      <4>1. k - 1 \in DOMAIN below /\ b[k] = below[k - 1] /\ (k - 1 = Len(below) => k = Len(b))
        BY <3>1, <3>3, <3>4, <3>5
      <4> QED
        BY <4>1
    <3>6. \A i \in DOMAIN below : \E k \in DOMAIN b : b[k] = below[i]
      BY <3>1
    <3> QED
      BY <2>2, <3>1, <3>2, <3>4, <3>5, <3>6
  <2> QED
    BY <2>1, <2>2
<1>4. Placed(stack'[h])
  <2>1. ASSUME NEW k \in DOMAIN stack'[h]
        PROVE  /\ stack'[h][k].c.call = "on_disconnection" => k = 1
               /\ stack'[h][k].c.call = "on_accept" => k = Len(stack'[h])
    <3>1. CASE k = 1 /\ stack'[h][k] = f
      BY <1>2, <3>1 DEF Tells
    <3>2. CASE \E i \in DOMAIN below : stack'[h][k] = below[i] /\ (i = Len(below) => k = Len(stack'[h]))
      BY <3>2 DEF Fits
    <3> QED
      BY <1>3, <3>1, <3>2
  <2> QED
    BY <2>1 DEF Placed
<1>5. ASSUME NEW k \in DOMAIN stack'[h], NEW x, x = stack'[h][k] PROVE ToldFrame(h, x)'
  <2>1. CASE x = f
    BY <1>1, <1>2, <2>1 DEF Tells, ToldFrame
  <2>2. ASSUME NEW i \in DOMAIN below, x = below[i] PROVE ToldFrame(h, x)'
    <3>1. CASE x.c.call # "on_accept"
      BY <2>2, <3>1 DEF Fits, ToldFrame
    <3>2. CASE x.c.call = "on_accept"
      <4>1. PICK j \in DOMAIN stack[h] : stack[h][j] = x
        BY <2>2, <3>2 DEF Fits
      <4>2. ToldFrame(h, x)
        BY <4>1 DEF Told
      <4>3. x.obj \in DOMAIN heap[h]
        BY <1>1, <3>2, <4>1 DEF Shape, StackOK, FramesOK, FrameOK, NoCall
      <4>4. CASE x.obj = n
        BY <1>1, <2>2, <3>2, <4>4 DEF Fits, ToldFrame
      <4>5. CASE x.obj # n
        BY <1>1, <3>2, <4>2, <4>3, <4>5 DEF ToldFrame
      <4> QED
        BY <4>4, <4>5
    <3> QED
      BY <3>1, <3>2
  <2> QED
    BY <1>3, <1>5, <2>1, <2>2
<1>6. ASSUME NEW k \in DOMAIN heap[h] PROVE ToldSession(h, k)'
  <2>1. CASE k = n
    <3>1. e.c.call = "on_disconnection" => Pending(h, n, "on_disconnection")'
      <4>1. e.c.call = "on_disconnection" => e.c # NoCall
        BY DEF NoCall
      <4> QED
        BY <1>2, <1>3, <4>1 DEF Pending
    <3>2. Among(below, n, "on_accept") => Pending(h, n, "on_accept")'
      BY <1>3 DEF Among, Pending
    <3> QED
      BY <1>1, <2>1, <3>1, <3>2 DEF Tells, ToldSession, GoingOn, Idle
  <2>2. CASE k # n
    <3>1. ~Pending(h, k, "on_disconnection")
      BY <2>2 DEF Fits
    <3>2. Pending(h, k, "on_accept") => Pending(h, k, "on_accept")'
      BY <1>3, <2>2 DEF Fits, Among, Pending
    <3>3. ToldSession(h, k) /\ heap'[h][k] = heap[h][k]
      BY <1>1, <2>2 DEF Told
    <3> QED
      BY <3>1, <3>2, <3>3 DEF ToldSession, GoingOn, Over, Idle
  <2> QED
    BY <2>1, <2>2
<1>7. (\A k \in DOMAIN stack[h] : ToldFrame(h, stack[h][k]))'
  BY <1>5 DEF ToldFrame
<1> QED
  BY <1>1, <1>4, <1>6, <1>7 DEF Told

\* What a step does not touch is known as it was.
LEMMA ToldElsewhere ==
    ASSUME Shape, ToldInv, NEW h \in Hosts, Told(h)',
           \A g \in Hosts : g # h =>
               /\ stack'[g] = stack[g] /\ DOMAIN heap'[g] = DOMAIN heap[g]
               /\ \A k \in DOMAIN heap[g] : heap'[g][k] = heap[g][k]
    PROVE  ToldInv'
<1>1. ASSUME NEW g \in Hosts PROVE Told(g)'
  <2>1. CASE g # h
    <3>1. \A k \in DOMAIN heap[g] : SameTold(heap[g][k], heap'[g][k])
      BY <2>1 DEF SameTold
    <3>2. Told(g)
      BY DEF ToldInv
    <3> QED
      BY <2>1, <3>1, <3>2, ToldStays
  <2> QED
    BY <2>1
<1> QED
  BY <1>1 DEF ToldInv

LEMMA HandledTells ==
    ASSUME Shape, ToldInv, NEW h, NEW n, NEW e, NEW below, Handled(h, n, e, below),
           Fits(h, n, e, below), Tells(h, n, e, below)
    PROVE  ToldInv'
<1>1. h \in Hosts /\ Told(h)
  BY DEF Handled, ToldInv
<1>2. Told(h)'
  BY <1>1, HandledTold
<1>3. \A g \in Hosts : g # h =>
          /\ stack'[g] = stack[g] /\ DOMAIN heap'[g] = DOMAIN heap[g]
          /\ \A k \in DOMAIN heap[g] : heap'[g][k] = heap[g][k]
  BY DEF Handled, OnlyChanged
<1> QED
  BY <1>1, <1>2, <1>3, ToldElsewhere

\* Nothing is called back while the mutex is free or a sweep is in no callback.
Calm(b) == \A k \in DOMAIN b : b[k].c = NoCall

LEMMA CalmFits ==
    ASSUME NEW h, NEW n, NEW e, NEW below, Calm(stack[h]), Calm(below)
    PROVE  /\ Fits(h, n, e, below)
           /\ \A k : ~Pending(h, k, "on_disconnection") /\ ~Pending(h, k, "on_accept")
           /\ ~Among(below, n, "on_accept")
  BY DEF Calm, NoCall, Fits, Pending, Among

LEMMA ConnectTold ==
    ASSUME Shape, ToldInv, NEW h \in Hosts, NEW n \in DOMAIN heap[h], ConnectSession(h, n)
    PROVE  ToldInv'
<1> DEFINE s == heap[h][n]
           e == Connect(s)
<1>1. Handled(h, n, e, <<>>) /\ s \in Sessions /\ ~s.asked /\ s.rand[1] = h /\ stack[h] = <<>>
  BY ConnectHandled
<1>2. /\ e.c = NoCall
      /\ e.s.closed = s.closed /\ e.s.ups = s.ups /\ e.s.downs = s.downs
      /\ e.s.rand = s.rand
      /\ s.status = "CLOSE" => e.s.status = "CLOSE" /\ ~e.s.asked
      /\ s.status # "CLOSE" => e.s.status = "CONNECTING" /\ e.s.asked
  BY <1>1, ConnectFacts DEF Kept
<1>3. /\ Fits(h, n, e, <<>>) /\ ~Among(<<>>, n, "on_accept")
      /\ ~Pending(h, n, "on_disconnection") /\ ~Pending(h, n, "on_accept")
  BY <1>1, CalmFits DEF Calm
<1>4. ToldSession(h, n)
  BY DEF ToldInv, Told
<1>5. s.status \in {"NONE", "FIN2", "CLOSE"} /\ s.ups = 0 /\ s.downs = 0 /\ ~s.closed
  BY <1>1, <1>4 DEF ToldSession, Idle
<1> HIDE DEF e
<1>6. Tells(h, n, e, <<>>)
  BY <1>1, <1>2, <1>3, <1>5 DEF Tells, GoingOn, Over, Idle, NoCall
<1> QED
  BY <1>1, <1>3, <1>6, HandledTells

LEMMA CloseTold ==
    ASSUME NoClosingAtTheEnd, Shape, ToldInv, NEW h \in Hosts, NEW n \in DOMAIN heap[h],
           CloseSession(h, n)
    PROVE  ToldInv'
<1> DEFINE s == heap[h][n]
           e == Disconnect([s EXCEPT !.closed = TRUE], "FIN")
           b == stack[h]
<1>1. Handled(h, n, e, b) /\ s \in Sessions /\ s.status \in {"CONNECTING", "NORMAL"}
  BY CloseHandled
<1>2. /\ e.c = Call("on_disconnection", "FIN") /\ e.s.ups = s.ups
      /\ e.s.status = s.status /\ e.s.downs = s.downs + 1
      /\ e.s.asked = s.asked /\ e.s.rand = s.rand
  BY <1>1, CloseFacts DEF Kept
<1>3. Placed(b) /\ ToldSession(h, n) /\ \A k \in DOMAIN b : ToldFrame(h, b[k])
  BY DEF ToldInv, Told
\* The application does not call from on_disconnection, so none is under way.
<1>4. \A i \in DOMAIN b : b[i].c.call # "on_disconnection"
  <2>1. b = <<>> \/ <<b[1].c.call, "close_session">> \in Reentry
    BY DEF CloseSession, MayCall
  <2>2. b # <<>> => b[1].c.call # "on_disconnection"
    BY <2>1 DEF NoClosingAtTheEnd
  <2>3. b = <<>> => DOMAIN b = {}
    OBVIOUS
  <2> QED
    BY <1>3, <2>2, <2>3 DEF Placed
<1>5. \A i \in DOMAIN b : b[i].c.call = "on_accept" => i = Len(b) /\ b[i].obj # n
  BY <1>1, <1>3 DEF Placed, ToldFrame
<1>6. /\ ~Pending(h, n, "on_disconnection") /\ ~Among(b, n, "on_accept") /\ ~Pending(h, n, "on_accept")
  BY <1>4, <1>5 DEF Pending, Among
<1> HIDE DEF e
<1>7. Fits(h, n, e, b)
  BY <1>4, <1>5 DEF Fits, Pending, Among
<1>8. Tells(h, n, e, b)
  BY <1>1, <1>2, <1>3, <1>6 DEF Tells, ToldSession, GoingOn, Over, Idle, Call
<1> QED
  BY <1>1, <1>7, <1>8, HandledTells

LEMMA ReturnTold ==
    ASSUME Shape, ToldInv, NEW h \in Hosts, Return(h)
    PROVE  ToldInv'
<1> DEFINE b == stack[h]
           f == b[1]
           n == f.obj
           s == heap[h][n]
           rest == Tail(b)
           e == Resume(s, f.c.then)
<1>1. /\ b \in Seq(AnyFrame) /\ b # <<>> /\ f.c \in Callbacks /\ s \in Sessions
      /\ Handled(h, n, e, rest)
  BY ReturnHandled
<1>2. n \in DOMAIN heap[h]
  BY <1>1 DEF Handled
<1>3. Placed(b) /\ ToldSession(h, n) /\ \A k \in DOMAIN b : ToldFrame(h, b[k])
  BY <1>2 DEF ToldInv, Told
<1>4. /\ Len(rest) + 1 = Len(b) /\ 1 \in DOMAIN b /\ rest \in Seq(AnyFrame)
      /\ \A k \in DOMAIN rest : k + 1 \in DOMAIN b /\ rest[k] = b[k + 1]
      /\ \A k \in DOMAIN b : k # 1 => k - 1 \in DOMAIN rest /\ b[k] = rest[k - 1]
  BY <1>1, PopFacts
<1>5. /\ e.s.closed = s.closed /\ e.s.ups = s.ups /\ e.s.downs = s.downs
      /\ e.s.asked = s.asked /\ e.s.rand = s.rand
      /\ e.c.call \in {"none", "on_connection"}
      /\ s.status = "CLOSE" => e.s.status = "CLOSE"
      /\ s.status # "CLOSE" =>
            /\ f.c.call = "on_accept" => e.s.status = "NORMAL"
            /\ f.c.call = "on_connection" => e.s.status = s.status
            /\ f.c.call = "on_disconnection" => e.s.status \in {"FIN", "FIN2"}
  <2>1. Resumed(s, f.c, e)
    BY <1>1, ResumeFacts
  <2> HIDE DEF e
  <2>2. e.c.call \in {"none", "on_connection"}
    BY <2>1, SMTT(30) DEF Resumed, NoCall, Call
  <2> QED
    BY <2>1, <2>2 DEF Resumed, Kept
<1>6. f.c.call \in {"on_accept", "on_connection", "on_disconnection"}
  BY <1>1 DEF Callbacks, Call
<1> HIDE DEF e
<1>7. ToldFrame(h, f) /\ (f.c.call = "on_accept" => Len(b) = 1)
  BY <1>3, <1>4 DEF Placed
<1>8. \A k \in DOMAIN rest : k \in Nat /\ Len(rest) \in Nat
  BY <1>4
<1>9. \A k \in DOMAIN rest :
          /\ rest[k].c.call # "on_disconnection"
          /\ rest[k].c.call = "on_accept" => k = Len(rest) /\ f.c.call # "on_accept"
  BY <1>3, <1>4, <1>7, <1>8 DEF Placed
<1> HIDE DEF rest
\* What is pending is the callback that returns, or one below it.
<1>10. /\ \A k \in DOMAIN heap[h] : Pending(h, k, "on_disconnection") => k = n
       /\ \A k \in DOMAIN heap[h] : Pending(h, k, "on_accept") => k = n \/ Among(rest, k, "on_accept")
       /\ Pending(h, n, "on_disconnection") => f.c.call = "on_disconnection"
       /\ Pending(h, n, "on_accept") => f.c.call = "on_accept" \/ Among(rest, n, "on_accept")
  <2>1. ASSUME NEW k \in DOMAIN heap[h], NEW i \in DOMAIN b, b[i].obj = k,
               b[i].c.call = "on_disconnection"
        PROVE  k = n /\ f.c.call = "on_disconnection"
    BY <1>3, <2>1 DEF Placed
  <2>2. ASSUME NEW k \in DOMAIN heap[h], NEW i \in DOMAIN b, b[i].obj = k,
               b[i].c.call = "on_accept"
        PROVE  Among(rest, k, "on_accept") \/ (k = n /\ f.c.call = "on_accept")
    <3>1. CASE i = 1
      BY <2>2, <3>1
    <3>2. CASE i # 1
      BY <1>4, <2>2, <3>2 DEF Among
    <3> QED
      BY <3>1, <3>2
  <2> QED
    BY <1>2, <2>1, <2>2 DEF Pending
<1>11. ASSUME NEW i \in DOMAIN rest, rest[i].c.call = "on_accept", rest[i].obj = n
       PROVE  f.c.call = "on_connection" /\ s.status = "NONE" /\ s.ups = 1 /\ s.downs = 0
  <2>1. ToldFrame(h, rest[i])
    BY <1>3, <1>4
  <2> QED
    BY <1>6, <1>7, <1>9, <1>11, <2>1 DEF ToldFrame
<1>12. Fits(h, n, e, rest)
  <2>1. ASSUME NEW i \in DOMAIN rest, rest[i].c.call = "on_accept"
        PROVE  /\ i = Len(rest) /\ \E j \in DOMAIN stack[h] : stack[h][j] = rest[i]
               /\ rest[i].obj = n => e.s.status = "NONE" /\ e.s.ups = 1 /\ e.s.downs = 0
    <3>1. rest[i].obj = n => e.s.status = "NONE" /\ e.s.ups = 1 /\ e.s.downs = 0
      BY <1>5, <1>11, <2>1
    <3> QED
      BY <1>4, <1>9, <2>1, <3>1
  <2> QED
    BY <1>9, <1>10, <2>1 DEF Fits
<1>13. Tells(h, n, e, rest)
  <2>1. GoingOn(s, f.c.call = "on_disconnection",
                f.c.call = "on_accept" \/ Among(rest, n, "on_accept")) /\ Over(s) /\ Idle(h, s)
    BY <1>3, <1>10 DEF ToldSession, GoingOn
  <2>2. CASE f.c.call = "on_disconnection"
    <3>1. s.status \in {"CONNECTING", "NORMAL"} /\ s.downs = 1
      BY <1>7, <2>2 DEF ToldFrame
    <3>2. ~Among(rest, n, "on_accept")
      BY <1>11, <2>2 DEF Among
    <3> QED
      BY <1>5, <2>1, <2>2, <3>1, <3>2, SMTT(30) DEF Tells, GoingOn, Over, Idle
  <2>3. CASE f.c.call = "on_accept"
    <3>1. s.status = "NONE" /\ s.ups = 1 /\ s.downs = 0
      BY <1>7, <2>3 DEF ToldFrame
    <3> QED
      BY <1>5, <2>1, <2>3, <3>1 DEF Tells, GoingOn, Over, Idle
  <2>4. CASE f.c.call = "on_connection"
    BY <1>5, <2>1, <2>4 DEF Tells, GoingOn, Over, Idle
  <2> QED
    BY <1>6, <2>2, <2>3, <2>4
<1> QED
  BY <1>1, <1>12, <1>13, HandledTells

\* A sweep that goes on is in no callback.
LEMMA SweepIsCalm ==
    ASSUME NEW b, NEW i, NEW max,
           b = SweepFrom(i, max) \/ \E busy \in BOOLEAN : b = <<Sweep(i, max, busy)>>
    PROVE  Calm(b)
<1>1. ASSUME NEW busy \in BOOLEAN, b = <<Sweep(i, max, busy)>> PROVE Calm(b)
  <2> DEFINE f == Sweep(i, max, busy)
  <2>1. f.c = NoCall
    BY DEF Sweep
  <2> HIDE DEF f
  <2>2. b = <<f>>
    BY <1>1 DEF f
  <2> QED
    BY <2>1, <2>2 DEF Calm
<1>2. CASE b = SweepFrom(i, max)
  <2>1. b = <<>> \/ b = <<Sweep(i, max, FALSE)>>
    BY <1>2, Zenon DEF SweepFrom
  <2>2. CASE b = <<>>
    BY <2>2 DEF Calm
  <2>3. CASE b = <<Sweep(i, max, FALSE)>>
    BY <1>1, <2>3, Zenon
  <2> QED
    BY <2>1, <2>2, <2>3
<1> QED
  BY <1>1, <1>2

LEMMA TimedTold ==
    ASSUME Shape, ToldInv, NEW h \in Hosts, NEW n, NEW late \in Lates, NEW below,
           Timed(h, n, late, below), Calm(stack[h]), Calm(below)
    PROVE  ToldInv'
<1> DEFINE s == heap[h][n]
           e == ProcTimer(s, late)
<1>1. n \in DOMAIN heap[h] /\ s \in Sessions /\ s.status # "CLOSE" /\ Handled(h, n, e, below)
  BY DEF Timed
<1>2. TimerRuns(s, e) /\ e.s.asked = s.asked /\ e.s.rand = s.rand
  <2>1. TimerRuns(s, e)
    BY <1>1, ProcTimerFacts
  <2> HIDE DEF e
  <2> QED
    BY <2>1 DEF TimerRuns, Kept
<1>3. /\ Fits(h, n, e, below) /\ ~Among(below, n, "on_accept")
      /\ ~Pending(h, n, "on_disconnection") /\ ~Pending(h, n, "on_accept")
  BY CalmFits
<1>4. ToldSession(h, n)
  BY <1>1 DEF ToldInv, Told
<1> HIDE DEF e
<1>5. Tells(h, n, e, below)
  BY <1>1, <1>2, <1>3, <1>4
     DEF TimerRuns, Tells, ToldSession, GoingOn, Over, Idle, NoCall, Call, Sessions, Statuses
<1> QED
  BY <1>1, <1>3, <1>5, HandledTells

LEMMA MessageTold ==
    ASSUME Shape, ToldInv, NEW h \in Hosts, NEW n \in DOMAIN heap[h], NEW m, Received(h, n, m)
    PROVE  ToldInv'
<1> DEFINE s == heap[h][n]
           e == ProcUdpMsg(s, m)
<1>1. /\ m \in Datagrams /\ m.type # "syn" /\ s \in Sessions /\ stack[h] = <<>>
      /\ Handled(h, n, e, <<>>)
  BY DEF Received
<1>2. /\ e.s.closed = s.closed /\ e.s.asked = s.asked /\ e.s.rand = s.rand
      /\ \/ /\ e.s.status = s.status /\ e.s.ups = s.ups /\ e.s.downs = s.downs /\ e.c = NoCall
         \/ /\ s.status = "CONNECTING" /\ e.s.status = "NORMAL"
            /\ e.s.ups = s.ups + 1 /\ e.s.downs = s.downs
            /\ e.c = Call("on_connection", "none")
         \/ /\ s.status = "NORMAL"
            /\ e.s.status = s.status /\ e.s.ups = s.ups /\ e.s.downs = s.downs + 1
            /\ e.c = Call("on_disconnection", "FIN2")
         \/ /\ s.status # "NORMAL" /\ e.s.status \in {"FIN2", "CLOSE"}
            /\ e.s.ups = s.ups /\ e.s.downs = s.downs /\ e.c = NoCall
  <2>1. PICK x : x = e
    OBVIOUS
  <2> HIDE DEF e
  <2>2. /\ x.s.closed = s.closed /\ x.s.asked = s.asked /\ x.s.rand = s.rand
        /\ \/ /\ x.s.status = s.status /\ x.s.ups = s.ups /\ x.s.downs = s.downs /\ x.c = NoCall
           \/ /\ s.status = "CONNECTING" /\ x.s.status = "NORMAL"
              /\ x.s.ups = s.ups + 1 /\ x.s.downs = s.downs
              /\ x.c = Call("on_connection", "none")
           \/ /\ s.status = "NORMAL"
              /\ x.s.status = s.status /\ x.s.ups = s.ups /\ x.s.downs = s.downs + 1
              /\ x.c = Call("on_disconnection", "FIN2")
           \/ /\ s.status # "NORMAL" /\ x.s.status \in {"FIN2", "CLOSE"}
              /\ x.s.ups = s.ups /\ x.s.downs = s.downs /\ x.c = NoCall
    <3>1. x = ProcUdpMsg(s, m)
      BY <2>1 DEF e
    <3> QED
      BY <1>1, <3>1, ProcUdpMsgFacts DEF Kept
  <2> QED
    BY <2>1, <2>2
<1>3. /\ Fits(h, n, e, <<>>) /\ ~Among(<<>>, n, "on_accept")
      /\ ~Pending(h, n, "on_disconnection") /\ ~Pending(h, n, "on_accept")
  BY <1>1, CalmFits DEF Calm
<1>4. ToldSession(h, n)
  BY DEF ToldInv, Told
<1> HIDE DEF e
<1>5. Tells(h, n, e, <<>>)
  BY <1>1, <1>2, <1>3, <1>4
     DEF Tells, ToldSession, GoingOn, Over, Idle, NoCall, Call, Sessions, Statuses
<1> QED
  BY <1>1, <1>3, <1>5, HandledTells

LEMMA CreateTold ==
    ASSUME Shape, ToldInv, NEW h \in Hosts, CreateSession(h)
    PROVE  ToldInv'
<1>0. PICK bits \in IdBits[h] : Created(h, bits)
  BY CreateHandled
<1> DEFINE L == Len(heap[h]) + 1
           s == NewSession(NewId(h, bits), NoId, <<h, L>>)
<1>1. Added(h, s) /\ UNCHANGED stack /\ NewId(h, bits) \in Ids
  BY <1>0 DEF Created
<1>2. <<h, L>> \in Hosts \X Nat
  BY <1>1 DEF Added
<1>3. s.status = "NONE" /\ ~s.closed /\ s.ups = 0 /\ s.downs = 0
  BY <1>1, <1>2, NewSessionFacts
<1> HIDE DEF s
<1>4. Told(h)
  BY DEF ToldInv
<1>5. Placed(stack'[h])
  BY <1>1, <1>4 DEF Told
<1>6. ASSUME NEW k \in DOMAIN stack[h], NEW f, f = stack[h][k] PROVE ToldFrame(h, f)'
  <2>1. CASE f.c = NoCall
    BY <2>1 DEF ToldFrame, NoCall
  <2>2. CASE f.c # NoCall
    <3>1. f.obj \in DOMAIN heap[h]
      BY <1>6, <2>2 DEF Shape, StackOK, FramesOK, FrameOK
    <3>2. heap'[h][f.obj] = heap[h][f.obj] /\ ToldFrame(h, f)
      BY <1>1, <1>4, <1>6, <3>1 DEF Added, Told
    <3> QED
      BY <3>2 DEF ToldFrame
  <2> QED
    BY <2>1, <2>2
<1>7. (\A k \in DOMAIN stack[h] : ToldFrame(h, stack[h][k]))'
  BY <1>1, <1>6 DEF ToldFrame
<1>8. ASSUME NEW n \in DOMAIN heap'[h] PROVE ToldSession(h, n)'
  <2>1. CASE n \in DOMAIN heap[h]
    <3>1. heap'[h][n] = heap[h][n] /\ ToldSession(h, n)
      BY <1>1, <1>4, <2>1 DEF Added, Told
    <3> QED
      BY <1>1, <3>1 DEF ToldSession, Pending
  <2>2. CASE n = L
    <3>1. heap'[h][n] = s
      BY <1>1, <2>2 DEF Added
    <3> QED
      BY <1>3, <3>1 DEF ToldSession, GoingOn, Over, Idle
  <2> QED
    BY <1>1, <2>1, <2>2 DEF Added
<1>9. Told(h)'
  BY <1>5, <1>7, <1>8 DEF Told
<1>10. \A g \in Hosts : g # h => heap'[g] = heap[g] /\ stack'[g] = stack[g]
  BY <1>1 DEF Added
<1> QED
  BY <1>9, <1>10, ToldElsewhere

LEMMA AcceptTold ==
    ASSUME Shape, ToldInv, NEW h \in Hosts, NEW m, m.loc \in Ids, m.rand \in Hosts \X Nat,
           m.rand[1] # h, NEW bits \in IdBits[h], Accepted(h, m, bits)
    PROVE  ToldInv'
<1> DEFINE e == OnAccept(NewSession(NewId(h, bits), m.loc, m.rand))
           s == e.s
           L == Len(heap[h]) + 1
<1>0. PICK f : f = Frame(Call("on_accept", "NORMAL"), L)
  OBVIOUS
<1>1. /\ Added(h, s) /\ NewId(h, bits) \in Ids /\ stack[h] = <<>> /\ stack'[h] = <<f>>
      /\ \A g \in Hosts : g # h => stack'[g] = stack[g]
  BY <1>0 DEF Accepted
<1>2. s.status = "NONE" /\ ~s.closed /\ s.ups = 1 /\ s.downs = 0 /\ s.rand = m.rand
  BY <1>1, AcceptFacts
<1>3. f.obj = L /\ f.c.call = "on_accept" /\ L \in Nat
  BY <1>0, <1>1 DEF Frame, Call, Added
<1> HIDE DEF s, e
<1>4. DOMAIN stack'[h] = {1} /\ stack'[h][1] = f /\ Len(stack'[h]) = 1
  BY <1>1
<1>5. L \in DOMAIN heap'[h] /\ heap'[h][L] = s
  BY <1>1 DEF Added
<1>6. Placed(stack'[h])
  BY <1>3, <1>4 DEF Placed
<1>7. ToldFrame(h, f)'
  BY <1>2, <1>3, <1>5 DEF ToldFrame
<1>8. (\A k \in DOMAIN stack[h] : ToldFrame(h, stack[h][k]))'
  BY <1>4, <1>7 DEF ToldFrame
<1>9. ASSUME NEW n \in DOMAIN heap'[h] PROVE ToldSession(h, n)'
  <2>1. CASE n \in DOMAIN heap[h]
    <3>1. heap'[h][n] = heap[h][n] /\ ToldSession(h, n)
      BY <1>1, <2>1 DEF Added, ToldInv, Told
    <3>2. ~Pending(h, n, "on_disconnection") /\ ~Pending(h, n, "on_accept")
      BY <1>1 DEF Pending
    <3> QED
      BY <3>1, <3>2 DEF ToldSession, GoingOn, Over, Idle
  <2>2. CASE n = L
    <3>1. Pending(h, n, "on_accept")'
      BY <1>3, <1>4, <2>2 DEF Pending
    <3> QED
      BY <1>2, <1>5, <2>2, <3>1 DEF ToldSession, GoingOn, Over, Idle
  <2> QED
    BY <1>1, <2>1, <2>2 DEF Added
<1>10. Told(h)'
  BY <1>6, <1>8, <1>9 DEF Told
<1>11. \A g \in Hosts : g # h => heap'[g] = heap[g] /\ stack'[g] = stack[g]
  BY <1>1 DEF Added
<1> QED
  BY <1>10, <1>11, ToldElsewhere

\* A step that changes nothing of what the application was told.
LEMMA QuietTold ==
    ASSUME Shape, ToldInv, NEW h \in Hosts, NEW n, OnlyChanged(h, n),
           n \in DOMAIN heap[h] => SameTold(heap[h][n], heap'[h][n]),
           \A g \in Hosts : stack'[g] = stack[g] \/ (Calm(stack[g]) /\ Calm(stack'[g]))
    PROVE  ToldInv'
<1>1. ASSUME NEW g \in Hosts PROVE Told(g)'
  <2>1. Told(g) /\ DOMAIN heap'[g] = DOMAIN heap[g]
    BY DEF ToldInv, OnlyChanged
  <2>2. \A k \in DOMAIN heap[g] : SameTold(heap[g][k], heap'[g][k])
    BY DEF OnlyChanged, SameTold
  <2>3. \/ stack'[g] = stack[g]
        \/ \A b \in {stack[g], stack'[g]} : \A k \in DOMAIN b : b[k].c = NoCall
    BY DEF Calm
  <2> QED
    BY <2>1, <2>2, <2>3, ToldStays
<1> QED
  BY <1>1 DEF ToldInv

LEMMA SweepStepTold ==
    ASSUME Shape, ToldInv, NEW h \in Hosts, NEW late \in Lates, SweepStep(h, late)
    PROVE  ToldInv'
<1>a. PICK f : f = stack[h][1]
  OBVIOUS
<1>b. PICK n : n = tab[h][f.i]
  OBVIOUS
<1> DEFINE rest == SweepFrom(f.i + 1, f.max)
           busy == <<Sweep(f.i, f.max, TRUE)>>
<1>1. /\ stack[h] # <<>> /\ f.sweep
      /\ \/ Passed(h, f) /\ UNCHANGED heap
         \/ n \in DOMAIN heap[h] /\ Passed(h, f) /\ Deleted(h, n)
         \/ Timed(h, n, late, rest)
         \/ Timed(h, n, late, busy)
  BY <1>a, <1>b, SweepStepHandled DEF SweepLeaves
<1>2. Calm(stack[h])
  BY <1>a, <1>1, SweepAlone DEF Calm
<1>3. Calm(rest) /\ Calm(busy)
  BY SweepIsCalm
<1>4. ASSUME Passed(h, f)
      PROVE  \A g \in Hosts : stack'[g] = stack[g] \/ (Calm(stack[g]) /\ Calm(stack'[g]))
  BY <1>2, <1>3, <1>4 DEF Passed
<1> HIDE DEF rest, busy
<1>5. CASE Passed(h, f) /\ UNCHANGED heap
  <2>1. OnlyChanged(h, 0) /\ (0 \in DOMAIN heap[h] => SameTold(heap[h][0], heap'[h][0]))
    BY <1>5 DEF OnlyChanged, SameTold
  <2> QED
    BY <1>4, <1>5, <2>1, QuietTold
<1>6. CASE n \in DOMAIN heap[h] /\ Passed(h, f) /\ Deleted(h, n)
  <2>1. OnlyChanged(h, n) /\ SameTold(heap[h][n], heap'[h][n])
    BY <1>6 DEF Deleted, Alike, SameTold
  <2> QED
    BY <1>4, <1>6, <2>1, QuietTold
<1> QED
  BY <1>1, <1>2, <1>3, <1>5, <1>6, TimedTold

LEMMA ToldStep ==
    ASSUME NoClosingAtTheEnd, Shape, NamesInv, ToldInv, [Next]_vars
    PROVE  ToldInv'
<1>1. ASSUME NEW h \in Hosts, CreateSession(h) PROVE ToldInv'
  BY <1>1, CreateTold
<1>2. ASSUME NEW h \in Hosts, NEW n \in DOMAIN heap[h], ConnectSession(h, n) PROVE ToldInv'
  BY <1>2, ConnectTold
<1>3. ASSUME NEW h \in Hosts, NEW n \in DOMAIN heap[h], CloseSession(h, n) PROVE ToldInv'
  BY <1>3, CloseTold
<1>4. ASSUME NEW h \in Hosts, NEW n \in DOMAIN heap[h], SilenceElapses(h, n) PROVE ToldInv'
  <2>1. Alike(heap[h][n], heap'[h][n]) /\ OnlyChanged(h, n) /\ UNCHANGED stack
    BY <1>4, SilenceHandled
  <2>2. SameTold(heap[h][n], heap'[h][n])
    BY <2>1 DEF Alike, SameTold
  <2> QED
    BY <2>1, <2>2, QuietTold
<1>5. ASSUME NEW h \in Hosts, Return(h) PROVE ToldInv'
  BY <1>5, ReturnTold
<1>6. ASSUME NEW h \in Hosts, UNCHANGED heap,
             \A g \in Hosts : stack'[g] = stack[g] \/ (Calm(stack[g]) /\ Calm(stack'[g]))
      PROVE  ToldInv'
  <2>1. OnlyChanged(h, 0) /\ (0 \in DOMAIN heap[h] => SameTold(heap[h][0], heap'[h][0]))
    BY <1>6 DEF OnlyChanged, SameTold
  <2> QED
    BY <1>6, <2>1, QuietTold
<1>7. ASSUME NEW h \in Hosts, ChkUpdate(h) PROVE ToldInv'
  <2>1. /\ stack[h] = <<>> /\ stack'[h] = <<Sweep(0, maxIndex[h], FALSE)>>
        /\ \A g \in Hosts : g # h => stack'[g] = stack[g]
        /\ UNCHANGED heap
    BY <1>7, ChkUpdateHandled
  <2>2. Calm(stack[h])
    BY <2>1 DEF Calm
  <2>3. Calm(stack'[h])
    BY <2>1, SweepIsCalm
  <2> QED
    BY <1>6, <2>1, <2>2, <2>3
<1>8. ASSUME NEW h \in Hosts, NEW late \in Lates, SweepStep(h, late) PROVE ToldInv'
  BY <1>8, SweepStepTold
<1>9. ASSUME NEW h \in Hosts, Swept(h) PROVE ToldInv'
  <2>1. /\ stack[h] # <<>> /\ stack[h][1].sweep
        /\ stack'[h] = SweepFrom(stack[h][1].i + 1, stack[h][1].max)
        /\ \A g \in Hosts : g # h => stack'[g] = stack[g]
        /\ UNCHANGED heap
    BY <1>9, SweptHandled
  <2>2. Calm(stack[h])
    BY <2>1, SweepAlone DEF Calm
  <2>3. Calm(stack'[h])
    BY <2>1, SweepIsCalm
  <2> QED
    BY <1>6, <2>1, <2>2, <2>3
<1>10. ASSUME NEW m \in net, NEW dup \in BOOLEAN, ProcSynMsg(m.to, m, dup) PROVE ToldInv'
  <2>1. /\ m.to \in Hosts /\ m.loc \in Ids /\ m.rand \in Hosts \X Nat
        /\ \/ UNCHANGED <<heap, stack>>
           \/ \E bits \in IdBits[m.to] : Accepted(m.to, m, bits)
    BY <1>10, SynHandled DEF Repeated
  <2>2. m.rand[1] = Other(m.to) /\ Other(m.to) # m.to
    BY <1>10, <2>1, OtherHost, SynHandled DEF NamesInv, SynsNamed, Attempt
  <2> QED
    BY <1>6, <2>1, <2>2, AcceptTold
<1>11. ASSUME NEW m \in net, NEW dup \in BOOLEAN, ProcSessionMsg(m.to, m, dup) PROVE ToldInv'
  <2>1. /\ m.to \in Hosts
        /\ UNCHANGED <<heap, stack>> \/ \E n \in DOMAIN heap[m.to] : Received(m.to, n, m)
    BY <1>11, MessageHandled
  <2> QED
    BY <1>6, <2>1, MessageTold
<1>12. ASSUME UNCHANGED <<heap, stack>> PROVE ToldInv'
  <2>1. CASE Hosts = {}
    BY <2>1 DEF ToldInv
  <2>2. CASE Hosts # {}
    <3>1. PICK h : h \in Hosts
      BY <2>2
    <3> QED
      BY <1>6, <1>12, <3>1
  <2> QED
    BY <2>1, <2>2
<1>13. ASSUME NEW m \in net, Lose(m) PROVE ToldInv'
  BY <1>12, <1>13, LoseHandled
<1>14. UNCHANGED vars => ToldInv'
  BY <1>12 DEF vars
<1> QED
  BY <1>1, <1>2, <1>3, <1>4, <1>5, <1>7, <1>8, <1>9, <1>10, <1>11, <1>13, <1>14, Zenon DEF Next

LEMMA ToldAlways ==
    ASSUME NoClosingAtTheEnd
    PROVE  Spec => []ToldInv
<1>1. Init => ToldInv
  BY DEF Init, ToldInv, Told, Placed
<1>2. Shape /\ NamesInv /\ ToldInv /\ [Next]_vars => ToldInv'
  BY ToldStep
<1> QED
  BY <1>1, <1>2, ShapeAlways, NamesAlways, PTL DEF Spec

\* The application hears once that a session is up and once that it is gone,
\* and of every session it was told is up it is told when that one is closed.
THEOREM ToldOnceOfEach ==
    ASSUME NoClosingAtTheEnd
    PROVE  Spec => []ToldOnce
<1>1. Shape /\ ToldInv => ToldOnce
  <2> SUFFICES ASSUME Shape, ToldInv, NEW h \in Hosts, NEW n \in DOMAIN heap[h]
               PROVE  LET s == heap[h][n]
                      IN  /\ s.ups <= 1 /\ s.downs <= 1
                          /\ s.status = "CLOSE" /\ s.ups = 1 => s.downs = 1
    BY DEF ToldOnce
  <2> DEFINE s == heap[h][n]
  <2>1. s \in Sessions
    BY SessionType
  <2>2. ToldSession(h, n) /\ \A k \in DOMAIN stack[h] : ToldFrame(h, stack[h][k])
    BY DEF ToldInv, Told
  <2>3. /\ Pending(h, n, "on_disconnection") => s.downs = 1
        /\ Pending(h, n, "on_accept") => s.ups = 1
    BY <2>2 DEF Pending, ToldFrame
  <2>4. s.ups \in Nat /\ s.downs \in Nat /\ s.status \in Statuses
    BY <2>1 DEF Sessions
  <2>5. s.ups <= 1 /\ s.downs <= 1
    BY <2>2, <2>3, <2>4 DEF ToldSession, GoingOn, Over, Statuses
  <2> QED
    BY <2>2, <2>4, <2>5 DEF ToldSession, Over
<1> QED
  BY <1>1, ShapeAlways, ToldAlways, PTL

-----------------------------------------------------------------------------
(* A status only advances.                                                 *)

Advances == \A h \in Hosts : \A n \in DOMAIN heap[h] :
                Rank[heap[h][n].status] <= Rank[heap'[h][n].status]

LEMMA RankFacts ==
    /\ Rank["NONE"] = 0 /\ Rank["CONNECTING"] = 1 /\ Rank["NORMAL"] = 2
    /\ Rank["FIN"] = 3 /\ Rank["FIN2"] = 4 /\ Rank["CLOSE"] = 5
  BY DEF Rank

LEMMA StatusAdvances ==
    ASSUME Shape, KnownInv, ToldInv, [Next]_vars
    PROVE  Advances
<1> SUFFICES ASSUME NEW h \in Hosts, NEW n \in DOMAIN heap[h]
             PROVE  Rank[heap[h][n].status] <= Rank[heap'[h][n].status]
  BY DEF Advances
<1> DEFINE s == heap[h][n]
           t == heap'[h][n]
<1>1. Moves(h, n, s, t)
  BY SessionSteps
<1>2. s.status \in Statuses
  BY <1>1 DEF Moves, Sessions
<1> SUFFICES Rank[s.status] <= Rank[t.status]
  OBVIOUS
<1> HIDE DEF t
<1>3. CASE t.status = s.status
  BY <1>2, <1>3, RankFacts DEF Statuses
<1>4. CASE Connects(h, s, t)
  <2>1. s.status \in {"NONE", "CLOSE"}
    BY <1>4 DEF Connects, KnownInv, KnownEnd
  <2> QED
    BY <1>4, <2>1, RankFacts DEF Connects
<1>5. CASE Opens(h, s, t)
  BY <1>5, RankFacts DEF Opens
<1>6. CASE IsEnded(h, s, t)
  BY <1>2, <1>6, RankFacts DEF IsEnded, Statuses
<1>7. CASE GoesOn(h, n, s, t)
  <2>1. ToldFrame(h, stack[h][1])
    BY <1>7 DEF GoesOn, ToldInv, Told
  <2>2. CASE stack[h][1].c.call = "on_accept" /\ t.status = "NORMAL"
    BY <1>7, <2>1, <2>2, RankFacts DEF GoesOn, ToldFrame
  <2>3. CASE stack[h][1].c.call = "on_disconnection" /\ t.status \in {"FIN", "FIN2"}
    BY <1>7, <2>1, <2>3, RankFacts DEF GoesOn, ToldFrame
  <2> QED
    BY <1>7, <2>2, <2>3 DEF GoesOn
<1>8. CASE t.status = "CLOSE"
  BY <1>2, <1>8, RankFacts DEF Statuses
<1> QED
  BY <1>1, <1>3, <1>4, <1>5, <1>6, <1>7, <1>8 DEF Moves, t

\* One that the application has closed is never up again; and as long as ids
\* differ, a session's status only advances, whatever arrives late or is called
\* back meanwhile.
THEOREM StatusIsFinal ==
    ASSUME NoClosingAtTheEnd
    PROVE  Spec => CloseIsFinal
<1>1. Shape /\ ToldInv => Closed
  <2> SUFFICES ASSUME Shape, ToldInv, NEW h \in Hosts, NEW n \in DOMAIN heap[h],
                      heap[h][n].closed, stack[h] = <<>>
               PROVE  heap[h][n].status \in {"FIN", "FIN2", "CLOSE"}
    BY DEF Closed
  <2>1. ToldSession(h, n) /\ ~Pending(h, n, "on_disconnection")
    BY DEF ToldInv, Told, Pending
  <2>2. heap[h][n].status \in Statuses
    BY SessionType DEF Sessions
  <2> QED
    BY <2>1, <2>2 DEF ToldSession, GoingOn, Statuses
<1>2. Shape /\ (IdsDiffer => KnownInv) /\ ToldInv /\ [Next]_vars => [IdsDiffer => Advances]_vars
  BY StatusAdvances
<1>3. Spec => []Closed
  BY <1>1, ShapeAlways, ToldAlways, PTL
<1>4. Spec => [][IdsDiffer => Advances]_vars
  BY <1>2, ShapeAlways, KnownAlways, ToldAlways, PTL DEF Spec
<1> QED
  BY <1>3, <1>4 DEF CloseIsFinal, Advances
=============================================================================
