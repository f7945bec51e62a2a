---------------------------- MODULE SocketThread ----------------------------
(***************************************************************************)
(* Two socket threads (CSocketThread), each with its table of sessions,    *)
(* the application above each, and the datagram network between them.      *)
(*                                                                         *)
(* A thread's mutex is held by whoever runs a handler, an API call or the  *)
(* sweep.  The mutex is recursive: inside a callback the application may   *)
(* call the API again.  "stack" holds what is suspended by such callbacks, *)
(* innermost first; it is empty when nobody holds the mutex.               *)
(***************************************************************************)
EXTENDS UdpSession, SequencesExt

CONSTANTS
    Hosts,        \* the two socket threads, by their addresses
    MaxObjects,   \* bound: sessions ever created at each host
    MaxSessions,  \* m_nMaxSessionCount of each host
    IdBits,       \* what the random bits in the ids of each host may be
    Connectors,   \* the hosts whose application creates and connects sessions
    Reentry,      \* <<callback, API call>>: what applications call from callbacks
    MaxDepth,     \* bound: suspended handlers
    NetCap        \* bound: datagrams under way

ASSUME TwoHosts     == \A h \in Hosts : \E g \in Hosts : Hosts = {g, h} /\ g # h
ASSUME TableSizes   == MaxSessions \in [Hosts -> Nat] /\ MaxObjects \in [Hosts -> Nat]
ASSUME NaturalCaps  == MaxDepth \in Nat /\ NetCap \in Nat
ASSUME IdBitsAreNumbers == \A h \in Hosts : IdBits[h] \subseteq Nat
ASSUME ReentryPairs == Reentry \subseteq Calls \X {"create_session", "close_session"}

VARIABLES
    heap,      \* the session objects of each host, in the order of their creation
    tab,       \* m_pSession: table index -> number of the object, or 0 (NULL)
    maxIndex,  \* m_nMaxIndex
    stack,     \* suspended handlers and the sweep
    net        \* datagrams under way

vars == <<heap, tab, maxIndex, stack, net>>

Other(h) == CHOOSE g \in Hosts : g # h
Slots(h) == 0 .. (MaxSessions[h] - 1)
NoId     == [idx |-> 0, bits |-> 0]

\* A suspended handler of object n; the sweep, at table index i of max; "busy"
\* while procTimer of index i runs.
Frame(c, n)        == [c |-> c, obj |-> n, sweep |-> FALSE, i |-> 0, max |-> 0, busy |-> FALSE]
Sweep(i, max, busy) == [c |-> NoCall, obj |-> 0, sweep |-> TRUE, i |-> i, max |-> max, busy |-> busy]
Frames(c, n)       == IF c = NoCall THEN <<>> ELSE <<Frame(c, n)>>
SweepFrom(i, max)  == IF i = max THEN <<>> ELSE <<Sweep(i, max, FALSE)>>

\* Sendto ignores errors: a full socket buffer drops the datagram.
Transmit(left, msgs) ==
    net' = IF Cardinality(left \cup msgs) <= NetCap THEN left \cup msgs ELSE left

\* The datagram of type t that session s of host h sends.  Only SYN and SYN2
\* carry nLocalSessionId; a SYN has m_nRand where others name the session.
Datagram(h, s, t) ==
    CASE t = "syn"  -> [type |-> t, to |-> Other(h), rand |-> s.rand, loc |-> s.id]
      [] t = "syn2" -> [type |-> t, to |-> Other(h), dest |-> s.dest, loc |-> s.id, err |-> FALSE]
      [] OTHER      -> [type |-> t, to |-> Other(h), dest |-> s.dest]

Out(h, e) == {Datagram(h, e.s, t) : t \in e.out}

\* Handler effect e on object n of host h, above the frames "below".
Apply(h, n, e, below, left) ==
    /\ heap' = [heap EXCEPT ![h][n] = e.s]
    /\ stack' = [stack EXCEPT ![h] = Frames(e.c, n) \o below]
    /\ Len(stack'[h]) <= MaxDepth
    /\ Transmit(left, Out(h, e))

\* An API call finds the mutex free, or is made from the running callback.
MayCall(h, api) ==
    \/ stack[h] = <<>>
    \/ stack[h] # <<>> /\ <<stack[h][1].c.call, api>> \in Reentry

-----------------------------------------------------------------------------
(* The session table.                                                      *)

FreeSlots(h) == {i \in 0 .. (maxIndex[h] - 1) : tab[h][i] = 0}

\* addUdpSession: the first free slot below m_nMaxIndex, or the one at it.
Slot(h) == IF FreeSlots(h) # {} THEN CHOOSE i \in FreeSlots(h) : \A j \in FreeSlots(h) : i <= j
                                ELSE maxIndex[h]

CanAdd(h) == Slot(h) < MaxSessions[h]

\* SESSIONID_FROM_THREAD_INDEX: the table index and some bits of a random number.  Nothing
\* looks whether an earlier session at that index had the same bits, or whether all are 0.
NewId(h, bits) == [idx |-> Slot(h), bits |-> bits]

\* The table with a new object in it.
AddUdpSession(h) ==
    /\ CanAdd(h)
    /\ Len(heap[h]) < MaxObjects[h]
    /\ tab' = [tab EXCEPT ![h][Slot(h)] = Len(heap[h]) + 1]
    /\ maxIndex' = [maxIndex EXCEPT ![h] = IF Slot(h) = @ THEN @ + 1 ELSE @]

Listed(h, n) == \E i \in Slots(h) : tab[h][i] = n

\* Mutant: the bits are not compared.
FindByIndex(h, id) ==
    IF id.idx \in Slots(h) /\ tab[h][id.idx] # 0 THEN tab[h][id.idx] ELSE 0

\* getUdpSessionfromSessionId: 0 when no session has the id.
Find(h, id) ==
    IF id.idx \in Slots(h) /\ tab[h][id.idx] # 0 /\ heap[h][tab[h][id.idx]].id = id
    THEN tab[h][id.idx] ELSE 0

\* Mutant: a repeated SYN is not recognized.
ChkSynSessionNone(h, m) == {}

\* chkSynSession: the sessions below m_nMaxIndex that SYN m has created.
ChkSynSession(h, m) ==
    {i \in 0 .. (maxIndex[h] - 1) :
        /\ tab[h][i] # 0
        /\ heap[h][tab[h][i]].rand = m.rand
        /\ heap[h][tab[h][i]].dest = m.loc}

-----------------------------------------------------------------------------
Init ==
    /\ heap = [h \in Hosts |-> <<>>]
    /\ tab = [h \in Hosts |-> [i \in Slots(h) |-> 0]]
    /\ maxIndex = [h \in Hosts |-> 0]
    /\ stack = [h \in Hosts |-> <<>>]
    /\ net = {}

\* create_session, createUdpSession.  m_nRand is modelled as unique.
CreateSession(h) ==
    /\ h \in Connectors
    /\ MayCall(h, "create_session")
    /\ AddUdpSession(h)
    /\ \E bits \in IdBits[h] :
         heap' = [heap EXCEPT ![h] = Append(@, NewSession(NewId(h, bits), NoId, <<h, Len(@) + 1>>))]
    /\ UNCHANGED <<stack, net>>

\* connect.  (Bound: the application connects each session it created once.)
ConnectSession(h, n) ==
    /\ stack[h] = <<>>
    /\ Listed(h, n)
    /\ heap[h][n].rand[1] = h
    /\ ~heap[h][n].asked
    /\ Apply(h, n, Connect(heap[h][n]), <<>>, net)
    /\ UNCHANGED <<tab, maxIndex>>

\* close_session on a session that is up or connecting; it ignores others.
CloseSession(h, n) ==
    LET s == heap[h][n]
    IN  /\ MayCall(h, "close_session")
        /\ Listed(h, n)
        /\ s.status \in {"CONNECTING", "NORMAL"}
        /\ Apply(h, n, Disconnect([s EXCEPT !.closed = TRUE], "FIN"), stack[h], net)
        /\ UNCHANGED <<tab, maxIndex>>

\* The callback returns, and the handler it interrupted goes on.
Return(h) ==
    /\ stack[h] # <<>> /\ ~stack[h][1].sweep
    /\ LET f == stack[h][1]
       IN  Apply(h, f.obj, Resume(heap[h][f.obj], f.c.then), Tail(stack[h]), net)
    /\ UNCHANGED <<tab, maxIndex>>

\* What a handler that takes datagram m leaves on the network.
Left(m, dup) == IF dup THEN net ELSE net \ {m}

\* procSynMsg: answer a repeated SYN, accept a new one, or refuse it.  The
\* refusal goes to m_sockAddrRemote of an object that has none: nowhere.
ProcSynMsg(h, m, dup) ==
    /\ stack[h] = <<>>
    /\ m.type = "syn"
    /\ \/ /\ ChkSynSession(h, m) # {}
          /\ LET i == CHOOSE i \in ChkSynSession(h, m) : \A j \in ChkSynSession(h, m) : i <= j
             IN  Transmit(Left(m, dup), {Datagram(h, heap[h][tab[h][i]], "syn2")})
          /\ UNCHANGED <<heap, tab, maxIndex, stack>>
       \/ /\ ChkSynSession(h, m) = {}
          /\ AddUdpSession(h)
          /\ \E bits \in IdBits[h] :
               LET e == OnAccept(NewSession(NewId(h, bits), m.loc, m.rand))
               IN  /\ heap' = [heap EXCEPT ![h] = Append(@, e.s)]
                   /\ stack' = [stack EXCEPT ![h] = <<Frame(e.c, Len(heap[h]) + 1)>>]
                   /\ Transmit(Left(m, dup), Out(h, e))
       \/ /\ ChkSynSession(h, m) = {}
          /\ ~CanAdd(h)
          /\ Transmit(Left(m, dup), {})
          /\ UNCHANGED <<heap, tab, maxIndex, stack>>

\* procUdpMsg for a datagram that names a session by its id.
ProcSessionMsg(h, m, dup) ==
    LET n == Find(h, m.dest)
    IN  /\ stack[h] = <<>>
        /\ m.type # "syn"
        /\ \/ /\ n # 0
              /\ Apply(h, n, ProcUdpMsg(heap[h][n], m), <<>>, Left(m, dup))
           \/ /\ n = 0
              /\ Transmit(Left(m, dup), {})
              /\ UNCHANGED <<heap, stack>>
        /\ UNCHANGED <<tab, maxIndex>>

\* chkUpdate starts: m_nMaxIndex is set to 0 and counted up again.
ChkUpdate(h) ==
    /\ stack[h] = <<>>
    /\ maxIndex[h] > 0
    /\ stack' = [stack EXCEPT ![h] = <<Sweep(0, maxIndex[h], FALSE)>>]
    /\ maxIndex' = [maxIndex EXCEPT ![h] = 0]
    /\ UNCHANGED <<heap, tab, net>>

Sweeping(h, busy) == stack[h] # <<>> /\ stack[h][1].sweep /\ stack[h][1].busy = busy

\* Mutant: m_nMaxIndex is the index of the last session, not one more.
CountedLast(i) == i

\* Mutant: m_nMaxIndex is counted up once too often.
CountedPast(i) == i + 2

\* m_nMaxIndex after the sweep found session i open.
Counted(i) == i + 1

\* One step of chkUpdate: an empty slot, a closed session, or procTimer, which
\* returns at once or is in a callback ("busy").
SweepStep(h, late) ==
    LET f == stack[h][1]
        n == tab[h][f.i]
        e == ProcTimer(heap[h][n], late)
    IN  /\ Sweeping(h, FALSE)
        /\ \/ /\ n = 0
              /\ stack' = [stack EXCEPT ![h] = SweepFrom(f.i + 1, f.max)]
              /\ UNCHANGED <<heap, tab, maxIndex, net>>
           \/ /\ n # 0 /\ heap[h][n].status = "CLOSE"
              /\ heap' = [heap EXCEPT ![h][n].alive = FALSE]
              /\ tab' = [tab EXCEPT ![h][f.i] = 0]
              /\ stack' = [stack EXCEPT ![h] = SweepFrom(f.i + 1, f.max)]
              /\ UNCHANGED <<maxIndex, net>>
           \/ /\ n # 0 /\ heap[h][n].status # "CLOSE" /\ e.c = NoCall
              /\ Apply(h, n, e, SweepFrom(f.i + 1, f.max), net)
              /\ maxIndex' = [maxIndex EXCEPT ![h] = Counted(f.i)]
              /\ UNCHANGED tab
           \/ /\ n # 0 /\ heap[h][n].status # "CLOSE" /\ e.c # NoCall
              /\ Apply(h, n, e, <<Sweep(f.i, f.max, TRUE)>>, net)
              /\ UNCHANGED <<tab, maxIndex>>

\* The callback of procTimer has returned, and the sweep goes on.
Swept(h) ==
    LET f == stack[h][1]
    IN  /\ Sweeping(h, TRUE)
        /\ stack' = [stack EXCEPT ![h] = SweepFrom(f.i + 1, f.max)]
        /\ maxIndex' = [maxIndex EXCEPT ![h] = Counted(f.i)]
        /\ UNCHANGED <<heap, tab, net>>

\* No keepalive was answered for SESSION_TIMEOUT_TIME.
SilenceElapses(h, n) ==
    /\ heap[h][n].status = "NORMAL" /\ heap[h][n].alive /\ ~heap[h][n].silent
    /\ heap' = [heap EXCEPT ![h][n].silent = TRUE]
    /\ UNCHANGED <<tab, maxIndex, stack, net>>

\* The network drops a datagram.
Lose(m) ==
    /\ net' = net \ {m}
    /\ UNCHANGED <<heap, tab, maxIndex, stack>>

Next ==
    \/ \E h \in Hosts :
         \/ CreateSession(h)
         \/ \E n \in DOMAIN heap[h] :
              ConnectSession(h, n) \/ CloseSession(h, n) \/ SilenceElapses(h, n)
         \/ Return(h)
         \/ ChkUpdate(h)
         \/ \E late \in Lates : SweepStep(h, late)
         \/ Swept(h)
    \/ \E m \in net :
         \/ \E dup \in BOOLEAN : ProcSynMsg(m.to, m, dup) \/ ProcSessionMsg(m.to, m, dup)
         \/ Lose(m)

Spec == Init /\ [][Next]_vars

\* The other end of session n of host h: the object both named.
Partner(h, n) ==
    {k \in DOMAIN heap[Other(h)] :
        /\ heap[Other(h)][k].rand = heap[h][n].rand
        /\ heap[Other(h)][k].id = heap[h][n].dest}

PartnerAnswers(h, n) == \E k \in Partner(h, n) : heap[Other(h)][k].alive

\* A sweep finds object n overdue.
OverdueStep(h, n) ==
    /\ stack[h] # <<>> /\ stack[h][1].sweep
    /\ stack[h][1].i \in Slots(h) /\ tab[h][stack[h][1].i] = n
    /\ SweepStep(h, "over")

\* The threads run for ever: handlers return, sweeps start and finish, and a
\* status that lasts is found overdue in the end.  Silence is certain only
\* once the other end is gone and answers no keepalive.
Fairness ==
    \A h \in Hosts :
        /\ SF_vars(ChkUpdate(h))
        /\ WF_vars(Return(h) \/ Swept(h) \/ \E late \in Lates : SweepStep(h, late))
        /\ WF_vars(\E m \in net : m.to = h /\ m.type = "keepalive_ack" /\ Lose(m))
        /\ \A n \in 1 .. MaxObjects[h] :
             /\ SF_vars(OverdueStep(h, n))
             /\ WF_vars(/\ n \in DOMAIN heap[h]
                        /\ ~PartnerAnswers(h, n)
                        /\ SilenceElapses(h, n))

FairSpec == Spec /\ Fairness

-----------------------------------------------------------------------------
(* Properties.                                                             *)

Ids      == [idx : Nat, bits : Nat]
Sessions ==
    [id : Ids, dest : Ids, rand : Hosts \X Nat, status : Statuses, silent : BOOLEAN,
     alive : BOOLEAN, asked : BOOLEAN, closed : BOOLEAN, ups : Nat, downs : Nat, errs : Nat]

\* The state has the shape of the C++ members, and a table entry is an object.
TypeOK ==
    /\ \A h \in Hosts : \A n \in DOMAIN heap[h] : heap[h][n] \in Sessions
    /\ \A h \in Hosts : \A i \in Slots(h) : tab[h][i] \in {0} \cup DOMAIN heap[h]
    /\ \A h \in Hosts : maxIndex[h] \in 0 .. MaxSessions[h]
    /\ \A h \in Hosts : \A k \in DOMAIN stack[h] :
         stack[h][k].c.call \in Calls \cup {"none"} /\ stack[h][k].c.then \in Thens
    /\ Cardinality(net) <= NetCap

\* The table holds exactly the sessions that exist, each at the index its id
\* says and below m_nMaxIndex, where the sweep and chkSynSession look: no
\* session is lost to its timers (addUdpSession, chkUpdate).
TableSound ==
    \A h \in Hosts :
        /\ \A i \in Slots(h) : tab[h][i] # 0 =>
              /\ heap[h][tab[h][i]].alive
              /\ heap[h][tab[h][i]].id.idx = i
              /\ stack[h] = <<>> => i < maxIndex[h]
        /\ \A n \in DOMAIN heap[h] : heap[h][n].alive => Listed(h, n)

\* No other session that the host ever had has the id of this one.  The code does not see to
\* it: chance does.
OwnId(h, n) == \A k \in DOMAIN heap[h] : heap[h][k].id = heap[h][n].id => k = n

\* So it is for every session, and none has the id that stands for no session.
IdsDiffer == \A h \in Hosts : \A n \in DOMAIN heap[h] : OwnId(h, n) /\ heap[h][n].id # NoId

\* The application hears once that a session is up and once that it is gone,
\* and of every session it was told is up it is told when that one is closed.
ToldOnce ==
    \A h \in Hosts : \A n \in DOMAIN heap[h] :
        LET s == heap[h][n]
        IN  /\ s.ups <= 1 /\ s.downs <= 1
            /\ s.status = "CLOSE" /\ s.ups = 1 => s.downs = 1

\* An ended session the application had asked to connect was reported to it,
\* as gone or as failed.
ConnectIsAnswered ==
    \A h \in Hosts : \A n \in DOMAIN heap[h] :
        LET s == heap[h][n]
        IN  s.asked /\ s.status = "CLOSE" => s.downs + s.errs > 0

\* After close_session a session is never up again.
Closed ==
    \A h \in Hosts : \A n \in DOMAIN heap[h] :
        heap[h][n].closed /\ stack[h] = <<>> => heap[h][n].status \in {"FIN", "FIN2", "CLOSE"}

\* However often a SYN is repeated, one attempt to connect has one session at
\* the accepting host (chkSynSession).
NoTwins ==
    \A h \in Hosts : \A k, n \in DOMAIN heap[h] :
        heap[h][k].alive /\ heap[h][n].alive /\ heap[h][k].rand = heap[h][n].rand => k = n

\* Who is told that its connection is up sends to a session that the other host accepted,
\* that sends to it, and whose application was told so as well.  It is one made for this very
\* attempt, and not one that an earlier session at the same table index had, unless that
\* earlier session had the very same id.
ConnectedIsAccepted ==
    \A h \in Hosts : \A n \in DOMAIN heap[h] :
        LET s == heap[h][n]
        IN  s.rand[1] = h /\ s.ups > 0 =>
                \E k \in DOMAIN heap[Other(h)] :
                    LET o == heap[Other(h)][k]
                    IN  /\ o.id = s.dest /\ o.dest = s.id /\ o.ups = 1
                        /\ OwnId(h, n) => o.rand = s.rand

\* As long as ids differ, a session that was up is ended by the other side only
\* if the other side disconnected.  (Set aside: a second session that a delayed SYN made for the
\* same attempt after the first was deleted.)
GoneForAReason ==
    IdsDiffer => \A h \in Hosts : \A n \in DOMAIN heap[h] :
        LET s == heap[h][n]
        IN  s.ups > 0 /\ s.status = "FIN2" =>
                \/ \E k \in Partner(h, n) : heap[Other(h)][k].downs > 0
                \/ \E j, k \in DOMAIN heap[Other(h)] :
                      j # k /\ heap[Other(h)][j].rand = s.rand /\ heap[Other(h)][k].rand = s.rand

Rank == [NONE |-> 0, CONNECTING |-> 1, NORMAL |-> 2, FIN |-> 3, FIN2 |-> 4, CLOSE |-> 5]

\* One that the application has closed is never up again; and as long as ids
\* differ, a session's status only advances, whatever arrives late or is called
\* back meanwhile.
CloseIsFinal ==
    /\ []Closed
    /\ [][IdsDiffer => \A h \in Hosts : \A n \in DOMAIN heap[h] :
         Rank[heap[h][n].status] <= Rank[heap'[h][n].status]]_vars

\* A session that connects, is closed, or whose other end is gone does not stay so: it finds
\* an other end that answers, or it is deleted, without any datagram that has to arrive.
SessionsEnd ==
    \A h \in Hosts : \A n \in 1 .. MaxObjects[h] :
        LET Unsettled ==
              /\ n \in DOMAIN heap[h] /\ heap[h][n].alive
              /\ \/ heap[h][n].status \in {"CONNECTING", "FIN", "FIN2", "CLOSE"}
                 \/ heap[h][n].status = "NORMAL" /\ ~PartnerAnswers(h, n)
        IN  Unsettled ~> ~Unsettled
=============================================================================
