----------------------------- MODULE RudpChannel -----------------------------
(***************************************************************************)
(* The data plane of one established RUDP session: the send buffer         *)
(* (CRudpPushSendBuf) and the receive buffer (CRudpPushRecvBuf) of its two *)
(* ends, and the datagram network between them.                            *)
(*                                                                         *)
(* Both ends are in SESSION_STATUS_NORMAL.  Every handler of an end runs   *)
(* under that end's socket-thread mutex, so a handler is one action.       *)
(*                                                                         *)
(* Data is abstracted to fragment numbers: fragment q of an end is the     *)
(* q-th CSendDataNode it created, so byte counts become fragment counts.   *)
(* Time is abstracted to two flags per end: "quiet" (no new fragment left  *)
(* for one SynTime) and "ready" (no repair was requested for one Rtt).     *)
(***************************************************************************)
EXTENDS Integers, FiniteSets, SequencesExt

CONSTANTS
    A, B,          \* the two ends of the session
    MaxSeq,        \* bound: how many fragments each end creates
    MaxFragments,  \* bound: fragments per message (20 in the code: 20480 / 1024)
    Windows,       \* the window sizes the CRateCtrl of each end may take
    ReorderLimit,  \* how far ahead of the last in-order fragment one is accepted (512)
    AckEvery,      \* in-order fragments left unacknowledged (5)
    RepairCaps,    \* repair requests per burst, by ping (10, 20 or 40)
    UrgentPeers,   \* the ends whose application may switch the urgent mode on
    NetCap         \* bound: datagrams under way at once

Peers == {A, B}

ASSUME PeersDiffer  == A # B
ASSUME BoundsAreNat == MaxSeq \in [Peers -> Nat] /\ MaxFragments \in Nat /\ NetCap \in Nat
ASSUME LimitsAreNat == /\ Windows \in [Peers -> SUBSET Nat] /\ RepairCaps \subseteq Nat
                       /\ ReorderLimit \in Nat /\ AckEvery \in Nat

VARIABLES
    snd,      \* the send buffer of each end
    rcv,      \* the receive buffer of each end
    app,      \* what each end's receive buffer assembled and handed to on_rudp_recv
    written,  \* the messages each application sent (history)
    window,   \* m_RateCtrl.getWindowSize() of each end
    net       \* the datagrams under way

vars == <<snd, rcv, app, written, window, net>>

Other(p) == IF p = A THEN B ELSE A

-----------------------------------------------------------------------------
(* Datagrams.  "src" stands for the address and session id that route one. *)

DataMsg(p, q, pkt, ack) == [type |-> "data", src |-> p, seq |-> q, pkt |-> pkt, ack |-> ack]
CtlMsg(t, p, q) == [type |-> t, src |-> p, seq |-> q]

DatagramWith(Seqs) ==
    [type : {"data"}, src : Peers, seq : Seqs, pkt : BOOLEAN, ack : Seqs]
    \cup [type : {"ack", "ack2", "repair", "syn"}, src : Peers, seq : Seqs]

\* Sendto ignores errors: what does not fit into a full socket buffer is gone.
Transmit(left, msgs) ==
    \E kept \in SUBSET msgs :
        /\ Cardinality(left \cup kept) <= NetCap
        /\ msgs \subseteq left \cup kept \/ Cardinality(left \cup kept) = NetCap
        /\ net' = left \cup kept

\* What a handler that takes datagram m leaves on the network.
Left(m, duplicated) == IF duplicated THEN net ELSE net \ {m}

-----------------------------------------------------------------------------
(* The send buffer.                                                        *)

NewSendBuf ==
    [bufSeq   |-> 1,       \* m_nBufSeqId: the next fragment number
     head     |-> 1,       \* number of m_pHead; the queue is head .. bufSeq - 1
     sent     |-> {},      \* queued fragments with m_nSendCount > 0
     held     |-> {},      \* queued fragments with recv_flag_
     flagged  |-> {},      \* fragments created with packet_flag_
     maxSend  |-> 0,       \* m_nMaxSendSeqId
     wait     |-> 0,       \* m_nWaitSize, in fragments
     sending  |-> 0,       \* m_nSendingCount
     timer    |-> FALSE,   \* timerflag_
     quiet    |-> FALSE,   \* last_send_data_time_ + getSynTime() < now
     urgent   |-> FALSE,   \* m_send_urgent_flag
     notified |-> {}]      \* callback ids passed to on_rudp_send

Queue(s)   == s.head .. (s.bufSeq - 1)
Waiting(s) == Queue(s) \ s.sent
\* Mutant: canSend lets one fragment too many out.
RoomForOneMore(s, w) == IF s.sending <= w THEN w + 1 - s.sending ELSE 0

Room(s, w) == IF s.sending < w THEN w - s.sending ELSE 0

\* sendNode for each fragment of N; in urgent mode its datagrams also carry
\* the fragments G, up to three each, that are small and not recently sent.
SendNode(s, N, G) ==
    [s EXCEPT !.sent    = @ \cup N \cup G,
              !.wait    = @ - Cardinality(N \ s.sent),
              !.sending = @ + Cardinality(N \ s.sent),
              !.maxSend = Max(N \cup {@}),
              !.quiet   = @ /\ N \subseteq s.sent]

Piggyback(s, N, G) ==
    G # {} => /\ s.urgent
              /\ G \cap N = {}
              /\ Cardinality(G) <= 3 * Cardinality(N)

\* The fragments sendNodeAll picks while the window has room: waiting ones in
\* queue order, passing over those an earlier datagram of the walk carried.
\* (Its early return never happens: m_nMaxSendSeqId stays below m_nBufSeqId.)
SendNodeAll(s, w, N, G) ==
    /\ N \subseteq Waiting(s)
    /\ G \subseteq Queue(s)
    /\ Piggyback(s, N, G)
    /\ \A g \in G \ s.sent : \E n \in N : n < g
    /\ \A n \in N : \A q \in Waiting(s) : q < n => q \in N \cup G
    /\ Cardinality(N) <= Room(s, w)
    /\ Cardinality(N) = Room(s, w) \/ Waiting(s) \subseteq N \cup G

\* Mutant: the loop of onDataAck takes one fragment too many.
AckedOneMore(s, a) == IF a > s.maxSend THEN {} ELSE {q \in Queue(s) : q <= a + 1}

\* onDataAck and onDataAck2 up to the call of sendNodeAll.
Acked(s, a) == IF a > s.maxSend THEN {} ELSE {q \in Queue(s) : q <= a}

\* Mutant: fragments with recv_flag_ are taken off m_nSendingCount again.
OnDataAckCountsTwice(s, a) ==
    [s EXCEPT !.head     = IF Acked(s, a) = {} THEN @ ELSE a + 1,
              !.sent     = @ \ Acked(s, a),
              !.held     = @ \ Acked(s, a),
              !.sending  = @ - Cardinality(Acked(s, a)),
              !.notified = @ \cup (Acked(s, a) \cap s.flagged)]

OnDataAck(s, a) ==
    [s EXCEPT !.head     = IF Acked(s, a) = {} THEN @ ELSE a + 1,
              !.sent     = @ \ Acked(s, a),
              !.held     = @ \ Acked(s, a),
              !.sending  = @ - Cardinality(Acked(s, a) \ s.held),
              !.notified = @ \cup (Acked(s, a) \cap s.flagged)]

OnDataAck2(s, a) ==
    IF a > s.maxSend \/ a \notin Queue(s) \/ a \in s.held THEN s
    ELSE [s EXCEPT !.held = @ \cup {a}, !.sending = @ - 1]

\* Mutant: data acknowledges the highest fragment received.
DataOfHighest(p, s, F) ==
    {DataMsg(p, q, q \in s.flagged, Max({rcv[p].first} \cup {x.seq : x \in rcv[p].ahead})) : q \in F}

\* The datagrams that carry the fragments F of end p.
DataOf(p, s, F) == {DataMsg(p, q, q \in s.flagged, rcv[p].first) : q \in F}

-----------------------------------------------------------------------------
(* The receive buffer.                                                     *)

NewRecvBuf ==
    [first   |-> 0,        \* m_nFirstSeqId: last fragment received in order
     ahead   |-> {},       \* the sorted list m_pHead: fragments beyond a gap
     destMax |-> 0,        \* dest_send_max_id_
     lastAck |-> 0,        \* last_ack_seq_id_
     ready   |-> FALSE]    \* now >= m_nSendRepairTime + getRtt()

AheadSeqs(r) == {x.seq : x \in r.ahead}
Got(r)       == (1 .. r.first) \cup AheadSeqs(r)

\* getAckId, when a datagram with data leaves.
GetAckId(r, F) == IF F = {} THEN r ELSE [r EXCEPT !.lastAck = r.first]

\* Mutant: recv_buffer keeps its bytes when a message was handed up.
ProcSeqDataKeeps(a, x) ==
    IF x.pkt THEN [a EXCEPT !.partial   = Append(@, x.seq),
                            !.delivered = Append(@, Append(a.partial, x.seq))]
             ELSE [a EXCEPT !.partial = Append(@, x.seq)]

\* procSeqData: the last fragment of a message hands the whole message up.
ProcSeqData(a, x) ==
    IF x.pkt THEN [partial   |-> <<>>,
                   delivered |-> Append(a.delivered, Append(a.partial, x.seq))]
             ELSE [a EXCEPT !.partial = Append(@, x.seq)]

\* Mutant: callbackRecvData is not called.
EndOfRunAtOnce(r, q) == q

\* The last fragment of the run without gaps that starts with fragment q.
EndOfRun(r, q) == Min((q .. q + ReorderLimit) \ {i - 1 : i \in AheadSeqs(r)})

\* Mutants: the list is emptied, with or without a jump over its gaps.
InOrderDropsList(r, x) == [r EXCEPT !.first = EndOfRun(r, x.seq), !.ahead = {}]
InOrderJumps(r, x)     == [r EXCEPT !.first = Max({x.seq} \cup AheadSeqs(r)), !.ahead = {}]

\* procSeqData and callbackRecvData for fragment x = first + 1.
InOrder(r, x) ==
    [r EXCEPT !.first = EndOfRun(r, x.seq),
              !.ahead = {y \in @ : y.seq > EndOfRun(r, x.seq)}]

\* Fragment q of the run: the one that arrived, or the one on the list.
FragmentOf(r, x, q) == IF q = x.seq THEN x ELSE CHOOSE y \in r.ahead : y.seq = q

\* The run's fragments are assembled one after the other.
Assemble(r, a, x) ==
    LET after[q \in x.seq - 1 .. EndOfRun(r, x.seq)] ==
          IF q < x.seq THEN a ELSE ProcSeqData(after[q - 1], FragmentOf(r, x, q))
    IN  after[EndOfRun(r, x.seq)]

\* Mutant: what is on the list is asked for again.
MissingWithList(r) ==
    IF r.ahead = {} THEN (r.first + 1) .. r.destMax
                    ELSE (r.first + 1) .. Max(AheadSeqs(r))

\* procRepairData asks for the first "cap" fragments it misses, once per Rtt.
Missing(r) ==
    IF r.ahead = {} THEN (r.first + 1) .. r.destMax
                    ELSE ((r.first + 1) .. Max(AheadSeqs(r))) \ AheadSeqs(r)

Repairs(r, cap) ==
    IF r.ready THEN {q \in Missing(r) : Cardinality({i \in Missing(r) : i < q}) < cap}
               ELSE {}

AfterRepairs(r, cap) == [r EXCEPT !.ready = @ /\ Repairs(r, cap) = {}]

\* addRecvData of a fragment: taken in order, put on the list, or ignored.
IsNext(r, q)  == q = r.first + 1
IsAhead(r, q) == q > r.first + 1 /\ q <= r.first + ReorderLimit /\ q \notin AheadSeqs(r)
IsSeen(r, q)  == q \in AheadSeqs(r) /\ q <= r.first + ReorderLimit
AckDue(r)     == r.first > r.lastAck + AckEvery

Known(r, q)   == IsNext(r, q) \/ IsAhead(r, q) \/ IsSeen(r, q)

AfterAck(r) == IF AckDue(r) THEN [r EXCEPT !.lastAck = r.first] ELSE r
AckIfDue(p, r) == IF AckDue(r) THEN {CtlMsg("ack", p, r.first)} ELSE {}

\* addRecvNode
Put(r, x) == [r EXCEPT !.ahead = @ \cup {x}]

Taken(r, x, cap) ==
    CASE IsNext(r, x.seq)  -> InOrder(r, x)
      [] IsAhead(r, x.seq) -> AfterRepairs(Put(r, x), cap)
      [] OTHER             -> r

\* What addRecvData does to the receive buffer of end p, and what it sends.
AddRecvData(r, x, cap) ==
    IF Known(r, x.seq) THEN AfterAck(Taken(r, x, cap)) ELSE r

Replies(p, r, x, cap) ==
    (IF IsAhead(r, x.seq)
     THEN {CtlMsg("repair", p, q) : q \in Repairs(Put(r, x), cap)} \cup {CtlMsg("ack2", p, x.seq)}
     ELSE {})
    \cup IF Known(r, x.seq) THEN AckIfDue(p, Taken(r, x, cap)) ELSE {}

-----------------------------------------------------------------------------
Init ==
    /\ snd = [p \in Peers |-> NewSendBuf]
    /\ rcv = [p \in Peers |-> NewRecvBuf]
    /\ app = [p \in Peers |-> [partial |-> <<>>, delivered |-> <<>>]]
    /\ written = [p \in Peers |-> <<>>]
    /\ window \in [Peers -> UNION {Windows[p] : p \in Peers}]
    /\ \A p \in Peers : window[p] \in Windows[p]
    /\ net = {}

\* sendDataDirect with a message of k fragments: k times addSendNode.  The
\* timer compares a fresh clock with the thread's cached one, so on a late
\* thread ("late") it announces at once what was sent by the first fragment.
SendData(p, k) ==
    LET s  == snd[p]
        b  == s.bufSeq
        s1 == [s EXCEPT !.bufSeq  = b + k,
                        !.wait    = @ + k,
                        !.flagged = @ \cup {b + k - 1}]
        N  == {q \in b .. (b + k - 1) : q < b + Room(s, window[p])}
    IN  /\ b + k <= MaxSeq[p] + 1
        /\ \E G \in SUBSET Queue(s), late \in BOOLEAN :
             /\ Piggyback(s, N, G)
             /\ late => ~s.timer
             /\ snd' = [snd EXCEPT ![p] = [SendNode(s1, N, G) EXCEPT !.timer = TRUE]]
             /\ Transmit(net, DataOf(p, s1, N \cup G) \cup
                    IF late THEN {CtlMsg("syn", p, IF N = {} THEN s.maxSend ELSE b)} ELSE {})
             /\ rcv' = [rcv EXCEPT ![p] = GetAckId(@, N)]
        /\ written' = [written EXCEPT ![p] = Append(@, [i \in 1 .. k |-> b + i - 1])]
        /\ UNCHANGED <<app, window>>

\* procRudpAckMsg
RecvAck(p, m, dup) ==
    LET s == OnDataAck(snd[p], m.seq)
    IN  /\ m.type = "ack"
        /\ \E N \in SUBSET Queue(s), G \in SUBSET Queue(s) :
             /\ IF m.seq <= s.maxSend THEN SendNodeAll(s, window[p], N, G)
                                      ELSE N = {} /\ G = {}
             /\ snd' = [snd EXCEPT ![p] = SendNode(s, N, G)]
             /\ rcv' = [rcv EXCEPT ![p] = GetAckId(@, N)]
             /\ Transmit(Left(m, dup), DataOf(p, s, N \cup G))
        /\ UNCHANGED <<app, written, window>>

\* Mutant: onDataAck2 opens the window and does not call sendNodeAll.
RecvAck2Only(p, m, dup) ==
    /\ m.type = "ack2"
    /\ snd' = [snd EXCEPT ![p] = OnDataAck2(@, m.seq)]
    /\ Transmit(Left(m, dup), {})
    /\ UNCHANGED <<rcv, app, written, window>>

\* procRudpAck2Msg
RecvAck2(p, m, dup) ==
    LET s == OnDataAck2(snd[p], m.seq)
    IN  /\ m.type = "ack2"
        /\ \E N \in SUBSET Queue(s), G \in SUBSET Queue(s) :
             /\ IF m.seq <= s.maxSend /\ m.seq \in Queue(s)
                THEN SendNodeAll(s, window[p], N, G) ELSE N = {} /\ G = {}
             /\ snd' = [snd EXCEPT ![p] = SendNode(s, N, G)]
             /\ rcv' = [rcv EXCEPT ![p] = GetAckId(@, N)]
             /\ Transmit(Left(m, dup), DataOf(p, s, N \cup G))
        /\ UNCHANGED <<app, written, window>>

\* procRudpRepairMsg, onDataRepair: resend the fragment, whatever the window
\* says, or announce the last fragment there is.
RecvRepair(p, m, dup) ==
    LET s == snd[p]
        N == {m.seq} \cap Queue(s)
    IN  /\ m.type = "repair"
        /\ \E G \in SUBSET Queue(s) :
             /\ Piggyback(s, N, G)
             /\ snd' = [snd EXCEPT ![p] = SendNode(s, N, G)]
             /\ rcv' = [rcv EXCEPT ![p] = GetAckId(@, N)]
             /\ Transmit(Left(m, dup), DataOf(p, s, N \cup G) \cup
                    IF m.seq >= s.bufSeq THEN {CtlMsg("syn", p, s.bufSeq - 1)} ELSE {})
        /\ UNCHANGED <<app, written, window>>

\* procRudpSynMsg, onDataSyn: acknowledge, or ask for what is missing.
RecvSyn(p, m, dup) ==
    LET r == [rcv[p] EXCEPT !.destMax = m.seq]
    IN  /\ m.type = "syn"
        /\ \E cap \in RepairCaps :
             IF m.seq = r.first
             THEN /\ rcv' = [rcv EXCEPT ![p] = [r EXCEPT !.lastAck = r.first]]
                  /\ Transmit(Left(m, dup), {CtlMsg("ack", p, r.first)})
             ELSE /\ rcv' = [rcv EXCEPT ![p] = AfterRepairs(r, cap)]
                  /\ Transmit(Left(m, dup), {CtlMsg("repair", p, q) : q \in Repairs(r, cap)})
        /\ UNCHANGED <<snd, app, written, window>>

\* procRudpDataMsg: the acknowledgement the datagram carries, then addRecvData.
RecvData(p, m, dup) ==
    LET s == OnDataAck(snd[p], m.ack)
        x == [seq |-> m.seq, pkt |-> m.pkt]
    IN  /\ m.type = "data"
        /\ \E N \in SUBSET Queue(s), G \in SUBSET Queue(s), cap \in RepairCaps :
             LET r == GetAckId(rcv[p], N)
             IN  /\ IF m.ack <= s.maxSend THEN SendNodeAll(s, window[p], N, G)
                                          ELSE N = {} /\ G = {}
                 /\ snd' = [snd EXCEPT ![p] = SendNode(s, N, G)]
                 /\ rcv' = [rcv EXCEPT ![p] = AddRecvData(r, x, cap)]
                 /\ app' = IF IsNext(r, m.seq)
                           THEN [app EXCEPT ![p] = Assemble(r, @, x)] ELSE app
                 /\ Transmit(Left(m, dup), DataOf(p, s, N \cup G) \cup Replies(p, r, x, cap))
        /\ UNCHANGED <<written, window>>

\* Mutants: the timer is registered again only after a SYN; no SYN is sent.
ProcTimerEventOnce(p) ==
    LET s == snd[p]
    IN  /\ s.timer
        /\ snd' = [snd EXCEPT ![p].timer = Queue(s) # {} /\ s.quiet]
        /\ Transmit(net, IF Queue(s) # {} /\ s.quiet
                         THEN {CtlMsg("syn", p, s.maxSend)} ELSE {})
        /\ UNCHANGED <<rcv, app, written, window>>

ProcTimerEventMute(p) ==
    /\ snd[p].timer
    /\ snd' = [snd EXCEPT ![p].timer = Queue(snd[p]) # {}]
    /\ UNCHANGED <<rcv, app, written, window, net>>

\* procTimerEvent, procSynEvent: announce the last fragment sent when no new
\* one left for a SynTime; the timer stops when nothing is queued.
ProcTimerEvent(p) ==
    LET s == snd[p]
    IN  /\ s.timer
        /\ snd' = [snd EXCEPT ![p].timer = Queue(s) # {}]
        /\ Transmit(net, IF Queue(s) # {} /\ s.quiet
                         THEN {CtlMsg("syn", p, s.maxSend)} ELSE {})
        /\ UNCHANGED <<rcv, app, written, window>>

\* Time passes: last_send_data_time_ + getSynTime() is over.
SynTimeElapses(p) ==
    /\ snd[p].timer /\ ~snd[p].quiet
    /\ snd' = [snd EXCEPT ![p].quiet = TRUE]
    /\ UNCHANGED <<rcv, app, written, window, net>>

\* Time passes: m_nSendRepairTime + getRtt() is over.  (Bound: an end that is
\* sent no data never reads this clock, so it does not run there.)
RttElapses(p) ==
    /\ MaxSeq[Other(p)] > 0
    /\ ~rcv[p].ready
    /\ rcv' = [rcv EXCEPT ![p].ready = TRUE]
    /\ UNCHANGED <<snd, app, written, window, net>>

\* Mutant: the clamp of autoWindowSize is off by one.
SetWindowUnclamped(p) ==
    /\ \E w \in Windows[p] \ {window[p]} : window' = [window EXCEPT ![p] = w + 1]
    /\ UNCHANGED <<snd, rcv, app, written, net>>

\* setPing or setWindowSize moves the window; neither calls sendNodeAll.
SetWindow(p) ==
    /\ \E w \in Windows[p] \ {window[p]} : window' = [window EXCEPT ![p] = w]
    /\ UNCHANGED <<snd, rcv, app, written, net>>

\* setSessionParam with RUDP_SESSION_URGENT_STATUS.
SetUrgent(p) ==
    /\ p \in UrgentPeers
    /\ snd' = [snd EXCEPT ![p].urgent = ~@]
    /\ UNCHANGED <<rcv, app, written, window, net>>

\* The network drops a datagram.
Lose(m) ==
    /\ net' = net \ {m}
    /\ UNCHANGED <<snd, rcv, app, written, window>>

\* A datagram arrives in any order; "dup" leaves a copy of it on the way.
Receive(m, dup) ==
    \/ RecvData(Other(m.src), m, dup)
    \/ RecvAck(Other(m.src), m, dup)
    \/ RecvAck2(Other(m.src), m, dup)
    \/ RecvRepair(Other(m.src), m, dup)
    \/ RecvSyn(Other(m.src), m, dup)

Next ==
    \/ \E p \in Peers :
         \/ \E k \in 1 .. MaxFragments : SendData(p, k)
         \/ ProcTimerEvent(p)
         \/ SynTimeElapses(p)
         \/ RttElapses(p)
         \/ SetWindow(p)
         \/ SetUrgent(p)
    \/ \E m \in net :
         \/ \E dup \in BOOLEAN : Receive(m, dup)
         \/ Lose(m)

Spec == Init /\ [][Next]_vars

\* A datagram of type t about fragment q arrives at the other end of p.
Arrives(t, p, q) == \E m \in net : m.type = t /\ m.src = p /\ m.seq = q /\ Receive(m, FALSE)

\* The socket threads run for ever: timers fire and time passes.  A datagram
\* that is sent again and again arrives in the end; no single one has to.
Fairness ==
    \A p \in Peers :
        /\ WF_vars(ProcTimerEvent(p))
        /\ WF_vars(SynTimeElapses(p))
        /\ WF_vars(RttElapses(Other(p)))
        /\ \A q \in 1 .. MaxSeq[p] :
             /\ \A t \in {"data", "syn"} : SF_vars(Arrives(t, p, q))
             /\ \A t \in {"ack", "ack2", "repair"} : SF_vars(Arrives(t, Other(p), q))

FairSpec == Spec /\ Fairness

-----------------------------------------------------------------------------
(* Properties.                                                             *)

\* The state has the shape the C++ members give it.  What app holds is said
\* by InOrderOnce.
SendBuf ==
    [bufSeq : Nat \ {0}, head : Nat \ {0}, sent : SUBSET Nat, held : SUBSET Nat,
     flagged : SUBSET Nat, maxSend : Nat, wait : Int, sending : Int, timer : BOOLEAN,
     quiet : BOOLEAN, urgent : BOOLEAN, notified : SUBSET Nat]

RecvBuf ==
    [first : Nat, ahead : SUBSET [seq : Nat, pkt : BOOLEAN], destMax : Nat,
     lastAck : Nat, ready : BOOLEAN]

TypeOK ==
    /\ snd \in [Peers -> SendBuf]
    /\ rcv \in [Peers -> RecvBuf]
    /\ window \in [Peers -> Nat] /\ \A p \in Peers : window[p] \in Windows[p]
    /\ net \subseteq DatagramWith(Nat)

\* What on_rudp_recv has handed up is a prefix of the messages the other side
\* sent: whole, once, in order (addRecvData, callbackRecvData, procSeqData).
InOrderOnce ==
    \A p \in Peers :
        /\ IsPrefix(app[Other(p)].delivered, written[p])
        /\ FlattenSeq(app[p].delivered) \o app[p].partial = [i \in 1 .. rcv[p].first |-> i]

\* A fragment is at all times either at the receiver or still in the sender's
\* queue and counted as outstanding: onDataAck and onDataAck2 never give up a
\* fragment the other end lacks, whatever arrives late, twice or out of order.
Received(p) == Got(rcv[p])

NothingLost ==
    \A p \in Peers : \A q \in 1 .. (snd[p].bufSeq - 1) :
        q \in Received(Other(p)) \/ (q \in Queue(snd[p]) /\ q \notin snd[p].held)

\* No datagram on its way, however old, acknowledges a fragment its sender has
\* not received: getAckId, sendAckInfo and send_ack2_info tell the truth for good.
Reports(m, r) ==
    /\ m.type = "data" => m.ack <= r.first
    /\ m.type = "ack"  => m.seq <= r.first
    /\ m.type = "ack2" => m.seq \in Got(r)

AcksTrue == \A m \in net : Reports(m, rcv[m.src])

\* The counters that open and close the window agree with the queue: m_nWaitSize
\* is what was never sent, m_nSendingCount what was sent and not acknowledged, and
\* no fragment sent is above m_nMaxSendSeqId, which the SYN announces and which
\* acknowledgements are checked against.
CountersMatchQueue ==
    \A p \in Peers :
        /\ snd[p].wait = Cardinality(Waiting(snd[p]))
        /\ snd[p].sending = Cardinality(snd[p].sent \ snd[p].held)
        /\ \A q \in snd[p].sent : q <= snd[p].maxSend

\* The receiver holds back only fragments behind a real gap and within the
\* limit of addRecvData: what it could hand up it has handed up.
ReorderBuffer ==
    \A p \in Peers : \A q \in AheadSeqs(rcv[p]) :
        q > rcv[p].first + 1 /\ q <= rcv[p].first + ReorderLimit

\* While anything is queued the SYN timer is registered, so a lost tail or a
\* lost acknowledgement is noticed (addSendNode, procSynEvent).
TimerArmed ==
    \A p \in Peers : Queue(snd[p]) # {} => snd[p].timer

\* Fragments wait only while others are outstanding: some acknowledgement is
\* still to come that will run sendNodeAll for them.
NoIdleWaiting ==
    \A p \in Peers : Waiting(snd[p]) # {} => snd[p].sending > 0

\* The receiver counts as received exactly what arrived, and for good: each
\* fragment added to the in-order prefix or to the list came in a datagram.
OnlyArrivalsCount ==
    [][\A p \in Peers :
         /\ Received(p) \subseteq Received(p)'
         /\ \A q \in Received(p)' \ Received(p) :
              \E m \in net : m.type = "data" /\ m.src = Other(p) /\ m.seq = q]_vars

\* Only onDataRepair sends beyond the window.
WindowRespected ==
    [][\A p \in Peers :
         /\ snd'[p].sending > snd[p].sending
         /\ snd'[p].sending > window[p]
         => \E m \in net : m.type = "repair" /\ m.src = Other(p) /\ m.seq \in Waiting(snd[p])]_vars

\* A repair is asked only for a fragment the receiver lacks (procRepairData).
RepairsAreNeeded ==
    [][\A m \in net' \ net : m.type = "repair" => m.seq \notin Received(m.src)']_vars

FromA == INSTANCE ReliableFifo WITH
    sent <- written[A], delivered <- app[B].delivered, confirmed <- Cardinality(snd[A].notified)
FromB == INSTANCE ReliableFifo WITH
    sent <- written[B], delivered <- app[A].delivered, confirmed <- Cardinality(snd[B].notified)

\* Each direction of the session is a reliable FIFO of messages: the two buffers, their
\* datagrams and timers implement ReliableFifo.
BothWaysFifo == FromA!Spec /\ FromB!Spec

\* Every fragment sent is acknowledged and released in the end, although
\* datagrams are lost, duplicated and reordered: SYN, repair and
\* acknowledgement get through whatever the window did.
EverythingAcknowledged ==
    \A p \in Peers, q \in 1 .. Max({MaxSeq[i] : i \in Peers}) : (q < snd[p].bufSeq) ~> (q < snd[p].head)
=============================================================================
