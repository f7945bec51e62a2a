----------------------------- MODULE SessionCtrl -----------------------------
(***************************************************************************)
(* CSessionCtrl: one socket thread for every local address, started by     *)
(* create_rudp_module, stopped by close_rudp_module, which waits 2000 ms   *)
(* for each; between the two, and in callbacks, the application's calls    *)
(* find their thread by the bits of a session's handle.                    *)
(***************************************************************************)
EXTENDS Naturals, Sequences, FiniteSets

CONSTANTS
  Addrs,          \* local addresses
  AddrLists,      \* the lists of addresses that modules are created with
  MaxPorts,       \* MAX_UDPPORT_COUNT
  TableSize,      \* nMaxSessionCount
  IndexWidth,     \* 2^16: the table index in a session's id
  RandWidth,      \* 2^12: the random bits in a session's id
  MaxNodes,       \* bound: sessions ever created
  ConfigTimes     \* the times set_config_info is called with

ASSUME PortsArePositive == MaxPorts \in Nat \ {0} /\ AddrLists \subseteq Seq(Addrs)
\* The code does not check it: an index of 17 bits would run into the random bits.
ASSUME IndexesFit == /\ IndexWidth \in Nat /\ TableSize \in 1 .. IndexWidth
                     /\ RandWidth \in Nat \ {0}

VARIABLES
  stage,    \* what the application's thread does with the module
  ctrl,     \* m_LocalAddr (the addresses listed), m_pSocketThread, and the loop's index
  thread,   \* of every address: the CSocketThread bound to it
  bound,    \* addresses with an open socket
  turn,     \* nThreadIndex of mallocThread
  cfg,      \* g_RudpCfgInfo
  issued,     \* history: the handles this module created, with the thread that did it
  called,   \* history: the last call for a handle, and what it found
  strays    \* history: addresses whose loop has outlived its thread object

ctrlVars == <<stage, ctrl, thread, bound, turn, cfg, issued, called, strays>>

Ports    == 0 .. MaxPorts - 1
NoCtrl   == [addrs |-> <<>>, slot |-> [i \in Ports |-> {}], at |-> 0]
NoSocket == [index |-> 0, run |-> "none", terminated |-> FALSE, table |-> {}]
NotCalled == [made |-> 0, reached |-> {}, found |-> FALSE]

CtrlInit ==
  /\ stage = "none" /\ ctrl = NoCtrl
  /\ thread = [a \in Addrs |-> NoSocket]
  /\ bound = {} /\ turn = 0
  /\ cfg = [connect |-> 15000, print |-> 60000]
  /\ issued = <<>> /\ called = NotCalled /\ strays = {}

\* m_nAddrCount
AddrCount == Len(ctrl.addrs)

\* Mutant of SessionNode: the thread's index is left out.
SessionNodeBare(index, rand, i, now) ==
  [id |-> rand * IndexWidth + i, now |-> now]

\* SESSIONID_FROM_THREAD_INDEX, calcUdpSession: the id in the high half, the time in the low.
SessionNode(index, rand, i, now) ==
  [id |-> (index * RandWidth + rand) * IndexWidth + i, now |-> now]

\* THREAD_INDEX_FROM_UDPSESSION, SESSION_INDEX_FROM_UDPSESSION
ThreadIndex(node)  == node.id \div (RandWidth * IndexWidth)
SessionIndex(node) == node.id % IndexWidth

\* getUdpSesionfromSessionNode
FindNode(a, node) ==
  {e \in thread[a].table : SessionIndex(e) = SessionIndex(node) /\ e = node}

-----------------------------------------------------------------------------
\* create_rudp_module, initService, setLocalAddr
CreateRudpModule(list) ==
  /\ stage = "none"
  /\ stage' = "starting"
  /\ ctrl' = [NoCtrl EXCEPT !.addrs = SubSeq(list, 1, IF Len(list) < MaxPorts THEN Len(list) ELSE MaxPorts)]
  /\ issued' = <<>> /\ called' = NotCalled
  /\ UNCHANGED <<thread, bound, turn, cfg, strays>>

\* Mutant of InitFails: the threads that run already are forgotten.
InitFailsHalfway ==
  /\ stage = "starting" /\ ctrl.at < AddrCount
  /\ ctrl.addrs[ctrl.at + 1] \in bound
  /\ stage' = "none" /\ ctrl' = NoCtrl
  /\ UNCHANGED <<thread, bound, turn, cfg, issued, called, strays>>

\* createSocketThread when the socket cannot be bound: the thread object is deleted, and
\* create_rudp_module deletes the module, whose destructor releases the threads before it.
InitFails ==
  /\ stage = "starting" /\ ctrl.at < AddrCount
  /\ ctrl.addrs[ctrl.at + 1] \in bound
  /\ stage' = "closing"
  /\ ctrl' = [ctrl EXCEPT !.at = 0]
  /\ UNCHANGED <<thread, bound, turn, cfg, issued, called, strays>>

\* createSocketThread, initSocket, CThread::start
InitSocket ==
  /\ stage = "starting" /\ ctrl.at < AddrCount
  /\ LET a == ctrl.addrs[ctrl.at + 1]
     IN  /\ a \notin bound
         /\ bound' = bound \cup {a}
         /\ thread' = [thread EXCEPT ![a] = [NoSocket EXCEPT !.index = ctrl.at, !.run = "running"]]
         /\ ctrl' = [ctrl EXCEPT !.slot[ctrl.at] = {a}, !.at = @ + 1]
  /\ UNCHANGED <<stage, turn, cfg, issued, called, strays>>

Created ==
  /\ stage = "starting" /\ ctrl.at = AddrCount
  /\ stage' = "open"
  /\ UNCHANGED <<ctrl, thread, bound, turn, cfg, issued, called, strays>>

\* close_rudp_module, ~CSessionCtrl, releaseService
CloseRudpModule ==
  /\ stage = "open"
  /\ stage' = "closing" /\ ctrl' = [ctrl EXCEPT !.at = 0]
  /\ UNCHANGED <<thread, bound, turn, cfg, issued, called, strays>>

\* CThread::terminate: the flag.  Its wait for the thread is in ReleaseSocket.
StopThread(a) ==
  /\ stage = "closing" /\ ctrl.at < AddrCount /\ ctrl.slot[ctrl.at] = {a}
  /\ ~thread[a].terminated
  /\ thread' = [thread EXCEPT ![a].terminated = TRUE]
  /\ UNCHANGED <<stage, ctrl, bound, turn, cfg, issued, called, strays>>

\* The loop of execute ends when it sees the flag, between two datagrams.
ExecuteEnds(a) ==
  /\ thread[a].run = "running" /\ thread[a].terminated
  /\ thread' = [thread EXCEPT ![a].run = "ended"]
  /\ UNCHANGED <<stage, ctrl, bound, turn, cfg, issued, called, strays>>

\* releaseSocketThread, releaseSession: after terminate's wait, however it came to its end,
\* the sessions and the thread object are deleted; a loop that still runs goes astray.
\* Nothing closes the socket: the address stays bound.
ReleaseSocket(a) ==
  /\ stage = "closing" /\ ctrl.at < AddrCount /\ ctrl.slot[ctrl.at] = {a}
  /\ thread[a].terminated
  /\ thread' = [thread EXCEPT ![a] = NoSocket]
  /\ ctrl' = [ctrl EXCEPT !.slot[ctrl.at] = {}, !.at = @ + 1]
  /\ strays' = IF thread[a].run = "running" THEN strays \cup {a} ELSE strays
  /\ UNCHANGED <<stage, bound, turn, cfg, issued, called>>

\* A loop whose thread object is deleted reads freed memory: it may see the flag and end, or
\* go on; what else it would do to that memory is not followed.
StrayEnds(a) ==
  /\ a \in strays
  /\ strays' = strays \ {a}
  /\ UNCHANGED <<stage, ctrl, thread, bound, turn, cfg, issued, called>>

\* A slot without a thread is passed over; at the end the module is gone.
ReleaseNext ==
  /\ stage = "closing"
  /\ IF ctrl.at = AddrCount THEN stage' = "none" /\ ctrl' = NoCtrl
     ELSE ctrl.slot[ctrl.at] = {} /\ ctrl' = [ctrl EXCEPT !.at = @ + 1] /\ UNCHANGED stage
  /\ UNCHANGED <<thread, bound, turn, cfg, issued, called, strays>>

-----------------------------------------------------------------------------
\* addUdpSession: the first free index.  (Bound: MaxNodes.)
AddSession(a, rand) ==
  LET free == {i \in 0 .. TableSize - 1 : \A e \in thread[a].table : SessionIndex(e) # i}
      node == SessionNode(thread[a].index, rand, CHOOSE i \in free : \A j \in free : i <= j, Len(issued))
  IN  /\ free # {} /\ Len(issued) < MaxNodes
      /\ thread' = [thread EXCEPT ![a].table = @ \cup {node}]
      /\ issued' = Append(issued, [node |-> node, by |-> a])

\* A SYN is accepted by a thread that runs, even while the module starts or closes.
AcceptSession(a) ==
  /\ thread[a].run = "running"
  /\ \E rand \in 0 .. RandWidth - 1 : AddSession(a, rand)
  /\ UNCHANGED <<stage, ctrl, bound, turn, cfg, called, strays>>

\* The sweep deletes a session that is closed.
SessionCloses(a, node) ==
  /\ thread[a].run = "running"
  /\ node \in thread[a].table
  /\ thread' = [thread EXCEPT ![a].table = @ \ {node}]
  /\ UNCHANGED <<stage, ctrl, bound, turn, cfg, issued, called, strays>>

\* mallocThread: by address, or in turn; with no address at all the code divides by zero.
MallocThread(from) ==
  IF from # {} THEN {i \in Ports : i < AddrCount /\ ctrl.slot[i] = from}
  ELSE {(turn + 1) % AddrCount}

\* create_session
CreateFrom(from) ==
  /\ stage = "open" /\ AddrCount > 0
  /\ turn' = IF from = {} THEN (turn + 1) % AddrCount ELSE turn
  /\ \E i \in MallocThread(from), rand \in 0 .. RandWidth - 1 : \E a \in ctrl.slot[i] : AddSession(a, rand)
  /\ UNCHANGED <<stage, ctrl, bound, cfg, called, strays>>

\* connect, close_session, get_stat, send_rudp, the parameters and addresses of a session:
\* the thread is the one at the handle's index; it looks for the session under its mutex.
CallThread(n) ==
  LET reached == ctrl.slot[ThreadIndex(issued[n].node)]
  IN  called' = [made |-> n, reached |-> reached,
                 found |-> \E a \in reached : FindNode(a, issued[n].node) # {}]

CallBySession(n) ==
  /\ stage = "open"
  /\ CallThread(n)
  /\ UNCHANGED <<stage, ctrl, thread, bound, turn, cfg, issued, strays>>

\* The same from a callback of the session itself, also while the module starts or closes.
CallFromCallback(n) ==
  /\ thread[issued[n].by].run = "running" /\ issued[n].node \in thread[issued[n].by].table
  /\ CallThread(n)
  /\ UNCHANGED <<stage, ctrl, thread, bound, turn, cfg, issued, strays>>

\* set_config_info with the two parameters that are checked.
SetConfigInfo(type, time) ==
  /\ stage = "open"
  /\ cfg' = CASE type = "connect" /\ time > 3000 -> [cfg EXCEPT !.connect = time]
              [] type = "print" /\ time > 100    -> [cfg EXCEPT !.print = time]
              [] OTHER                            -> cfg
  /\ UNCHANGED <<stage, ctrl, thread, bound, turn, issued, called, strays>>

CtrlNext ==
  \/ \E list \in AddrLists : CreateRudpModule(list)
  \/ InitFails \/ InitSocket \/ Created \/ CloseRudpModule \/ ReleaseNext
  \/ \E a \in Addrs :
       \/ StopThread(a) \/ ExecuteEnds(a) \/ ReleaseSocket(a) \/ StrayEnds(a)
       \/ AcceptSession(a)
       \/ \E node \in thread[a].table : SessionCloses(a, node)
       \/ CreateFrom({a})
  \/ CreateFrom({})
  \/ \E n \in DOMAIN issued : CallBySession(n) \/ CallFromCallback(n)
  \/ \E type \in {"connect", "print"}, time \in ConfigTimes : SetConfigInfo(type, time)

CtrlSpec == CtrlInit /\ [][CtrlNext]_ctrlVars

-----------------------------------------------------------------------------
Nodes == [id : Nat, now : Nat]

CtrlTypeOK ==
  /\ stage \in {"none", "starting", "open", "closing"}
  /\ ctrl.addrs \in Seq(Addrs) /\ AddrCount <= MaxPorts
  /\ ctrl.slot \in [Ports -> {{}} \cup {{a} : a \in Addrs}] /\ ctrl.at \in 0 .. MaxPorts
  /\ \A a \in Addrs : /\ thread[a].run \in {"none", "running", "ended"}
                      /\ thread[a].index \in Ports /\ thread[a].terminated \in BOOLEAN
                      /\ \A e \in thread[a].table : e \in Nodes
  /\ bound \subseteq Addrs /\ strays \subseteq Addrs /\ turn \in Nat
  /\ cfg.connect > 3000 /\ cfg.print > 100
  /\ \A n \in DOMAIN issued : issued[n].node \in Nodes /\ issued[n].by \in Addrs

\* Every thread object is in the slot of its index, and once the module is gone none of them
\* and no session is left, however far its start had come.  A loop that outlived its object
\* keeps its address to itself: no later module runs a second loop on the same socket.
ModuleOwnsItsThreads ==
  /\ \A a \in Addrs : thread[a] = NoSocket \/ ctrl.slot[thread[a].index] = {a}
  /\ stage = "none" => \A a \in Addrs : thread[a] = NoSocket
  /\ \A a \in strays : a \in bound /\ thread[a] = NoSocket

\* What releaseSocketThread says of itself, that it closes the receiving and sending threads:
\* no loop runs once the module is gone.  Where the wait has a limit this does not hold.
ClosedMeansStopped == stage = "none" => strays = {}

\* A handle leads to the thread that made the session and to no other, and to the session
\* exactly while that exists, whatever has the same index since.
HandlesFindTheirSession ==
  called # NotCalled =>
    LET m == issued[called.made]
    IN  /\ called.reached \subseteq {m.by}
        /\ m.node \in thread[m.by].table => called.found
=============================================================================
