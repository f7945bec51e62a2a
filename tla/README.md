# war3share: formal models of the RUDP library

The repository is a C++ library, `src/rudp`, that runs sessions with reliable, ordered messages over
UDP, and a support library, `src/revolver`, of timers, queues, pools, buffers and reactors. This
directory holds TLA+ modules that model it, TLC configurations that check them on small instances,
and proofs, checked by TLAPS, of what holds for every instance.

## 1. The system

| component | source | state | operations | modelled in |
|---|---|---|---|---|
| Reliable data plane of a session | `rudp_buf.cpp`, `rudp_buf.h`, `base_sendbuf.h`, `base_recvbuf.h`, `base_buf.h` | send queue, window counters, reorder list, assembly buffer | send, data, ACK, ACK2, REPAIR, SYN, timer | `RudpChannel` |
| Rate control | `CRateCtrl` in `rudp_buf.h` | ping, variation, window | `setPing`, `setWindowSize` | `RateCtrl`; its result, in `RudpChannel` |
| Session life cycle | `udp_session.cpp` | status, ids, clocks | connect, accept, close, SYN2, FIN, FIN2, keepalives, time-outs | `UdpSession` |
| Socket thread | `socket_thread.cpp` | session table, `m_nMaxIndex`, recursive mutex | dispatch, create, refuse, look up, sweep | `SocketThread` |
| RUDP timer wheel | `rudp_timer.h`, `socket_thread.cpp` | 2048 slots of at most 4096 events | register, run a slot, advance | `RudpTimerWheel` |
| API and session control | `session_ctrl.cpp`, `rudpdll.cpp` | thread table, settings | start, stop, find the thread and the session of a handle | `SessionCtrl` |
| Timer queue, timer ring | `timer_queue_t.inl`, `timer_ring.cpp`, `timer_node_t.h` | four rings of 256 slots, free list | schedule, cancel, reset, expire | `TimerQueue` |
| Bounded queue | `base_queue.h` | ring indices | put, get | `LogThread` |
| Object pools | `object_pool.h`, `object_pool_2.h` | free list, counters | pop, push, grow | `ObjectPools`, `LogThread` |
| Cache buffer | `base_cache_buffer.h` | ring positions, keys | insert, find, erase | `CacheBuffer` |
| Block buffers | `base_block_buffer.h` | block, read and write position | put, send, recv, split | `PacketBuffers` |
| Node load | `base_nodes_load.cpp` | node map, ranges | add, delete, select | `NodeLoad` |
| Epoll reactor | `base_epoll_reactor.cpp`, `base_event_handler.cpp` | handler table, free indexes, the kernel's list | register, remove, delete, dispatch, stop | `EpollReactor` |
| Select reactor | `base_select_reactor.cpp` | handler map, three sets of descriptors | the same | `SelectReactor` |
| Logging | `base_log.cpp`, `base_log_thread.cpp` | queue and pool of entries; current file, counts | put, write, end; rename, truncate | `LogThread`, `LogFiles` |
| Sockets and addresses | `base_sock*.cpp`, `base_inet_addr.cpp` | descriptor, address | open, accept, connect, close | `Sockets` |
| Dates and intervals | `date_time.cpp`, `base_timer_value.cpp` | seconds and fields | add, subtract, parse | `Dates`, `TimeValue` |
| Streams and encodings | `base_bin_stream.h`, `base64.cpp`, `base_hex_string.cpp`, `crc_crypt.c` | bytes, read position | pack, unpack; encode, decode | `BinStream`, `Encodings` |
| Files | `base_file.cpp` | | | not modelled: system calls |
| minilzo, AES, MD5 | `src/revolver` | | | not modelled: third-party code |

**How they interact.** An application calls the API with a session id; `session_ctrl.cpp` picks the
socket thread from the id's thread bits. Every socket thread runs one loop (`CSocketThread::execute`):
read the socket, dispatch the datagram to the session it names, run the data timers, and once in a
while sweep the table (`chkUpdate`). API calls come from other threads. One recursive mutex per socket
thread covers the handlers, the API calls and the sweep, so that no two of them run at once; but a
handler calls the application back while it holds the mutex, and the application may call the API from
there. The two ends of a session share nothing but the network.

**What is hard.** Datagrams are lost, repeated and reordered; retries cross late answers; both ends
close at once; a slot of the table is reused while datagrams of its old session are under way; a
callback changes the state its caller goes on with. In the data plane an acknowledgement does four
things at once (release, open the window, send what waits, carry the other direction's position), and
only a timer repairs what is lost. The timer queue calls handlers that change the very slot it is
scanning; the reactors walk lists that their handlers change; the timer wheel is emptied by one thread
while others fill it. A start may fail halfway with threads running, and a handle outlives its
session. In the sequential parts it is the boundaries: a buffer that grows in the middle of a packet, a ring that
turns, a file that is renamed over another, a carry into the next month. `PROJECT.json` lists these hazards, each at its line.

## 2. Modules

| module | what it is |
|---|---|
| `ReliableFifo` | abstract specification of one direction of a session: messages sent, delivered, confirmed |
| `RudpChannel` | data plane of both ends and the network between them |
| `MCRudpChannel` | its instances for TLC |
| `RudpChannelProofs`, `RudpWindowProofs`, `RudpFifoProofs` | its theorems: data and acknowledgements; window and repairs; delivery in order and the refinement of `ReliableFifo` |
| `UdpSession` | the status machine of one session object, as operators from a session to the effect of a handler |
| `SocketThread` | two hosts: tables, objects, sweeps, callbacks, network; composes `UdpSession` |
| `SocketThreadProofs` | its theorems |
| `MCSocketThread` | its instances for TLC |
| `RateCtrl` | a session's round-trip time, SYN time and window |
| `RudpTimerWheel` | the SYN timers of a socket thread's sessions, and the loop that runs them |
| `RudpTimerWheelProofs` | the theorems about SYN times and their timers, and about `TimerQueue` |
| `TimerQueue` | the reactors' timer queue with its rings |
| `LogThread` | writers, the pool of entries, the bounded queue and the log thread |
| `NodeLoad` | the choice of a node by its load |
| `EpollReactor` | the table of event handlers and the loop that hands events to them |
| `SessionCtrl`, `SessionCtrlProofs` | the module of socket threads: start, failing start, stop, calls by handle; the theorems about them |
| `SelectReactor` | the list of handlers, the sets, and the walk that calls them |
| `ReactorProofs` | the theorems about both reactors |
| `PacketBuffers` | a sender's and a receiver's block buffer with a TCP socket between them |
| `CacheBuffer` | units of a stream by key, in a ring |
| `BinStream` | numbers and strings packed in a buffer that grows |
| `Encodings` | Base64, hex strings, encrypted packets: encoded and decoded |
| `Dates`, `TimeValue` | dates as seconds and fields; intervals of seconds and microseconds |
| `LogFiles` | a log, its files, midnight and restarts |
| `ObjectPools` | the pools and the threads that share them |
| `Sockets` | the classes around sockets, and the kernel's sockets |
| `LibraryProofs` | the theorems about `LogThread`, `CacheBuffer`, `PacketBuffers`, `LogFiles`, `ObjectPools`, `Sockets`, `TimeValue`, `NodeLoad` and `BinStream` |
| `MCParts` | instances of the parts from `RudpTimerWheel` on for TLC |

### RudpChannel

Both ends are in status NORMAL. `snd[p]` and `rcv[p]` are the two buffers of `CUdpSession` (fields are
named in comments at `NewSendBuf` and `NewRecvBuf`), `app[p]` is `recv_buffer` and what was handed to
`on_rudp_recv`, `window[p]` the size `CRateCtrl` gives, `net` the datagrams under way, and `written[p]`
a history of what the application sent. An action is one handler with all it calls: `RecvData` is
`procRudpDataMsg`: the carried acknowledgement, `sendNodeAll`, then `addRecvData` with its repairs,
ACK2 and ACK. `SendData` is `sendDataDirect`, `RecvAck`, `RecvAck2`, `RecvRepair` and `RecvSyn` are the
other datagrams, `ProcTimerEvent` is the SYN timer.

Abstractions:

* A fragment is its number; bytes, and so `m_nWaitSize`, count in fragments. An application hands over
  messages of 1 to `MaxFragments` fragments; `packet_flag_` marks the last.
* A datagram with several fragments (a data list, sent in urgent mode) is as many datagrams with one
  fragment each, every one with the same acknowledgement. The receiver treats it as such
  (`onRudpDataList`); the network may tear it apart here, which adds behaviours and removes none.
* The time comparisons are two flags per end: `quiet` (`SynTime` is over since a new fragment left) and
  `ready` (`Rtt` is over since the last repair request). They become true at any moment and are reset
  where the code takes a new time stamp.
* The ping that `CRateCtrl` measures decides the window and the number of repairs; the model takes
  both from sets at every moment (`Windows`, `RepairCaps`), so every ping history is covered.
* A full socket buffer drops datagrams (`Transmit`), since `Sendto` ignores errors.
* Callbacks of the data plane are assumed not to send on the session they are called for.
* Sequence numbers do not wrap.

### UdpSession and SocketThread

`heap[h]` holds the session objects of host `h`, in the order of their creation, with status, ids and
what the application was told; `tab[h]` and `maxIndex[h]` are `m_pSession` and `m_nMaxIndex`;
`stack[h]` holds what the mutex's holder has suspended: handlers that are inside a callback, and the
sweep. A handler up to its callback is one action, the rest of it is `Return`; in between the
application may call `create_session` or `close_session`, as `Reentry` allows. A handler without a
callback is one action. Sweeps are one action per table entry so that callbacks in the sweep see the
`m_nMaxIndex` of that moment.

Abstractions:

* `late` decides the time comparisons of `procTimer`: nothing due, a resend due, or the status
  overdue. `silent` says that no keepalive was answered for `SESSION_TIMEOUT_TIME`.
* An id is a table index and some random bits. The code masks 12 bits of a product of two `rand()` and the
  time (`socket_thread.cpp:461`, `base_buf.h:14`), and seeds `rand` with the time in every `CUdpSession`
  constructor (`udp_session.cpp:26`); nothing compares the result with earlier ids, or with 0. So every
  session's bits are any of the set `IdBits[h]`, and ids may repeat. The id tells apart what the receiver checks,
  and no more: `ConnectedIsAccepted` says that the partner's ids match and that its application
  was told, and that it was made for this very attempt only where no other session of the host ever had the id (`OwnId`).
  With a repeated id an old SYN2 may connect a session to the partner of an earlier attempt, and a FIN for an earlier session
  may end one that is up, or one still in NONE, whose status goes back when its own `connect` follows. `GoneForAReason` and the order of statuses
  in `CloseIsFinal` are therefore claimed while ids differ (`IdsDiffer`); what an application is told, never twice
  and never up after a close, is claimed whatever the ids are.
* `m_nRand` of a SYN is unique, and so is the handle of an object.
* The other end's address never changes. A refused SYN is answered to an address that was never set:
  nowhere.
* The application connects each session once. Release of the library is not modelled, and neither is
  the data a session carries.

### RudpTimerWheel and RateCtrl

`slots`, `tick` and `current` are the wheel; `round` is where `Update` is in a slot, which it counts once
before it runs it. `timeNow` is `m_nTime_Now`, by which the loop works; a thread that sends registers
its timer by `clock`. `armed` is `timerflag_`, `unsent` the sessions with data in the queue. The loop
takes the mutex for every event, so sends come between any two of its steps. An event holds, for the
properties only, the time that was asked for. `MaxLag` bounds how far the clock may run ahead of the
slot that is next: as long as the lag and the largest SYN time stay below one turn together (a lag of up to 232 ms
in the code, where `RateCtrl` keeps the SYN time below 1816 ms of 2048), no timer is lost
(`parts`); beyond that one is (`wheel_stall`). The clock does not step back. A session that leaves
NORMAL does not return; its timer stays in the wheel and does nothing.

`RateCtrl` computes as the code does, in whole numbers of 16 bits; a measured time is any number.

### TimerQueue

`wheel` holds the four rings, `heap` and `free` the timers and the free ids, `events` the ids that every
handler keeps, `scan` the walk of `expire` over ring 0: a slot is scanned when it becomes the current one
(`"new"`) and again before it is left (`"old"`), always in the order of the ids, as a `std::set` is. A
handler is called between `Fire` and `Return`, and may call the queue meanwhile. Rings have 2 slots here
and not 256, so that cascades over two rings happen within 8 ms. Four limits are named in the module:

* `CallDelays` leaves delay 0 out: a timer scheduled for the current slot by a callback in it, with an
  id the iterator has passed, is dropped by `clear` (`timer_ring.cpp:73`).
* A delay does not reach around the rings, less one slot of the highest: what is asked for lies before the moment
  reached, a whole turn further, without that slot (`AskedDelays`). A timer beyond it names the slot where the highest ring stands.
* The properties about times hold up to the first full turn, when `start_time_` is set anew; the runs
  pass that moment.
* An application cancels and resets ids that a handler lists, so not the id of the timer whose handler is
  running.

### LogThread

Pool and queue have a mutex each and every call on them is one action; between any two another thread
may run. `hand` says what each thread holds and does next. After `Terminate` the log thread finishes
its round and its destructor clears the queue, while writers may still log. Lines are numbers; file
names, the change of file at midnight and the choice of the log by index are left out.

### NodeLoad

`ranges`, `region` and `stale` are `node_ranges_`, `region_` and `create_range_`; `picked` is a history of
the last choice. The random number is any number of the region. The form of `select_node` that returns
the node's info looks the id up that `SelectNode` chose. `LocateServer` makes as many rounds of the bisection as there
are ranges; a round changes nothing once the number is found, and `RangesAreShares` says that it is found by then: it counts, for
every node, listed in the ranges or not, the numbers for which the bisection finds it. A choice with nodes to avoid marks the ranges
that it made as good for all (`base_nodes_load.cpp:94`), so those nodes get no number in later choices without a set to
avoid either, until some node changes. The history `avoided` remembers which these are; `TableServesEveryNode` makes no
exception for them, and is not kept (section 4).

### EpollReactor

`entries`, `freeSet` and `index` are the reactor's table, `interest` is what the kernel knows, `batch` and
`event` are where `event_loop` is. A handler is called between `CallHandler` and `HandlerReturns` or
`HandlerFails`, and may meanwhile change its own masks, open sockets and register others; others are
deleted only between batches, as `base_epoll_reactor.h:7` asks. `handle_close` closes the handler's
socket, and the system gives the lowest free number to the next. A kernel that refuses `EPOLL_CTL_ADD`
leaves everything as it is. One that refuses `EPOLL_CTL_MOD` (`KernelRefuses`) leaves the new masks in the table and the old ones
in its own list, and the call returns -1 (`base_epoll_reactor.cpp:276,315`); the history `refused` has the handlers in
that state, and a later change that is taken brings the kernel all masks. The doubling of the batch's size is left out.

### SessionCtrl

`ctrl` is the list of addresses with the slot of each (`m_pSocketThread`) and the index at which the loop
of `createSocketThread` or `releaseSocketThread` is; `thread` what is bound to every address, with its
loop's state and its table; `bound` the addresses the kernel has given away. A thread accepts
sessions from the moment it runs, so before `create_rudp_module` returns, and until its loop ends or its object is deleted.
`CThread::terminate` waits for a thread 2000 ms on Windows (`base_thread.cpp:7,82`), where `rudp` is built, and
for its end elsewhere; `releaseSocketThread` deletes the object after either. So `ReleaseSocket` asks for the flag only: a loop that
still runs, in a callback that takes long or one that calls `create_session` and so waits for the mutex the closing thread holds, goes astray (`strays`). What a stray then does to the memory that was freed is undefined,
and not followed: here it ends or goes on (`StrayEnds`), and neither accepts a session nor calls back. A handle
is an id (thread, random bits, index) and a time; every session ever made is in `issued`, and the
application may call for any of them at any time: `CallBySession` from its own thread, while the module is
open, `CallFromCallback` from a callback, also while it starts or stops. Nothing closes a socket
(`~CSocketThread` does not), so an address stays bound when its module is gone; another module on the
address fails, which gives the start that fails halfway.

* The time in a handle is the number of sessions made before, so no two are alike; the code's
  time is in milliseconds.
* `create_session` from a callback is left out: see the hazard at `session_ctrl.cpp:237`.
* An index fits in 16 bits (`IndexesFit`), which the code does not check.

### SelectReactor

`listed` is the map from descriptors to entries, in whose order `walk` goes twice in a round: to build the sets
(`BuildEntry`) and, after `Select`, to call handlers (`DispatchBit`, one action per bit). `inside` is the
call that runs; meanwhile the application may open, register, remove, delete and close
(`MayAct`). `event_loop` and `noblock_loop` differ in waiting only. The bits and masks of a descriptor outlive its owner; a round may
find an entry whose handler has no socket any more.

* A handler that registers in `handle_close` or `handle_exception` and is then erased is left out
  (`RegisterIn`): the loop erases the entry it stands on, whatever it holds by then.
* An application closes a socket only after `delete_handler`, when it is told of its end, or between
  rounds.

### PacketBuffers

`outbuf` and `inbuf` are the data between `read_pos_` and `write_pos_`, which `recycle` moves to the front after
every operation, and the size of the block; `pipe` is the socket's content, of which any number of bytes moves
at a time. A byte is known by its packet and place, so that nothing mixed up can look right; a header's byte
knows the size it is part of. Packets may be as large as the code accepts. The loop of `realloc_buffer` compares the whole new block
with what is missing from the old one (`base_block_buffer.h:51,272`), so a packet may be written past the end of the sender's block: the
model writes it there (`data` longer than `size`), and follows no operation after that.

### CacheBuffer, BinStream, Encodings

A unit of the cache is its key. Any first key, any later key that the code takes and any order of calls are in the
model, with the place that `insert` overwrites when the ring is full, and the memory that the constructor leaves as it was
(`Junk`). `regular` is a history: the first key was a multiple of the capacity, the keys have not spanned the ring, and
nothing was taken out before the first insertion. `CacheGivesWhatWasPut` holds while that is so; `MinIndexIsSmallestKey`, which is
for all uses, is not kept (section 4). `BinStream` packs bytes to base `Base` (4 here) as a little-endian machine does;
a string's length must fit where it is packed, as below 4 GB it does (`StringsFit`); a throwing read is an item of its own (`value` 1) and the reader may go on or rewind. `Encodings`
takes every input up to a length from a few bytes chosen to meet the table's odd entry and all the carries, and
models the block cipher by a change of the block that is its own reverse. `NothingElseComesBack` asks that Base64 and, of bytes
other than 0xba, the hex strings give back what they were given, and that decrypting gives the packet or nothing;
`PacketsComeBack`, that it gives the packet, is not kept (section 4).

### Dates, TimeValue

Years, months and weeks are added as the code does, with `mktime` and `localtime` of a zone without summer
time. `DateStaysADate` compares an object with the one before: whatever was added, months included, seconds and fields are the
same moment, and weeks and years keep what they must. Where `AddMonths` takes a date is `MonthsAreAdded`, which is not
kept (section 4). `TimeIsExact` has `+` and `-` exact and every value in order, also after `+=`; it does not say
what `+=` gives, which is not the sum (section 4). `SecondUsecs` is 10 for 1 000 000.

### LogFiles

`disk` maps file names to their lines, `base` is the `BaseLog` with the name that was prepared for the next
renaming. `Restart` is a new process with the files of the old one; `ChangeLog` is `change_path` and
`change_log_file`. The day is read once in an operation.

### ObjectPools, Sockets

`ObjectPools` has the double `init` of `ObjectMutexPool` (`object_pool.h:135` after the inner pool's own
constructor): twice the objects, counted once. In `Sockets` every system call may fail; a descriptor is held by
at most one object because the model's application opens only what is closed, which the classes
do not enforce.

`MCParts` checks the seventeen parts side by side: `subject` picks, once and for all, the part that moves.

## 3. Runs

| run | instance | shows |
|---|---|---|
| `channel_loss` | A sends 3 fragments in messages of 1 or 2, windows 1 and 3, reorder limit 3 | types, queue and counters, reorder list, window, repairs, delivery |
| `channel_duplex` | both ends send messages of one fragment, A may switch urgent mode on and off | no acknowledgement is ever untrue; both directions implement `ReliableFifo` (`BothWaysFifo`) |
| `channel_live` | A sends 2 fragments, reorder limit 1, so that one beyond a gap is dropped; under fairness | every fragment is acknowledged and released |
| `channel_urgent` | urgent mode, window 1, under fairness; violation | a session stops for good with all its data received |
| `session_safe` | one client session, a server that may accept twice | callbacks told once, a status never goes back (`CloseIsFinal`), no twins |
| `session_table` | two client sessions, a server with room for one | the table stays sound; who is told it is up has a partner |
| `session_live` | one client, a server slot used twice, under fairness | sessions end and are deleted; types |
| `session_silent` | violation | a FIN in CONNECTING answers the application nothing |
| `session_close_again` | `close_session` from `on_disconnection`; violation | the application is told twice |
| `session_retry` | `create_session` from `on_connection`; violation | a live session loses its slot |
| `parts` | the seventeen parts, see below | one property for each part or two |
| `wheel_stall` | the loop may be 3 of 4 slots behind; violation | a session's timer is lost and never set again |

| in `parts` | instance | shows |
|---|---|---|
| timer queue | 2 handlers, 2 timers, 3 rings of 2 slots | `TimersSound`: ids, handlers and slots agree; `FiresInItsTurn` |
| timer wheel | 2 sessions, 4 slots | `ArmedHasOneTimer` |
| rate | 4 pings, 3 windows | `SynTimeFitsWheel` |
| log queue | 2 writers, a queue of 3 places | `LinesInOrder` |
| nodes | 3 nodes, 4 loads | `ChoiceFollowsLoad` |
| epoll | 3 handlers for 2 indexes, changes of masks refused | `KernelAgrees` (with the table and its free indexes), `EventsReachRegistered` |
| session control | lists of 1 to 3 addresses for 2 ports, two sessions, a table of 2 | `ModuleOwnsItsThreads`, `HandlesFindTheirSession` |
| select | 2 handlers, 2 descriptors | `SelectServesItsOwn` |
| packets | sizes 1 and 5, header 2, blocks of 3 and 2 that grow to more than 10 | `PacketsComeOutWhole`, with `DataStayInside` |
| cache | a ring of 4, keys from 4, 5 or 8 to 12 | `CacheGivesWhatWasPut` |
| stream | 3 items of 2 number types and 2 strings | `UnpacksWhatWasPacked` |
| encodings | every text up to 4 bytes of 4 values, packets up to 5 bytes of 4 values | `NothingElseComesBack` |
| dates, intervals | 2 changes from a year's end, a leap day, a 30th of January | `TimesStayInOrder` |
| log files | 2 logs, 2 days, 1 line to a file, 4 openings | `LogLinesSurvive` |
| pools, sockets | 2 threads, 6 objects; a dgram, streams and an acceptor | `HoldersAreUnique` |

`CHECK_DEADLOCK FALSE` is set everywhere: a session that has sent everything, or is deleted, rests.

**Bounds.** Three fragments are enough for a gap, a list of two behind it, a run handed up at once, and
a window both closed and over-full; a reorder limit of 1 (`channel_live`) drops a fragment beyond it; two
message sizes tell fragments from messages. `NetCap` datagrams under way still allow every reordering
of two, and a duplicate is a datagram that is not taken off, so it may arrive any number of times.
`ReorderLimit`, `AckEvery` and `RepairCaps` are 512, 5 and 10, 20 or 40 in the code: the models use
small values so that the limits are met. In `SocketThread`, two client sessions or two server
sessions are enough for a full table, a hole in it, a reused slot and a repeated SYN; two values for the random bits
at one host (`TwoAtS` in `session_safe`, `TwoAtC` in `session_table`), of which one may be 0, let a reused slot have the
old id or another, and the other runs give all ids the same bits;
`MaxDepth` suspended handlers are enough for a callback in the sweep that calls back. In `parts`, a heap
that begins with no usable id grows once, `MaxTime` passes one full turn of the rings, five lines make the queue's
indices wrap and the pool grow, and 65545 is a ping that 16 bits cut to 9. The receiver's block must grow, in
the middle of a header and up to its limit, and a packet of 5 with its header is more than twice the sender's block; the cache's ring turns twice, from a first key that the capacity divides or not; an index of the session table
has a second owner; two openings of a log fall on each of two days. Every bound is a
constant that says so where it is declared.

**Fairness.** A socket thread loops for ever, so its timers fire, clocks pass and sweeps start and
finish (`WF`). In `RudpChannel` a datagram that is sent again and again is received in the end (`SF` on
`Arrives`); no single datagram has to be, and the window and urgent mode may change for ever. In
`SocketThread` no datagram has to arrive at all: `SF` on `ChkUpdate` (the mutex is free again and again)
and on `OverdueStep` (a status that lasts is found overdue, since `m_nStatusTime` stays) suffice.
Silence is certain only if the other end no longer exists, and a duplicate of an old keepalive answer
is not delivered for ever.

## 4. What disagrees

* Urgent mode (`channel_urgent`, `rudp_buf.cpp:485`): `sendNode` carries further fragments in a datagram
  but does not raise `m_nMaxSendSeqId` for them, or move them from `m_nWaitSize` to `m_nSendingCount`.
  No data is lost (`NothingLost` and its theorem hold in urgent mode too), but when the datagram is the repair
  of a fragment that fills the window, the receiver gets past `m_nMaxSendSeqId`: its acknowledgements are
  rejected, the SYN announces a number it ignores, and the sender never sends again.
* A connect may end without a callback (`session_silent`, `udp_session.cpp:585`).
* `on_disconnection` is called before the status changes (`session_close_again`, `udp_session.cpp:226`).
* `create_session` in a sweep's callback overwrites a slot (`session_retry`, `socket_thread.cpp:356`).
* A timer registered while the loop is a turn of the wheel less a SYN time behind the clock is wiped out
  with the slot that is being run (`wheel_stall`, `rudp_timer.h:79`); `timerflag_` stays true, so the
  session never sends another SYN.

Each of these runs is against a sentence of a doc, a comment or a test, and `PROJECT.json` quotes it. Six more formulas state such a
sentence, are in the modules beside the properties that do hold, and are not kept by the code. They have no run
of their own, but TLC refutes each of them in seconds, in `MCParts` with `Parts.cfg`, if its `Subjects` are the part alone and
the formula is its only invariant:

| formula | part | the sentence | what TLC finds |
|---|---|---|---|
| `TableServesEveryNode` | `load` | `base_nodes_load.h:81`: `create_range_` says whether the table must be built again | a choice with nodes to avoid leaves a table without them for everybody (`base_nodes_load.cpp:155`): plain choices do not find these nodes, and may find none at all, until some node changes |
| `ClosedMeansStopped` | `ctrl` | `session_ctrl.cpp:254`: the loop closes the threads | after 2000 ms sessions, thread objects and module are deleted under a loop that still runs (`base_thread.cpp:82`) |
| `NewRoomIsEnough` | `buffers` | `base_block_buffer.h:51`: it is computed whether the new room is enough | the loop takes what was missing for what is needed: a packet larger than twice an empty block is written past the end of the block that was made for it |
| `MinIndexIsSmallestKey` | `cache` | `base_cache_buffer.h:144,147`: `min_index_` is the place of the smallest key | a first key that is no multiple of the capacity is not put where it is looked for (line 81); and, with `FirstKeys` {4}, a full ring overwrites the unit of the smallest key but keeps the key, so that `find` gives the wrong unit (line 82) |
| `PacketsComeBack` | `coding` | `crc_crypt.c:101,123`: the sums are added, and are right when they are the same | `encode_xor` and `decode_xor` feed the two sums in opposite order (lines 37, 53): a packet of more than a block is refused unless the bytes at its odd and at its even places behind the first block have the same sum |
| `MonthsAreAdded` | `dates` | `date_time.h:39`: the given number of months is added | the date's own month is added twice, less one (`date_time.cpp:174`): 1970-01-01 and a month is 1970-01-01 |

Met while modelling, in the models as they are, without a formula of their own:

* `CBaseTimeValue::operator+=` (`base_timer_value.cpp:97`) adds its own microseconds instead of the other's. Nothing in the
  repository calls it, and no line says what it gives.
* The hex table has "0a" for the byte `0xba` (`base_hex_string.cpp:16`).
* A change of masks that the kernel refuses stays in the reactor's table (`base_epoll_reactor.cpp:276,315`): table and kernel
  disagree until a later change is taken. `KernelAgrees` says it of just the handlers in `refused`.
* `CBaseCacheBuffer` does not initialise its places: `erase` before the first insertion returns what the memory held.
* Session ids may repeat (`socket_thread.cpp:461`). Then a late SYN2 or FIN of an earlier session may reach a later one:
  without `IdsDiffer`, `GoneForAReason` and the order of statuses in `CloseIsFinal` do not hold.
* A second process of a day counts a log's files from 0 and renames over those of the first
  (`base_log.cpp:139`); `LogLinesSurvive` is stated for days with one process.
* `ObjectMutexPool` initialises its pool twice (`object_pool.h:135`): the objects of the first time stay in the list
  uncounted.
* `create_session` without an address, in a module that has none, divides by zero (`session_ctrl.cpp:302`).
* A socket thread does not close its socket when it ends (`socket_thread.cpp:25`).
* A connect that times out reports `on_connection` with `m_nLocalSessionId` where every other callback passes
  the handle `m_SessionNode` (`udp_session.cpp:868`).
* The select loop erases the entry it stands on after `handle_close`, even if the handler has registered anew in it
  (`base_select_reactor.cpp:124`).

## 5. Proofs

`RudpChannelProofs` proves, for every value of the constants that satisfies the assumptions of
`RudpChannel` (the ends differ, bounds and limits are naturals), with urgent mode:

| theorem | property |
|---|---|
| `TypeCorrect` | `[]TypeOK` |
| `AcknowledgementsAreTrue` | `[]AcksTrue` |
| `NoFragmentLost` | `[]NothingLost` |
| `ReorderBufferBounded` | `[]ReorderBuffer` |
| `TimerIsArmed` | `[]TimerArmed` |
| `ReceivedIsWhatArrived` | `OnlyArrivalsCount` |

**The argument.** `NothingLost` is not inductive: an acknowledgement releases fragments, and only
`AcksTrue` says that the other end has them. `AcksTrue` in turn needs that what an end has received only
grows, so that an old datagram stays true; that needs the shape of the reorder list (`BuffersOK`: it
holds fragments beyond a gap, and held or sent fragments are queued ones). The invariant is
`IInv == TypeOK /\ BuffersOK /\ AcksTrue /\ NothingLost` (`Invariance`). Every handler is a step that
writes one end's two buffers and adds datagrams: a lemma reduces the invariant to three conditions on
such a step (the end forgets nothing it received; it gives up only what the other end has; what it sends is true),
and each action has a lemma that proves them. `TimerArmed` and `OnlyArrivalsCount` follow from `IInv` with a
step lemma of their own.

`RudpWindowProofs` proves what the counters of the send window are worth, on top of `IInv`:

| theorem | property | hypotheses |
|---|---|---|
| `CountersAgree` | `[]CountersMatchQueue` | `NoUrgentMode` |
| `NothingWaitsIdle` | `[]NoIdleWaiting` | `NoUrgentMode`, `OpenWindows` |
| `WindowBoundsSending` | `WindowRespected` | |
| `RepairsAreForLosses` | `RepairsAreNeeded` | |

`NoUrgentMode`: no application sets the urgent mode, which is off until it does. In urgent mode the code sends fragments that the
window does not count, and `channel_urgent` does not claim the counters. `OpenWindows`: no window is 0.
`CRateCtrl` keeps its own between 16 and 128 and takes an application's only above 100; but it stores that in 16 bits, so
an application that asks for a multiple of 65536 sets 0 and leaves the hypothesis.

**The argument.** `CountersMatchQueue` is not inductive: an acknowledgement of fragment n takes everything up to n off
`m_nSendingCount`, fragments never sent too, if it could name one. So `CountInv` adds that each fragment that is under way or
at the receiver was marked as sent by its sender (`WereSent`). The lemmas of `sendNode` and of the two acknowledgements say
what these do to both counters as cardinalities. `NothingWaitsIdle` needs `CountInv` for the handlers in which the flight may
become empty: these go on to `sendNodeAll`, and an open window with nothing in flight lets a waiting fragment out.
The other two are facts about steps: `sendNodeAll` stops at the window, so only `onDataRepair` goes past it, and
only for the fragment asked for; `procRepairData` asks for what lies between the prefix and the list, and nothing that the
handler does afterwards receives a fragment.

`RudpFifoProofs` proves what the two buffers are for, with urgent mode and without a hypothesis:

| theorem | property |
|---|---|
| `DeliveredInOrder` | `[]InOrderOnce` |
| `ImplementsFifo` | `BothWaysFifo`, the refinement of `ReliableFifo` in each direction |

**The argument.** What a receiver assembled so far is a fold over what arrived, and neither theorem is inductive. `FifoInv` says of
each direction what the fold comes to. The messages written take fragment after fragment (`Messages`), and
the flagged ones are the last of each; every fragment under way or on the reorder list says rightly whether it is one (`Tagged`),
which a repeated or repaired fragment keeps since flags never change. So what the receiver has is determined by the last
fragment it took in order (`AppAt`): the messages that end up to there, and a part of the next. `AssembleFacts`
shows it of a run of fragments, the one that arrived and those on the list behind it, through the first fragment for which it would fail. A message that
was notified lies within the prefix, since an acknowledgement is true (`IInv`). Each handler is then one of four things in
each direction (`FifoStep`): it writes one message, hands up the next ones, notifies of some
that were handed up, or leaves the direction alone; these are the steps of `ReliableFifo`, by counting (`Confirms`).

`SocketThreadProofs` proves all safety properties of `SocketThread` that runs check, for tables, histories and
networks of any size, callbacks of any depth, and any calls from callbacks but those a hypothesis excludes:

| theorem | property | hypotheses |
|---|---|---|
| `TypeCorrect` | `[]TypeOK` | |
| `TableIsSound` | `[]TableSound` | `NoCreation` |
| `OneSessionPerAttempt` | `[]NoTwins` | `NoCreation` |
| `UpOnBothSides` | `[]ConnectedIsAccepted` | |
| `EndedForAReason` | `[]GoneForAReason` | |
| `ToldOnceOfEach` | `[]ToldOnce` | `NoClosingAtTheEnd` |
| `StatusIsFinal` | `CloseIsFinal` | `NoClosingAtTheEnd` |

The hypotheses are on the applications, and all runs that must pass satisfy them.
`NoCreation`: no `create_session` from a callback; without it `session_retry` finds a session without a slot.
`NoClosingAtTheEnd`: no `close_session` from `on_disconnection`; without it `session_close_again` finds an
application told twice. Nothing is assumed of the random bits of ids. Two properties speak of histories in which ids differ
(`GoneForAReason`, the statuses in `CloseIsFinal`), and `ConnectedIsAccepted` of one id in the clause on the attempt; they say so themselves,
and the same formulas are what the runs check, with ids that may repeat.

**The argument.** Every handler writes one session and perhaps a table entry, a datagram, a callback. What it leaves is
stated once per handler (`...Handled`) and summed up for all of them: what a step may do to a session (`SessionSteps`),
and which objects, datagrams and frames it adds (`StepBrings`). The invariants are then about those sums,
not about the handlers. Each is inductive with the ones it names:

* `Shape` adds to `TypeOK` that a suspended handler is for an object that exists and that nothing is suspended below a sweep.
* `TableInv` has what `TableSound` leaves out while callbacks are open: an entry is below `m_nMaxIndex`, or at an index that
  the sweep has still to visit. A sweep's callback may end a session but not move one, so what is behind the sweep is counted.
* `NamesInv`: the attempt an accepted session carries was made by the other host, under the id it sends to.
  A SYN is truthful since ids of objects never change.
* `AcceptInv`: a SYN2 comes from a session whose ids match those of its receiver, whichever session has the receiver's id by then;
  hence who is up has a partner, and if the id was never another's, one that was made for its attempt.
* `KnownInv`, while ids differ: an id that a datagram or a session refers to is in use. With repeated ids a new session may have an id
  that an old datagram names, and hear of a connection it never asked for.
* `GoneInv`, while ids differ: a FIN comes from a session whose application was told, and a session in FIN2, or about to be, has a reason.
* `ToldInv` relates what the application was told to status and suspended callbacks: before `on_disconnection` returns the
  session has been told but its status is still CONNECTING or NORMAL. Nothing may interrupt that callback, which is where
  `NoClosingAtTheEnd` is needed. With repeated ids a FIN or FIN2 may reach a session in status NONE and end it; its application has been
  told nothing by then (`Idle`), and is told of the attempt once when it connects.

`NoTwins` follows from `TableInv`, `NamesInv` and a step lemma: a session is added only by the SYN handler after `chkSynSession` found
none, and the table that it searches has all live ones.

`RudpTimerWheelProofs` proves `SynTimeFits`, `[]SynTimeFitsWheel` of `RateCtrl`, for every set of pings and windows. Ping p
and variation v cannot both be at their largest, but no single bound on them is inductive: the bound on 2p + 3v
needs one on 3v - p, and that one needs the bound on 2p + 3v and one on 3v - 4p (`Bounded`). The three
together are kept by both means that `setPing` takes (`MeansBounded`).

`SessionCtrlProofs` proves `ModuleAlwaysOwnsItsThreads`, `[]ModuleOwnsItsThreads`, and
`HandlesAlwaysFindTheirSession`, `[]HandlesFindTheirSession`, for all lists of addresses,
numbers of ports and sessions, from `PortsArePositive` and `IndexesFit`. The first property says nothing of the loops that start and stop
threads, so `IInv` adds what they rely on: slots from the loop's index on are empty while the module starts, those below
it while it stops; a filled slot has the thread of its index; an address with a thread is bound, so `initSocket`
never finds one that has. A loop that outlives its object keeps its address bound, and no thread is made for it again (`StraysGone`).
Nothing is assumed of how long a loop takes to end: the object may go first. Whatever a thread does to its table or its flags is a `ThreadStep`, for which one lemma is enough.
`TurnKeeps` is needed because `create_session` takes `m_nAddrCount` as a modulus.
For the handles, `HInv` adds that the index packed in a handle, read back by a division (`NodeFacts`), names the slot of the
address that made it; that a slot is only ever filled for that address; that the sessions of a thread carry its index; and
that no two handles are equal, so that a session added later never stands for one that is gone. The handles are numbered by a counter,
where the code packs a time: two sessions with the same index and random bits in one millisecond are out of the proof.

Of the wheel, `RudpTimerWheelProofs` proves `TimersAreKept`, `[]ArmedHasOneTimer`, and `UnsentIsTimed`, `[]UnsentHasTimer`, for
every wheel, set of sessions and of SYN times, under two hypotheses that `parts` satisfies:

* `LagLeavesRoom`: a SYN time is not 0 and, with the most the loop may be behind, stays below a turn. `SynTimeFits` gives
  at most 1815 ms of the 2048, so the loop may be 232 ms late. Nothing in the code bounds that: `wheel_stall` breaks the
  hypothesis, and loses a timer.
* `RoomForAll`: a slot, 4096 events in the code, has room for all sessions. A host may be configured for more, and the
  code then drops the event and leaves `timerflag_` set.

**The argument.** The ticks of the slots are the times of one turn from the current slot's on, so a time less than a turn
ahead has its own slot (`SlotOfTime`, from `RemaindersDiffer`), and nothing is ever put into the slot being run.
A session, closed or not, has at most one event in the whole wheel that is still to run, so by counting no slot is
full (`RoomLeft`). The property speaks of what is left of a slot as a sequence; the invariant speaks of places in
slots (`Pending`), since a round moves the border and not the events. `ToComeFacts` relates the two.

Of the timer queue it proves, for every number of rings and of slots, any heap, handlers and delays:

| theorem | property | hypothesis |
|---|---|---|
| `IdsAreKept` | `[](TimersTypeOK /\ IdsAgree)` | |
| `TimersAreSound` | `[]TimersSound` | `0 \notin CallDelays` |
| `TimersFireInTheirTurn` | `[]FiresInItsTurn` | `0 \notin CallDelays` |

The hypothesis is the first of the four limits of `TimerQueue`; the others are in the module. The code does not keep it for the application:
a callback that asks for a delay of 0 may lose the timer.

**The argument.** Handlers, heap and free list need the walk only in that whose callback runs is on the heap (`ScanOK`,
`IdsInv`); the free list is a list without repetitions of the ids that are not on the heap (`ListOf`), and an id is always left to take
since used ids are fewer than the size (`IdsToTake`).
For the slots a time stamp is read as a number to the base of the slots, whose digits are the positions that it names
(`Digit`): a timer is in the highest ring in which its digit differs from the ring's position (`OnTop`).
`SlotsInv` says that ring 0 stands at the moment that is scanned and the other rings at the digits of the last moment passed (`Stand`);
that what waits is due from this moment on, by less than a turn of the highest ring (`DueFrom`); and that every timer is at its place
(`Sorted`). Then what waits in the slot that is scanned is due now (`DueNow`), and what is due now waits there (`NowIsPlaced`):
this is `FiresInItsTurn`, and it is why a callback's timer never lands in the slot under the iterator. The cascade is the heart: ring k turns
exactly if counting on carries into it (`TurningIs`, `DigitsCountOn`). The slot a ring leaves is empty, as its timers would lie behind
(`NothingBehind`); the slot it comes to is dealt out to the lower rings, and all other timers keep their place
(`PlaceStays`, `CycleRingPlaces`), ring after ring (`CascadePlaces`). Numbers have no induction here that the provers could
use; `AllUpTo` stands in for it, from the fact that a set of numbers has a smallest one (`Smallest`).

Of the reactors, `ReactorProofs` proves `KernelAlwaysAgrees`, `[]KernelAgrees`, and `EventsAlwaysReachRegistered`,
`[]EventsReachRegistered`, for all handlers, tables and socket numbers. Neither is inductive. The kernel's list is by
socket and the table by handler, so the invariant needs that two handlers never have one socket (the system gives out a free
number, and a handler is removed from the table in the step that closes its socket) and that a stopped loop has neither
handlers nor free indexes. The kernel may refuse any registration and any change of masks; that the masks of the two agree is
then claimed of the handlers whose last change was taken, and that they agree on who is watched, of all. For the batch it adds that a handler has one event in it: the handler being
served is in none of the rest, hence when its function fails, and it is closed and deleted, no event is left for it.

It also proves `EventsFindTheirOwners`, `[]SelectServesItsOwn`, for all handlers and descriptors, if no handler registers
from `handle_close` or `handle_exception` (`NoRegistrationAtTheEnd`): after these the loop erases the entry it stands on, whatever that
holds by then. Inside a walk, descriptors are closed and given to others, and entries change hands. What stays true (`BitsHaveOwners`) is that a bit
that the walk has still to look at has an owner who is registered and was so when select returned; bits behind the walk are
free to be wrong. So the invariant must know where the walk is while a call runs (`EntryCalled`), that the
entry of a handler being told of its end is its own (`CallsAreOwn`), and that a list entry that is not marked
belongs to somebody registered, or to nobody (`ListedHaveAsked`), since that is what is asked of select.

`LibraryProofs` proves of nine parts of the base library:

| theorem | property |
|---|---|
| `LogIsWhole` | `[]LinesInOrder` |
| `ObjectsAreOwned` | `[]ObjectsHaveOneOwner`, a part of `HoldersAreUnique` |
| `SocketsAreHeld` | `[]SocketsHaveHolders`, the other part |
| `CacheIsFaithful` | `[]CacheGivesWhatWasPut` |
| `PacketsAreWhole` | `[]PacketsComeOutWhole` |
| `BuffersHoldTheirData` | `[]DataStayInside`, a part of the one before |
| `LinesAreNotLost` | `[]LogLinesSurvive` |
| `ChoicesFollowLoads` | `[]ChoiceFollowsLoad` |
| `WhatIsPackedIsUnpacked` | `[]UnpacksWhatWasPacked` |
| `StreamStaysInItsBuffer` | `[]StreamTypeOK`: neither the data nor the reader leaves the buffer |
| `TimesAreExact` | `[]TimeIsExact`, a part of `TimesStayInOrder` |

`LogIsWhole` holds `[]LinesInOrder`, for any writers, queue, pool and number of lines, if the log
thread is not one of the writers (`ReaderIsNoWriter`). The property is about lines, the invariant about entries: a line that waits
cannot change because its entry is in one place only (`EntriesPlaced`), and only the thread that holds an entry fills or
resets it. Entries are also counted (`EntriesCounted`), so that none leaks. The queue is a ring, and
`QueuePuts` and `QueueGets` show that on the sequence of its entries put appends and get takes the head, which
is where the slot that is left free is needed. `LinesKept` gives what the property cannot say of itself: which place in what was
queued the line in the log thread's hands has; it is given up only by a thread that was told to end and has no line to write.

The other eight parts need no hypothesis but the assumptions of their modules.

* Pools: an object is in the list, once, or with one thread (`PoolInv`). The decrement in `push_obj` stops at zero, which
  the counters would betray; it never does since a list without repetitions is shorter than all objects while one is out
  (`DistinctIsShort`, by the pigeonhole principle).
* Sockets: the kernel's open sockets are the ones that are held, each by one object (`SocketInv`). Every open is a taking of a
  free socket or leaves nothing behind.
* The cache: the property says what `find` returns, which looks at one place; the invariant (`CacheInv`) says of every
  place which key it stands for (`KeyAt`: counted from the first key's place, round the ring), and that the keys in use are fewer than the
  places. Then different places have different keys (`KeysDiffer`), so that neither a late unit nor the clearing of the places
  passed over touches another unit. The invariant is claimed while the use is `regular`, and each part of that is needed
  once: that the first key is a multiple of the capacity and that nothing was taken out before, for the first insertion, and that the
  keys do not span the ring, for the others.
* The block buffers: the receiver's buffer, the bytes under way and the sender's buffer are, in this order, one run of bytes: those of
  the packets that were put and not yet taken, one after the other. Moving bytes leaves the run alone, put appends to it,
  and split finds at its front the header, and behind it the rest, of the next packet. A receiver never holds more than its size since
  what is read is at most what remains. Of a sender this is proved for packets that fit into a first block with their header, whatever was put before:
  they are no larger than the block was, so one doubling is enough.
* The log's files: what may lose lines is a rename to a name that exists. `FilesInv` says that the name prepared for the next
  renaming is later, by day or by number, than that of any file. A process keeps this by counting; one that is started counts from 0, on a
  day of which there is no file yet. `LogLinesSurvive` claims nothing once two processes made names on the same day (`again`).
* Time values: a value in order is the only one for its microseconds (`OneForm`), which is what makes comparisons
  in different ways agree. `+=` keeps a value in order (`IncreaseMakes`), although it takes the wrong operand.
* The choice of a node: the ranges lie end to end from 0 to the region (`Tiled`), so every number is in exactly one
  (`NumberLies`); unless they are stale, the nodes in them are those that were eligible without the ones `avoided`, each once and with a
  range as long as its present share (`Shared` in `LoadInv`). So the numbers that find a node are its range, or none. The bisection keeps the number's range between
  its borders, and a round that does not find it leaves fewer positions (`RoundNarrows`), so that as many rounds as ranges are enough
  (`SearchFinds`) and the code's loop, which has no other end, ends. That sums and rounds exist as functions is `StepsExist`.
* The packed stream: the items lie end to end in the buffer (`Laid`), and a reader that asked for the types that were packed is at
  the end of an item (`ReaderIsBetween`). Then it reads the very bytes of the next one, whose value comes back by reading from the highest
  byte down: what is there after so many bytes is what was `Left` of the value.

**Only model-checked:** all liveness, which is beyond the prover; `Encodings`, which takes the exclusive or from
`Bitwise`; and `Dates`, whose `localtime` knows the years from 1960 to 2060 only, so that nothing
holds of it for every amount that is added. The five disagreements of the code with what is said
of it that runs show, and the six formulas of section 4, are counterexamples and need no proof.

## 6. Not modelled

* minilzo, AES, MD5: third-party code. AES is an external operator of `Encodings`.
* `base_file.cpp`, socket options, logging levels and formatting, dates as text: they pass values to the system or
  lay them out, and no other part's state depends on them.
* Callbacks of the data plane that send on their own session; a second connect of an object; `create_session`
  from a callback, which takes a mutex that a closing module holds while it joins threads
  (`session_ctrl.cpp:237`).
* Handlers that delete others in a batch of the epoll reactor, which its header forbids.
* 32-bit sequence numbers that wrap, and 65536 transmissions of one fragment: out of any bound's reach.
* The timer queue past a full turn of its rings (49 days), and delay 0 from a callback.

## 7. What is left

1. `Dates`: a proof of its part of `TimesStayInOrder`, with a `localtime` for every year and lemmas on the calendar (the days before a
   month and before a year) that hold for each.
2. The callbacks of the data plane that send on their own session, as actions between the steps of a handler, and
   `create_session` from a callback: hazards in `PROJECT.json` that no property covers yet.
3. The forms of the code that section 6 leaves out.
