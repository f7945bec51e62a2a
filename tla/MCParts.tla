------------------------------ MODULE MCParts -------------------------------
(* Instances for TLC of the parts that share no state with each other: in   *)
(* every behaviour one of them, the subject, takes all the steps.           *)
EXTENDS TimerQueue, RudpTimerWheel, RateCtrl, LogThread, NodeLoad, EpollReactor,
        SessionCtrl, SelectReactor, PacketBuffers, CacheBuffer, BinStream, Encodings,
        Dates, TimeValue, LogFiles, ObjectPools, Sockets

CONSTANTS
  Subjects,  \* the parts that are checked
  adr1, adr2, adr3

VARIABLE subject

\* Two ports and one, in different order, and one that two modules would both bind.
AddrListsHere == {<<adr1, adr2>>, <<adr1, adr3, adr2>>, <<adr3>>}

NumbersHere == {[size |-> 1, value |-> 2], [size |-> 2, value |-> 7]}
StringsHere == {<<>>, <<1, 2, 3>>}

\* The end of a year, a leap day, and a day of January that February lacks.
DatesHere ==
  {[year |-> 1971, mon |-> 11, mday |-> 31], [year |-> 2000, mon |-> 1, mday |-> 29],
   [year |-> 1999, mon |-> 0, mday |-> 30]}

\* No colon, an address of this host, one that is not, and a port of 17 bits.
TextsHere ==
  {[colon |-> FALSE, ip |-> 1, port |-> 1], [colon |-> TRUE, ip |-> 1, port |-> 2],
   [colon |-> TRUE, ip |-> 9, port |-> 2], [colon |-> TRUE, ip |-> 0, port |-> 5]}

Init ==
  /\ subject \in Subjects
  /\ TimersInit /\ WheelInit /\ RateInit /\ LogInit /\ LoadInit /\ EpollInit
  /\ CtrlInit /\ SelectInit /\ BuffersInit /\ CacheInit /\ StreamInit /\ CodingInit
  /\ DatesInit /\ TimeInit /\ LogFilesInit /\ PoolInit /\ SocketsInit
  /\ subject # "cache" => Junk \notin {ring[i] : i \in Places}

Rest(s) ==
  /\ s # "timers" => UNCHANGED timerVars
  /\ s # "wheel" => UNCHANGED wheelVars
  /\ s # "rate" => UNCHANGED rate
  /\ s # "log" => UNCHANGED logVars
  /\ s # "load" => UNCHANGED loadVars
  /\ s # "epoll" => UNCHANGED epollVars
  /\ s # "ctrl" => UNCHANGED ctrlVars
  /\ s # "select" => UNCHANGED selectVars
  /\ s # "buffers" => UNCHANGED bufferVars
  /\ s # "cache" => UNCHANGED cacheVars
  /\ s # "stream" => UNCHANGED streamVars
  /\ s # "coding" => UNCHANGED coding
  /\ s # "dates" => UNCHANGED dateVars
  /\ s # "time" => UNCHANGED timeVars
  /\ s # "files" => UNCHANGED logFileVars
  /\ s # "pool" => UNCHANGED poolVars
  /\ s # "sockets" => UNCHANGED sockVars

Next ==
  /\ UNCHANGED subject
  /\ \/ subject = "timers" /\ TimersNext
     \/ subject = "wheel" /\ WheelNext
     \/ subject = "rate" /\ RateNext
     \/ subject = "log" /\ LogNext
     \/ subject = "load" /\ LoadNext
     \/ subject = "epoll" /\ EpollNext
     \/ subject = "ctrl" /\ CtrlNext
     \/ subject = "select" /\ SelectNext
     \/ subject = "buffers" /\ BuffersNext
     \/ subject = "cache" /\ CacheNext
     \/ subject = "stream" /\ StreamNext
     \/ subject = "coding" /\ CodingNext
     \/ subject = "dates" /\ DatesNext
     \/ subject = "time" /\ TimeNext
     \/ subject = "files" /\ LogFilesNext
     \/ subject = "pool" /\ PoolNext
     \/ subject = "sockets" /\ SocketsNext
  /\ Rest(subject)

vars == <<subject, timerVars, wheelVars, rate, logVars, loadVars, epollVars, ctrlVars, selectVars,
          bufferVars, cacheVars, streamVars, coding, dateVars, timeVars, logFileVars, poolVars, sockVars>>

Spec == Init /\ [][Next]_vars

\* The types of the parts' variables (those of the other parts stay as they began).
TypeOK ==
  /\ subject \in Subjects
  /\ subject = "timers" => TimersTypeOK
  /\ subject = "wheel" => WheelTypeOK
  /\ subject = "rate" => RateTypeOK
  /\ subject = "log" => LogTypeOK
  /\ subject = "load" => LoadTypeOK
  /\ subject = "epoll" => EpollTypeOK
  /\ subject = "ctrl" => CtrlTypeOK
  /\ subject = "select" => SelectTypeOK
  /\ subject = "buffers" => BuffersTypeOK
  /\ subject = "cache" => CacheTypeOK
  /\ subject = "stream" => StreamTypeOK
  /\ subject = "coding" => CodingTypeOK
  /\ subject = "dates" => DatesTypeOK
  /\ subject = "time" => TimeTypeOK
  /\ subject = "files" => LogFilesTypeOK
  /\ subject = "pool" => PoolTypeOK
  /\ subject = "sockets" => SocketsTypeOK

\* Dates and intervals stay in order: a date's seconds and fields are the same moment, weeks
\* and years keep what they must, and what + and - compute of intervals is exact.  (Not asked:
\* where AddMonths takes a date, and what += computes.)
TimesStayInOrder ==
  /\ subject = "dates" => DateStaysADate
  /\ subject = "time" => TimeIsExact

\* Whatever is handed out has one holder while it is out, and is not lost: the objects of a
\* pool under its threads, and the kernel's sockets under opens that fail halfway.
HoldersAreUnique ==
  /\ subject = "pool" => ObjectsHaveOneOwner
  /\ subject = "sockets" => SocketsHaveHolders
=============================================================================
