----------------------------- MODULE LogThread ------------------------------
(***************************************************************************)
(* The log thread: writers take an entry from LOGPOOL (ObjectMutexPool     *)
(* over ObjectPool), fill it and put it into the thread's queue            *)
(* (BaseQueue_T); the thread gets the entries, writes them and gives them  *)
(* back.  The pool and the queue have a mutex each, and nothing covers     *)
(* both: between any two calls another thread may run.                     *)
(***************************************************************************)
EXTENDS Naturals, FiniteSets, Sequences, SequencesExt

CONSTANTS
  Writers,      \* threads that write to the log
  Capacity,     \* CAPACITY of the queue, 5120
  PoolCapacity, \* LOG_POOL_SIZE
  MaxLines      \* bound: lines that are ever logged

ASSUME QueueHasRoom == Capacity \in Nat \ {0, 1}
ASSUME PoolHasEntries == PoolCapacity \in Nat \ {0} /\ MaxLines \in Nat

VARIABLES
  pool,     \* obj_list_ of LOGPOOL
  made,     \* obj_number_: the entries are 1 .. made
  popped,   \* pop_number_
  line,     \* the line in every entry, 0 after reset()
  data,     \* data_, the array of the queue
  rindex,
  windex,
  hand,     \* what every thread is doing with which entry
  ended,    \* terminated_
  logged,   \* how many lines have been logged so far
  queued,   \* history: the lines that were put into the queue
  written   \* the log file

logVars == <<pool, made, popped, line, data, rindex, windex, hand, ended, logged, queued, written>>

Reader  == "log thread"
Threads == Writers \cup {Reader}

EmptyHand == [step |-> "none", entry |-> 0]

LogInit ==
  /\ pool = [i \in 1 .. PoolCapacity |-> i] /\ made = PoolCapacity /\ popped = 0
  /\ line = [i \in 1 .. PoolCapacity |-> 0]
  /\ data = [i \in 0 .. Capacity - 1 |-> 0] /\ rindex = 0 /\ windex = 0
  /\ hand = [t \in Threads |-> EmptyHand]
  /\ ended = FALSE
  /\ logged = 0 /\ queued = <<>> /\ written = <<>>

Step(t, step, entry) == hand' = [hand EXCEPT ![t] = [step |-> step, entry |-> entry]]

\* Mutant of Following: an index runs past the array.
FollowingPast(i) == IF i + 1 <= Capacity THEN i + 1 ELSE 0

Following(i) == IF i + 1 < Capacity THEN i + 1 ELSE 0

\* Mutant of Full: only a full array that was never read is noticed.
FullAtEnd == rindex = 0 /\ windex + 1 = Capacity

Full == (rindex = 0 /\ windex + 1 = Capacity) \/ windex + 1 = rindex

-----------------------------------------------------------------------------
\* An empty pool makes half its size and one.
NewEntries ==
  IF pool = <<>> THEN [i \in 1 .. PoolCapacity \div 2 + 1 |-> made + i] ELSE <<>>

\* put_log of a stream: an entry is taken and filled with the next line.
TakeEntry(w) ==
  /\ hand[w].step = "none" /\ logged < MaxLines
  /\ LET entries == pool \o NewEntries
         size    == made + Len(NewEntries)
     IN  /\ pool' = Tail(entries)
         /\ made' = size
         /\ line' = [i \in 1 .. size |-> IF i = Head(entries) THEN logged + 1
                                         ELSE IF i <= made THEN line[i] ELSE 0]
         /\ Step(w, "put", Head(entries))
  /\ popped' = popped + 1
  /\ logged' = logged + 1
  /\ UNCHANGED <<data, rindex, windex, ended, queued, written>>

\* put_log of the thread: a full queue refuses the entry.
Put(w) ==
  /\ hand[w].step = "put"
  /\ IF Full
     THEN Step(w, "release", hand[w].entry) /\ UNCHANGED <<data, windex, queued>>
     ELSE /\ data' = [data EXCEPT ![windex] = hand[w].entry]
          /\ windex' = Following(windex)
          /\ queued' = Append(queued, line[hand[w].entry])
          /\ Step(w, "none", 0)
  /\ UNCHANGED <<pool, made, popped, line, rindex, ended, logged, written>>

\* The entry is reset and goes back to the pool.
Release(t) ==
  /\ hand[t].step = "release"
  /\ pool' = Append(pool, hand[t].entry)
  /\ popped' = IF popped > 0 THEN popped - 1 ELSE 0
  /\ line' = [line EXCEPT ![hand[t].entry] = 0]
  /\ Step(t, "none", 0)
  /\ UNCHANGED <<made, data, rindex, windex, ended, logged, queued, written>>

\* The log thread begins a round of its loop, unless it was told to end.
BeginRound ==
  /\ hand[Reader].step = "none" /\ ~ended
  /\ Step(Reader, "get", 0)
  /\ UNCHANGED <<pool, made, popped, line, data, rindex, windex, ended, logged, queued, written>>

\* It gets the next entry, or sleeps.
Take(step) ==
  IF rindex = windex
  THEN Step(Reader, "none", 0) /\ rindex' = rindex
  ELSE Step(Reader, step, data[rindex]) /\ rindex' = Following(rindex)

Get ==
  /\ hand[Reader].step = "get"
  /\ Take("write")
  /\ UNCHANGED <<pool, made, popped, line, data, windex, ended, logged, queued, written>>

\* The thread has ended: its destructor gives back what is left in the queue.
Clear ==
  /\ hand[Reader].step = "none" /\ ended
  /\ Take("release")
  /\ UNCHANGED <<pool, made, popped, line, data, windex, ended, logged, queued, written>>

WriteLog ==
  /\ hand[Reader].step = "write"
  /\ written' = Append(written, line[hand[Reader].entry])
  /\ Step(Reader, "release", hand[Reader].entry)
  /\ UNCHANGED <<pool, made, popped, line, data, rindex, windex, ended, logged, queued>>

Terminate ==
  /\ ~ended
  /\ ended' = TRUE
  /\ UNCHANGED <<pool, made, popped, line, data, rindex, windex, hand, logged, queued, written>>

LogNext ==
  \/ \E w \in Writers : TakeEntry(w) \/ Put(w)
  \/ \E t \in Threads : Release(t)
  \/ BeginRound \/ Get \/ Clear \/ WriteLog \/ Terminate

LogSpec == LogInit /\ [][LogNext]_logVars

-----------------------------------------------------------------------------
LogTypeOK ==
  /\ pool \in Seq(1 .. made) /\ made \in Nat /\ popped \in Nat
  /\ line \in [1 .. made -> 0 .. MaxLines]
  /\ data \in [0 .. Capacity - 1 -> 0 .. made]
  /\ rindex \in 0 .. Capacity - 1 /\ windex \in 0 .. Capacity - 1
  /\ hand \in [Threads -> [step : {"none", "put", "get", "write", "release"}, entry : 0 .. made]]
  /\ ended \in BOOLEAN /\ logged \in 0 .. MaxLines
  /\ queued \in Seq(1 .. MaxLines) /\ written \in Seq(1 .. MaxLines)

\* The entries in the queue, from rindex to windex.
Queued ==
  LET n == (windex + Capacity - rindex) % Capacity
  IN  [i \in 1 .. n |-> data[(rindex + i - 1) % Capacity]]

Held == {hand[t].entry : t \in Threads} \ {0}

\* Every entry is in one place: in the pool, in the queue or in one thread's hands.
EntryInOnePlace ==
  /\ ToSet(pool) \cup ToSet(Queued) \cup Held = 1 .. made
  /\ Len(pool) + Len(Queued) + Cardinality({t \in Threads : hand[t].entry # 0}) = made
  /\ popped = made - Len(pool)

\* The log has the lines that were queued, each once, whole and in order; while the log thread
\* runs, what is not written yet is in its hands or in the queue.  That rests on the entries:
\* were one in two places, a line could be overwritten or reset while it waits; were it in
\* none, it leaks.
LinesInOrder ==
  /\ EntryInOnePlace
  /\ LET inHand == IF hand[Reader].step = "write" THEN <<hand[Reader].entry>> ELSE <<>>
         toCome == [i \in 1 .. Len(inHand \o Queued) |-> line[(inHand \o Queued)[i]]]
     IN  IF ended THEN IsPrefix(written, queued) ELSE written \o toCome = queued
=============================================================================
