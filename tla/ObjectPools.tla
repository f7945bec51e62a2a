---------------------------- MODULE ObjectPools -----------------------------
(***************************************************************************)
(* A pool that several threads take objects from and give them back to:    *)
(* ObjectMutexPool around an ObjectPool (log lines), and its twin          *)
(* ObjectMutexPool_malloc (sessions, buffers and data nodes, by their      *)
(* operators new and delete).  Its mutex is recursive and is held for the  *)
(* whole of an operation, but for the counters, which are read without it. *)
(***************************************************************************)
EXTENDS Naturals, FiniteSets, SequencesExt

CONSTANTS
  PoolUsers,        \* threads
  InitialObjects,   \* CAPACITY
  MaxObjects        \* bound

ASSUME InitialObjectsInNat == InitialObjects \in Nat \ {0} /\ MaxObjects \in Nat

VARIABLES
  spare,    \* obj_list_
  numbers, \* obj_number_, pop_number_
  taken,    \* what each thread has taken
  total     \* history: how many objects were made

poolVars == <<spare, numbers, taken, total>>

Objects == 1 .. MaxObjects

\* The objects alloc_object and init add to the list, called by their numbers.
NewObjects(from, number) == [i \in 1 .. number |-> from + i]

\* init, which the pool's constructor calls, and the constructor of the pool with the mutex
\* again: the list has the objects of both, the counters are set only.
PoolInit ==
  /\ spare = NewObjects(0, InitialObjects) \o NewObjects(InitialObjects, InitialObjects)
  /\ numbers = [obj |-> InitialObjects, pop |-> 0]
  /\ taken = [t \in PoolUsers |-> {}]
  /\ total = 2 * InitialObjects

\* alloc_object, when the list is empty
Allocated == IF spare = <<>> THEN InitialObjects \div 2 + 1 ELSE 0

Available == spare \o NewObjects(total, Allocated)

\* pop_obj.  (Bound: MaxObjects.)
PopObj(t) ==
  /\ total + Allocated <= MaxObjects
  /\ spare' = Tail(Available)
  /\ numbers' = [obj |-> numbers.obj + Allocated, pop |-> numbers.pop + 1]
  /\ taken' = [taken EXCEPT ![t] = @ \cup {Head(Available)}]
  /\ total' = total + Allocated

\* push_obj
PushObj(t, object) ==
  /\ object \in taken[t]
  /\ spare' = Append(spare, object)
  /\ numbers' = [numbers EXCEPT !.pop = IF @ > 0 THEN @ - 1 ELSE 0]
  /\ taken' = [taken EXCEPT ![t] = @ \ {object}]
  /\ UNCHANGED total

\* A thread hands what it has to another: the log's lines, and sessions at their end.
HandOver(t, u, object) ==
  /\ object \in taken[t]
  /\ taken' = [taken EXCEPT ![t] = @ \ {object}, ![u] = @ \cup {object}]
  /\ UNCHANGED <<spare, numbers, total>>

PoolNext ==
  \/ \E t \in PoolUsers : PopObj(t) \/ \E object \in taken[t] : PushObj(t, object)
  \/ \E t, u \in PoolUsers : \E object \in taken[t] : t # u /\ HandOver(t, u, object)

PoolSpec == PoolInit /\ [][PoolNext]_poolVars

-----------------------------------------------------------------------------
PoolTypeOK ==
  /\ spare \in Seq(Objects) /\ taken \in [PoolUsers -> SUBSET Objects]
  /\ numbers \in [{"obj", "pop"} -> Nat]

\* Nothing is lost and nobody shares an object: each that was made is in the list, once, or
\* with one thread.  pop_number_ counts those that are out; obj_number_ the others, too, but
\* those that the pool made twice when it began.
ObjectsHaveOneOwner ==
  /\ \A o \in 1 .. total :
       Cardinality({i \in DOMAIN spare : spare[i] = o}) + Cardinality({t \in PoolUsers : o \in taken[t]}) = 1
  /\ numbers.pop + Len(spare) = total
  /\ numbers.obj + InitialObjects = total
=============================================================================
