---------------------------- MODULE CacheBuffer -----------------------------
(***************************************************************************)
(* CacheBuffer_T: units of a media stream by their key, in a ring.  New    *)
(* keys go in at the end, with places left for keys that were skipped;     *)
(* those may come late; the foremost unit is taken out.                    *)
(*                                                                         *)
(* The ring keeps units apart as long as its use is regular: the first key *)
(* is a multiple of the capacity (insert counts the first place from 0,    *)
(* find from the first key), the keys never span the ring (insert does not *)
(* raise the smallest key, and compares the foremost place before it       *)
(* reduces the new one modulo CAPACITY), and nothing is taken out before   *)
(* something was put in (the places are not initialised).  The module      *)
(* models every use, and notes whether it has been regular.                *)
(***************************************************************************)
EXTENDS Naturals

CONSTANTS
  CacheCapacity, \* CAPACITY
  FirstKeys,     \* keys that a stream begins with
  LastKey        \* bound

ASSUME CacheHasPlaces == CacheCapacity \in Nat \ {0} /\ LastKey \in Nat /\ FirstKeys \subseteq 1 .. LastKey

VARIABLES
  ring,     \* buffer_
  places,   \* min_index_, max_index_
  keys,     \* min_key_, max_key_
  kept,     \* history: the keys of the units that were put in and not taken out
  erased,   \* history: what the last erase returned, 0 for NULL, and which unit it was due
  regular   \* history: whether the cache has been used as it can be

cacheVars == <<ring, places, keys, kept, erased, regular>>

Places == 0 .. CacheCapacity - 1

\* A unit is called by its key; 0 is NULL, and Junk whatever else the memory has.
Junk == LastKey + 1

\* new T[CAPACITY] leaves pointers as they are.
CacheInit ==
  /\ \E junk \in SUBSET Places : ring = [i \in Places |-> IF i \in junk THEN Junk ELSE 0]
  /\ places = [min |-> 0, max |-> 0] /\ keys = [min |-> 0, max |-> 0]
  /\ kept = {} /\ erased = [unit |-> 0, due |-> 0] /\ regular = TRUE

PlaceOf(key) == (key - keys.min + places.min) % CacheCapacity

\* emtpy
EmptyCache == places = [min |-> 0, max |-> 0] /\ ring[0] = 0

\* Mutant of Found: the place of the foremost unit is taken to be the first.
FoundFromFirst(key) ==
  IF key \in keys.min .. keys.max THEN ring[(key - keys.min) % CacheCapacity] ELSE 0

\* find
Found(key) == IF key \in keys.min .. keys.max THEN ring[PlaceOf(key)] ELSE 0

-----------------------------------------------------------------------------
\* insert of a key between the first and the last
InsertLate(key) ==
  /\ key > keys.min /\ key < keys.max
  /\ ring[PlaceOf(key)] = 0
  /\ ring' = [ring EXCEPT ![PlaceOf(key)] = key]
  /\ kept' = kept \cup {key}
  /\ UNCHANGED <<places, keys, erased, regular>>

\* The loop of insert, by its steps: max_index_ is compared before it is reduced.
Walk(steps) ==
  LET at[n \in 0 .. steps] ==
        IF n = 0 THEN places
        ELSE [min |-> IF at[n - 1].max + 1 = at[n - 1].min
                      THEN (at[n - 1].min + 1) % CacheCapacity ELSE at[n - 1].min,
              max |-> (at[n - 1].max + 1) % CacheCapacity]
  IN  at

\* insert of a key behind the last: the places up to it are emptied.
InsertNew(key) ==
  LET steps == key - keys.max
      at    == Walk(steps)
  IN  /\ key > keys.max
      /\ keys.min = 0 => key \in FirstKeys
      /\ ring' = [i \in Places |-> IF i = at[steps].max THEN key
                                  ELSE IF \E n \in 1 .. steps : i = at[n].max THEN 0 ELSE ring[i]]
      /\ places' = at[steps]
      /\ keys' = [min |-> IF keys.min = 0 THEN key ELSE keys.min, max |-> key]
      /\ kept' = kept \cup {key}
      /\ regular' = (regular /\ IF keys.min = 0 THEN key % CacheCapacity = 0
                                                ELSE key < keys.min + CacheCapacity)
      /\ UNCHANGED erased

\* erase: of the last unit, which puts both places back to the first and leaves the keys, or
\* of the foremost.
Erase ==
  /\ ~EmptyCache
  /\ ring' = [ring EXCEPT ![places.min] = 0]
  /\ IF places.min = places.max
     THEN places' = [min |-> 0, max |-> 0] /\ UNCHANGED keys
     ELSE /\ places' = [places EXCEPT !.min = (@ + 1) % CacheCapacity]
          /\ keys' = [keys EXCEPT !.min = @ + 1]
  /\ erased' = [unit |-> ring[places.min], due |-> IF keys.min \in kept THEN keys.min ELSE 0]
  /\ kept' = kept \ {keys.min}
  /\ regular' = (regular /\ keys.min # 0)

CacheNext ==
  \/ \E key \in 1 .. LastKey : InsertLate(key) \/ InsertNew(key)
  \/ Erase

CacheSpec == CacheInit /\ [][CacheNext]_cacheVars

-----------------------------------------------------------------------------
CacheTypeOK ==
  /\ ring \in [Places -> 0 .. Junk]
  /\ places \in [{"min", "max"} -> Places] /\ keys \in [{"min", "max"} -> Nat]
  /\ kept \subseteq 1 .. LastKey /\ regular \in BOOLEAN

\* The cache gives what was put in, while its use is regular: find leads to the unit of that
\* key, or to nothing if it was skipped or taken out, however the ring has turned; and erase
\* takes the foremost.
CacheGivesWhatWasPut ==
  regular =>
    /\ \A key \in 1 .. LastKey : Found(key) = IF key \in kept THEN key ELSE 0
    /\ erased.unit = erased.due

\* What the members' comments say: min_index_ is the place of the smallest key, min_key_; that
\* unit is there, or none.  It is not so when the use is not regular.
MinIndexIsSmallestKey == keys.min # 0 => ring[places.min] \in {0, keys.min}
=============================================================================
