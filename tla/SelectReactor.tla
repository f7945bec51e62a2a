---------------------------- MODULE SelectReactor ----------------------------
(***************************************************************************)
(* CSelectReator: handlers listed by descriptor, and the loop that builds  *)
(* the sets of descriptors, waits in select, and walks through the list    *)
(* again to call the handlers whose bits are set.                          *)
(*                                                                         *)
(* A handler that is called may register and delete others.  An entry that *)
(* is deleted stays in the list, marked, until sets are built again; its   *)
(* bits are cleared at once, because its descriptor may have a new owner   *)
(* before the walk comes to it.                                            *)
(***************************************************************************)
EXTENDS Naturals, FiniteSets, FiniteSetsExt, Functions

CONSTANTS
  Clients,     \* the event handlers
  Descriptors, \* the numbers of open descriptors, without 0
  RegisterIn   \* in which calls the application registers handlers

ASSUME DescriptorsAreNumbers == Descriptors \subseteq Nat \ {0} /\ IsFiniteSet(Descriptors)

VARIABLES
  listed,   \* handler_map_: descriptor -> ReactorEventHandlerInfo
  handle,   \* get_handle() of every handler, 0 if it is invalid
  bits,     \* read_set, write_set, expeption_set
  walk,     \* which loop runs, where it is, which bit is next, and fd
  inside,   \* the handler that is being called, and whether its entry is erased then
  asked,    \* history: what each handler that is registered has asked for
  offered   \* history: the handlers that were registered when select returned, with descriptor

selectVars == <<listed, handle, bits, walk, inside, asked, offered>>

SelectMasks == {"read", "write"}
NoBits   == [read |-> {}, write |-> {}, except |-> {}]
Resting  == [loop |-> "none", from |-> 0, bit |-> "except", fd |-> 0]
Nobody   == [call |-> "none", client |-> "none", fd |-> 0, erase |-> FALSE]

SelectInit ==
  /\ listed = <<>> /\ handle = [h \in Clients |-> 0] /\ bits = NoBits
  /\ walk = Resting /\ inside = Nobody /\ asked = <<>> /\ offered = {}

Without(f, x) == Restrict(f, DOMAIN f \ {x})
Updated(f, x, v) == [y \in DOMAIN f \cup {x} |-> IF y = x THEN v ELSE f[y]]

\* The application runs in a call, or between two rounds: in a timer or the message queue.
MayAct == inside # Nobody \/ walk = Resting

\* Where it opens and registers: not in the calls of a handler whose socket is gone.
MayRegister == MayAct /\ inside.call \in RegisterIn /\ (inside = Nobody \/ inside.fd # 0)

-----------------------------------------------------------------------------
\* The system gives the lowest free descriptor.  (A handler the list still holds keeps to
\* its socket.)
ClientOpens(h) ==
  /\ MayRegister
  /\ handle[h] = 0
  /\ \A d \in DOMAIN listed : listed[d].client = h => listed[d].closing
  /\ Descriptors \ Range(handle) # {}
  /\ handle' = [handle EXCEPT ![h] = Min(Descriptors \ Range(handle))]
  /\ UNCHANGED <<listed, bits, walk, inside, asked, offered>>

\* register_handler: an entry of the same descriptor is taken over, with its masks.
SelectRegister(h, masks) ==
  /\ MayRegister
  /\ handle[h] # 0
  /\ LET d == handle[h]
     IN  listed' = Updated(listed, d, [client |-> h, closing |-> FALSE,
                     masks |-> masks \cup IF d \in DOMAIN listed THEN listed[d].masks ELSE {}])
  /\ asked' = Updated(asked, h, masks \cup IF h \in DOMAIN asked THEN asked[h] ELSE {})
  /\ UNCHANGED <<handle, bits, walk, inside, offered>>

\* remove_handler
SelectRemove(h, masks) ==
  /\ MayAct
  /\ h \in DOMAIN asked /\ handle[h] \in DOMAIN listed
  /\ listed' = [listed EXCEPT ![handle[h]].masks = @ \ masks]
  /\ asked' = [asked EXCEPT ![h] = @ \ masks]
  /\ UNCHANGED <<handle, bits, walk, inside, offered>>

\* Mutant of BitsCleared: the bits stay.
BitsClearedNot(d) == bits

\* FD_CLR
BitsCleared(d) == [s \in DOMAIN bits |-> bits[s] \ {d}]

\* delete_handler
SelectDelete(h) ==
  /\ MayAct
  /\ h \in DOMAIN asked /\ handle[h] \in DOMAIN listed
  /\ bits' = BitsCleared(handle[h])
  /\ listed' = [listed EXCEPT ![handle[h]].closing = TRUE]
  /\ asked' = Without(asked, h)
  /\ UNCHANGED <<handle, walk, inside, offered>>

\* The application closes the socket of a handler it has deleted, or that is told of its end,
\* or, between two rounds, of any.
ClientCloses(h) ==
  /\ MayAct
  /\ handle[h] # 0
  /\ h \notin DOMAIN asked \/ walk = Resting \/ (inside.client = h /\ inside.erase)
  /\ handle' = [handle EXCEPT ![h] = 0]
  /\ asked' = Without(asked, h)
  /\ UNCHANGED <<listed, bits, walk, inside, offered>>

-----------------------------------------------------------------------------
From(d) == {e \in DOMAIN listed : e >= d}
Here    == Min(From(walk.from))
NextOf(d) == IF From(d + 1) = {} THEN Max(Descriptors) + 1 ELSE Min(From(d + 1))

\* event_loop, noblock_loop: a round begins.
BuildSets ==
  /\ walk = Resting /\ listed # <<>>
  /\ bits' = NoBits
  /\ walk' = [Resting EXCEPT !.loop = "build"]
  /\ UNCHANGED <<listed, handle, inside, asked, offered>>

\* One entry: marked, it is erased; without a socket, its handler is told; else its bits are
\* set.
BuildEntry ==
  /\ walk.loop = "build" /\ inside = Nobody /\ From(walk.from) # {}
  /\ LET d == Here
         e == listed[d]
         f == handle[e.client]
     IN  \/ /\ e.closing
            /\ listed' = Without(listed, d)
            /\ walk' = [walk EXCEPT !.from = d + 1]
            /\ UNCHANGED <<bits, inside>>
         \/ /\ ~e.closing /\ f = 0
            /\ inside' = [call |-> "close", client |-> e.client, fd |-> 0, erase |-> FALSE]
            /\ walk' = [walk EXCEPT !.from = NextOf(d)]
            /\ UNCHANGED <<listed, bits>>
         \/ /\ ~e.closing /\ f # 0
            /\ bits' = [s \in DOMAIN bits |->
                          bits[s] \cup IF s = "except" \/ s \in e.masks THEN {f} ELSE {}]
            /\ walk' = [walk EXCEPT !.from = d + 1]
            /\ UNCHANGED <<listed, inside>>
  /\ UNCHANGED <<handle, asked, offered>>

\* select leaves the bits of what is ready.  An error ends the round.
Select ==
  /\ walk.loop = "build" /\ inside = Nobody /\ From(walk.from) = {}
  /\ \/ /\ \E r \in SUBSET bits.read, w \in SUBSET bits.write, x \in SUBSET bits.except :
             bits' = [read |-> r, write |-> w, except |-> x]
        /\ walk' = [Resting EXCEPT !.loop = "dispatch"]
        /\ offered' = {<<h, handle[h]>> : h \in DOMAIN asked}
     \/ walk' = Resting /\ bits' = NoBits /\ UNCHANGED offered
  /\ UNCHANGED <<listed, handle, inside, asked>>

\* FD_ISSET; of an invalid handle it reads some bit.
MaySet(f, s) == IF f = 0 THEN BOOLEAN ELSE {f \in bits[s]}

Calling(h, call, f, erase) == [call |-> call, client |-> h, fd |-> f, erase |-> erase]

\* One bit of the entry that is next: its handler is called, or the next bit looked at.
\* The mark and the descriptor are read once, before the first bit.
DispatchBit ==
  /\ walk.loop = "dispatch" /\ inside = Nobody /\ From(walk.from) # {}
  /\ LET d == Here
         e == listed[d]
         f == IF walk.bit = "except" THEN handle[e.client] ELSE walk.fd
         Bit(call, wanted, next) ==
           /\ \E set \in MaySet(f, walk.bit) :
                inside' = IF set /\ wanted THEN Calling(e.client, call, f, call = "exception")
                          ELSE Nobody
           /\ walk' = next
     IN  \/ /\ walk.bit = "except" /\ e.closing
            /\ walk' = [walk EXCEPT !.from = d + 1]
            /\ UNCHANGED inside
         \/ /\ walk.bit = "except" /\ ~e.closing
            /\ Bit("exception", TRUE, [walk EXCEPT !.from = d, !.bit = "read", !.fd = f])
         \/ /\ walk.bit = "read"
            /\ Bit("input", "read" \in e.masks, [walk EXCEPT !.bit = "write"])
         \/ /\ walk.bit = "write"
            /\ Bit("output", "write" \in e.masks, [Resting EXCEPT !.loop = "dispatch", !.from = d + 1])
  /\ UNCHANGED <<listed, handle, bits, asked, offered>>

\* The position of the entry whose handler was called.
EntryCalled == IF walk.bit = "except" THEN walk.from - 1 ELSE walk.from

\* A call returns.  After handle_exception and after a handle_close that an error led to,
\* the entry is erased, whatever it holds by now, and the walk goes on behind it.
ClientReturns ==
  /\ inside # Nobody
  /\ IF inside.erase
     THEN /\ listed' = Without(listed, EntryCalled)
          /\ asked' = Without(asked, inside.client)
          /\ walk' = [Resting EXCEPT !.loop = walk.loop, !.from = EntryCalled + 1]
     ELSE UNCHANGED <<listed, asked, walk>>
  /\ inside' = Nobody
  /\ UNCHANGED <<handle, bits, offered>>

\* handle_input or handle_output returns -1 or -2.  (A handler that has deleted itself, or
\* has moved to another socket, does not report an error.)
ClientFails ==
  /\ inside.call \in {"input", "output"}
  /\ inside.client \in DOMAIN asked /\ handle[inside.client] = inside.fd
  /\ \E call \in {"close", "exception"} :
       inside' = [inside EXCEPT !.call = call, !.erase = TRUE]
  /\ UNCHANGED <<listed, handle, bits, walk, asked, offered>>

RoundEnds ==
  /\ walk.loop = "dispatch" /\ inside = Nobody /\ From(walk.from) = {}
  /\ walk' = Resting /\ bits' = NoBits /\ offered' = {}
  /\ UNCHANGED <<listed, handle, inside, asked>>

SelectStop ==
  /\ walk = Resting
  /\ listed # <<>>
  /\ listed' = <<>> /\ asked' = <<>>
  /\ UNCHANGED <<handle, bits, walk, inside, offered>>

SelectNext ==
  \/ \E h \in Clients :
       \/ ClientOpens(h) \/ SelectDelete(h) \/ ClientCloses(h)
       \/ \E m \in SelectMasks : SelectRegister(h, {m}) \/ SelectRemove(h, {m})
  \/ BuildSets \/ BuildEntry \/ Select \/ DispatchBit
  \/ ClientReturns \/ ClientFails \/ RoundEnds \/ SelectStop

SelectSpec == SelectInit /\ [][SelectNext]_selectVars

-----------------------------------------------------------------------------
SelectTypeOK ==
  /\ DOMAIN listed \subseteq Descriptors
  /\ \A d \in DOMAIN listed : /\ listed[d].client \in Clients /\ listed[d].closing \in BOOLEAN
                              /\ listed[d].masks \subseteq SelectMasks
  /\ handle \in [Clients -> Descriptors \cup {0}]
  /\ \A s \in DOMAIN bits : bits[s] \subseteq Descriptors
  /\ walk.loop \in {"none", "build", "dispatch"} /\ walk.bit \in DOMAIN bits
  /\ inside.call \in {"none", "close", "exception", "input", "output"}

\* A handler is called only for an event that select reported while it was registered, and
\* only if it is registered still: never for one of the descriptor's former owner.  And
\* nobody's registration is lost: a handler that has asked for something, and was neither
\* deleted nor closed, is listed under its descriptor with all it asked for.
SelectServesItsOwn ==
  /\ inside.call \in {"input", "output"} /\ inside.fd # 0 =>
       <<inside.client, inside.fd>> \in offered
  /\ \A h \in DOMAIN asked :
       /\ handle[h] \in DOMAIN listed
       /\ LET e == listed[handle[h]]
          IN  e.client = h /\ ~e.closing /\ asked[h] \subseteq e.masks
=============================================================================
