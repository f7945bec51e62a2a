---------------------------- MODULE EpollReactor -----------------------------
(***************************************************************************)
(* CEpollReactor: the table of event handlers, the interest list that the  *)
(* kernel keeps for it, and the loop that hands the kernel's events to the *)
(* handlers.                                                               *)
(*                                                                         *)
(* The loop takes a batch of events and believes the pointers in it: it    *)
(* does not look up whether a handler is still registered.  While one of   *)
(* the handlers is called, it may change its own masks and register        *)
(* others; handlers are deleted by others only from the message queue,     *)
(* between batches, as base_epoll_reactor.h asks.                          *)
(***************************************************************************)
EXTENDS Naturals, FiniteSets, FiniteSetsExt, Functions

CONSTANTS
  Connections, \* the event handlers
  HeapSize,    \* EPOLL_HEAP_SIZE, 65536
  MaxFd        \* bound: how many sockets may be open

ASSUME HeapHasIndexes == HeapSize \in Nat \ {0, 1} /\ MaxFd \in Nat

VARIABLES
  entries,   \* handler_heap_ without its NULL entries: index -> info
  freeSet,   \* free_set_
  index,     \* reactor_index_ of every handler
  fd,        \* get_handle() of every handler, 0 if it is invalid
  interest,  \* the kernel's interest list: fd -> handler and masks
  batch,     \* the events of the batch that are still to come
  event,     \* the event that is handed on, with what is left of it
  calling,   \* its handler is being called
  stopped,   \* stop_event_loop has run
  refused    \* history: the handlers whose last change of masks the kernel refused

epollVars == <<entries, freeSet, index, fd, interest, batch, event, calling, stopped, refused>>

Masks   == {"read", "write"}
Indexes == 1 .. HeapSize - 1
Fds     == 1 .. MaxFd

NoEvent == [handler |-> "none", kinds |-> {}]

EpollInit ==
  /\ entries = <<>> /\ freeSet = Indexes
  /\ index = [h \in Connections |-> 0] /\ fd = [h \in Connections |-> 0]
  /\ interest = <<>>
  /\ batch = {} /\ event = NoEvent /\ calling = FALSE /\ stopped = FALSE
  /\ refused = {}

\* find_handler_info finds something.
Registered(h) == index[h] \in DOMAIN entries /\ entries[index[h]].handler = h

MasksOf(h) == IF Registered(h) THEN entries[index[h]].masks ELSE {}

BetweenBatches == batch = {} /\ event = NoEvent

\* Who may call register_handler and remove_handler for h now.
MayCallFor(h) == BetweenBatches \/ (calling /\ (h = event.handler \/ ~Registered(h)))

Set(f, x, v) == [y \in DOMAIN f \cup {x} |-> IF y = x THEN v ELSE f[y]]

-----------------------------------------------------------------------------
\* The application opens a socket: the system gives it the lowest free number.
OpenSocket(h) ==
  /\ BetweenBatches \/ calling
  /\ fd[h] = 0
  /\ Fds \ Range(fd) # {}
  /\ fd' = [fd EXCEPT ![h] = Min(Fds \ Range(fd))]
  /\ UNCHANGED <<entries, freeSet, index, interest, batch, event, calling, stopped, refused>>

\* The kernel takes the masks that handler h has in its entry at index i.
KernelTakes(h, i, all) ==
  /\ entries' = Set(entries, i, [handler |-> h, masks |-> all])
  /\ interest' = Set(interest, fd[h], [handler |-> h, masks |-> all])
  /\ refused' = refused \ {h}

\* EPOLL_CTL_MOD fails: the call returns -1, with the new masks in the handler's entry.
KernelRefuses(h, all) ==
  /\ Registered(h)
  /\ entries' = Set(entries, index[h], [handler |-> h, masks |-> all])
  /\ refused' = refused \cup {h}
  /\ UNCHANGED <<freeSet, index, interest>>

\* Mutant of RegisterHandler: the kernel is told the new masks only.
RegisterHandlerNewMasks(h, masks) ==
  /\ MayCallFor(h)
  /\ fd[h] # 0 /\ freeSet # {}
  /\ LET i == IF Registered(h) THEN index[h] ELSE Min(freeSet)
     IN  /\ entries' = Set(entries, i, [handler |-> h, masks |-> MasksOf(h) \cup masks])
         /\ index' = [index EXCEPT ![h] = i]
         /\ freeSet' = freeSet \ {i}
         /\ interest' = Set(interest, fd[h], [handler |-> h, masks |-> masks])
         /\ refused' = refused \ {h}
  /\ UNCHANGED <<fd, batch, event, calling, stopped>>

\* A full table refuses handlers that are registered already as well.  An EPOLL_CTL_ADD that
\* fails changes nothing.
RegisterHandler(h, masks) ==
  /\ MayCallFor(h)
  /\ fd[h] # 0 /\ freeSet # {}
  /\ LET i   == IF Registered(h) THEN index[h] ELSE Min(freeSet)
         all == MasksOf(h) \cup masks
     IN  \/ /\ KernelTakes(h, i, all)
            /\ index' = [index EXCEPT ![h] = i]
            /\ freeSet' = freeSet \ {i}
         \/ KernelRefuses(h, all)
  /\ UNCHANGED <<fd, batch, event, calling, stopped>>

RemoveHandler(h, masks) ==
  /\ MayCallFor(h)
  /\ Registered(h)
  /\ LET left == MasksOf(h) \ masks
     IN  \/ KernelTakes(h, index[h], left) /\ UNCHANGED <<freeSet, index>>
         \/ KernelRefuses(h, left)
  /\ UNCHANGED <<fd, batch, event, calling, stopped>>

\* delete_handler, and then the handler's handle_close, which closes its socket.
DeleteAndClose(h) ==
  /\ IF Registered(h)
     THEN /\ entries' = Restrict(entries, DOMAIN entries \ {index[h]})
          /\ freeSet' = freeSet \cup {index[h]}
          /\ index' = [index EXCEPT ![h] = 0]
     ELSE UNCHANGED <<entries, freeSet, index>>
  /\ interest' = Restrict(interest, DOMAIN interest \ {fd[h]})
  /\ fd' = [fd EXCEPT ![h] = 0]
  /\ refused' = refused \ {h}

\* The message queue has a handler deleted.
DeleteHandler(h) ==
  /\ BetweenBatches
  /\ Registered(h)
  /\ DeleteAndClose(h)
  /\ UNCHANGED <<batch, event, calling, stopped>>

-----------------------------------------------------------------------------
\* epoll_wait: at most one event a socket, of the kinds asked for, or that it was hung up.
EpollWait ==
  /\ BetweenBatches
  /\ \E ready \in SUBSET DOMAIN interest \ {{}} :
     \E kinds \in [ready -> SUBSET (Masks \cup {"hup"}) \ {{}}] :
       /\ \A f \in ready : kinds[f] \subseteq interest[f].masks \cup {"hup"}
       /\ batch' = {[handler |-> interest[f].handler, kinds |-> kinds[f]] : f \in ready}
  /\ UNCHANGED <<entries, freeSet, index, fd, interest, event, calling, stopped, refused>>

\* The next event of the batch.
NextEvent ==
  /\ event.kinds = {} /\ ~calling
  /\ IF batch = {}
     THEN event # NoEvent /\ event' = NoEvent /\ batch' = batch
     ELSE \E e \in batch : event' = e /\ batch' = batch \ {e}
  /\ UNCHANGED <<entries, freeSet, index, fd, interest, calling, stopped, refused>>

\* handle_input, then handle_output.
CallHandler ==
  /\ ~calling
  /\ event.kinds \cap Masks # {}
  /\ calling' = TRUE
  /\ UNCHANGED <<entries, freeSet, index, fd, interest, batch, event, stopped, refused>>

Called == IF "read" \in event.kinds THEN "read" ELSE "write"

\* The handler returns: what it was called for is done with.
HandlerReturns ==
  /\ calling
  /\ calling' = FALSE
  /\ event' = [event EXCEPT !.kinds = @ \ {Called}]
  /\ UNCHANGED <<entries, freeSet, index, fd, interest, batch, stopped, refused>>

\* Mutant of HandlerFails: the loop goes on with the event of the handler it has closed.
HandlerFailsGoesOn ==
  /\ calling
  /\ calling' = FALSE
  /\ DeleteAndClose(event.handler)
  /\ event' = [event EXCEPT !.kinds = @ \ {Called}]
  /\ UNCHANGED <<batch, stopped>>

\* The handler returns an error: it is deleted and closed, the rest of the event is dropped.
HandlerFails ==
  /\ calling
  /\ calling' = FALSE
  /\ DeleteAndClose(event.handler)
  /\ event' = [event EXCEPT !.kinds = {}]
  /\ UNCHANGED <<batch, stopped>>

\* EPOLLHUP or EPOLLERR
HungUp ==
  /\ ~calling
  /\ event.kinds = {"hup"}
  /\ DeleteAndClose(event.handler)
  /\ event' = [event EXCEPT !.kinds = {}]
  /\ UNCHANGED <<batch, calling, stopped>>

\* stop_event_loop: every handler is closed, and none can be registered any more.
StopEventLoop ==
  /\ BetweenBatches /\ ~stopped
  /\ stopped' = TRUE
  /\ entries' = <<>> /\ freeSet' = {} /\ refused' = {}
  /\ fd' = [h \in Connections |-> IF Registered(h) THEN 0 ELSE fd[h]]
  /\ interest' = Restrict(interest, {f \in DOMAIN interest : ~Registered(interest[f].handler)})
  /\ UNCHANGED <<index, batch, event, calling>>

EpollNext ==
  \/ EpollWait \/ NextEvent \/ CallHandler \/ HandlerReturns \/ HandlerFails \/ HungUp
  \/ StopEventLoop
  \/ \E h \in Connections :
       \/ OpenSocket(h) \/ DeleteHandler(h)
       \/ \E masks \in SUBSET Masks \ {{}} : RegisterHandler(h, masks) \/ RemoveHandler(h, masks)

EpollSpec == EpollInit /\ [][EpollNext]_epollVars

-----------------------------------------------------------------------------
EpollTypeOK ==
  /\ DOMAIN entries \subseteq Indexes
  /\ \A i \in DOMAIN entries : entries[i] \in [handler : Connections, masks : SUBSET Masks]
  /\ freeSet \subseteq Indexes
  /\ index \in [Connections -> 0 .. HeapSize - 1] /\ fd \in [Connections -> 0 .. MaxFd]
  /\ DOMAIN interest \subseteq Fds
  /\ batch \subseteq [handler : Connections, kinds : SUBSET (Masks \cup {"hup"})]
  /\ event \in [handler : Connections \cup {"none"}, kinds : SUBSET (Masks \cup {"hup"})]
  /\ calling \in BOOLEAN /\ stopped \in BOOLEAN /\ refused \subseteq Connections

\* Until the loop is stopped every index is free or has one handler that knows it.
IndexesSound ==
  /\ \A i \in DOMAIN entries : index[entries[i].handler] = i
  /\ ~stopped => freeSet = Indexes \ DOMAIN entries

\* The kernel watches the sockets of the registered handlers and no others, and for what their
\* entries say, except where it refused the last change of a handler's masks: such an entry has
\* the masks that were asked for and the kernel the old ones, until a later change is taken,
\* which brings the kernel all of them.  The table agrees with the handlers, however far a
\* registration came: no index is lost, and none has two handlers.
KernelAgrees ==
  /\ IndexesSound
  /\ DOMAIN interest = {fd[h] : h \in {g \in Connections : Registered(g)}}
  /\ \A f \in DOMAIN interest :
       LET h == interest[f].handler
       IN  Registered(h) /\ fd[h] = f /\ (h \in refused \/ interest[f].masks = MasksOf(h))

\* No handler is called that is not registered, and none is closed twice: whatever earlier
\* events of the batch have led to, the events still to come are for registered handlers.
EventsReachRegistered ==
  /\ \A e \in batch : Registered(e.handler)
  /\ event.kinds # {} => Registered(event.handler)
=============================================================================
