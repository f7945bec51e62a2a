------------------------------ MODULE Sockets -------------------------------
(***************************************************************************)
(* The classes around sockets, and the kernel's sockets they hold:         *)
(* CSockDgram, CSockStream, CSockAcceptor (with the stream it listens on)  *)
(* and CSockConnector, with the Inet_Addr they are given.                  *)
(*                                                                         *)
(* The classes do not close a socket that they hold when they are opened   *)
(* again or accept another, and but for CSockAcceptor do not close it when *)
(* they are destroyed.  The model's application opens only what is closed. *)
(***************************************************************************)
EXTENDS Integers, FiniteSets, FiniteSetsExt

CONSTANTS
  Dgrams, Streams, Acceptors, \* the objects; an acceptor stands for its sock_stream_
  Handles,    \* what the kernel has
  LocalIps,   \* the addresses of this host
  PortCount,  \* 2^16
  AddrTexts,      \* [colon, ip, port]: what addresses are read from; ip 0 is any
  TryLimit,   \* 4000
  AnyIpAfter  \* 2000

ASSUME HandlesAndPorts ==
  /\ Handles \subseteq Nat \ {0} /\ IsFiniteSet(Handles) /\ PortCount \in Nat \ {0, 1}
  /\ TryLimit \in Nat /\ AnyIpAfter \in Nat /\ 0 \notin LocalIps

VARIABLES
  holds,    \* handler_ of each object, 0 for INVALID_HANDLER
  kernel    \* the kernel's sockets

sockVars == <<holds, kernel>>

SockObjects == Dgrams \cup Streams \cup Acceptors

NullAddr == [ip |-> 0, port |-> 0]
NoKernelSocket == [kind |-> "none", addr |-> NullAddr, reuse |-> FALSE, listens |-> FALSE]

\* operator=(string): without a colon nothing is set.
AddrOf(text) == IF text.colon THEN [ip |-> text.ip, port |-> text.port % PortCount] ELSE NullAddr

\* is_null
IsNull(addr) == addr.port = 0

SocketsInit ==
  /\ holds = [o \in SockObjects |-> 0]
  /\ kernel = [h \in Handles |-> NoKernelSocket]

-----------------------------------------------------------------------------
\* The kernel's bind.  Sockets with SO_REUSEADDR share a port, streams as long as none listens.
Collide(k, kind, addr, reuse) ==
  /\ k.kind = kind /\ k.addr.port = addr.port
  /\ k.addr.ip = addr.ip \/ 0 \in {k.addr.ip, addr.ip}
  /\ ~(reuse /\ k.reuse) \/ k.listens

MayBind(kind, addr, reuse) ==
  /\ addr.ip \in LocalIps \cup {0}
  /\ \A h \in Handles : ~Collide(kernel[h], kind, addr, reuse)

\* The addresses that bind may give: a port of the kernel's choice where none is asked for.
BoundTo(kind, addr, reuse) ==
  IF addr.port # 0 THEN {a \in {addr} : MayBind(kind, a, reuse)}
  ELSE {a \in {[addr EXCEPT !.port = p] : p \in 1 .. PortCount - 1} : MayBind(kind, a, FALSE)}

FreeHandles == {h \in Handles : kernel[h].kind = "none"}

\* open: the object has a new socket ...
Opens(o, kind, bound, reuse, listens) ==
  \E h \in FreeHandles :
    /\ holds' = [holds EXCEPT ![o] = h]
    /\ kernel' = [kernel EXCEPT ![h] = [kind |-> kind, addr |-> bound, reuse |-> reuse, listens |-> listens]]

\* Mutant of OpenFails: what was opened is not closed.
OpenFailsLeaks(o, kind) ==
  /\ \E h \in FreeHandles : kernel' = [kernel EXCEPT ![h].kind = kind]
  /\ UNCHANGED holds

\* ... or socket fails, or what comes after it, and it is closed again.
OpenFails(o, kind) == UNCHANGED <<holds, kernel>>

\* CSockDgram::open: binds whatever the address is.
OpenDgram(o, addr, reuse) ==
  /\ holds[o] = 0
  /\ \/ \E b \in BoundTo("dgram", addr, reuse) : Opens(o, "dgram", b, reuse, FALSE)
     \/ OpenFails(o, "dgram")

\* CSockStream::open of a server's socket: no port, no bind.
OpenStream(o, addr, reuse) ==
  /\ holds[o] = 0
  /\ \/ IsNull(addr) /\ Opens(o, "stream", NullAddr, FALSE, FALSE)
     \/ ~IsNull(addr) /\ \E b \in BoundTo("stream", addr, reuse) : Opens(o, "stream", b, reuse, FALSE)
     \/ OpenFails(o, "stream")

\* The address after i binds failed: the next port, and, after many, on any address.
TryAddr(addr, i) ==
  [ip |-> IF i > AnyIpAfter THEN 0 ELSE addr.ip, port |-> (addr.port + i) % PortCount]

\* CSockStream::open of a client's socket: bind until it succeeds.
OpenClient(o, addr, reuse) ==
  LET works == {i \in 0 .. TryLimit : BoundTo("stream", TryAddr(addr, i), reuse) # {}}
  IN  /\ holds[o] = 0 /\ ~IsNull(addr)
      /\ IF works = {} THEN OpenFails(o, "stream")
         ELSE \E b \in BoundTo("stream", TryAddr(addr, Min(works)), reuse) :
                Opens(o, "stream", b, reuse, FALSE)

\* CSockAcceptor::open: listen binds a socket that is not bound.
OpenAcceptor(o, addr) ==
  /\ holds[o] = 0
  /\ \/ \E b \in BoundTo("stream", addr, ~IsNull(addr)) : Opens(o, "stream", b, ~IsNull(addr), TRUE)
     \/ OpenFails(o, "stream")

\* CBaseSocket::close, CSockAcceptor::close and its destructor
CloseSocket(o) ==
  /\ holds[o] # 0
  /\ kernel' = [kernel EXCEPT ![holds[o]] = NoKernelSocket]
  /\ holds' = [holds EXCEPT ![o] = 0]

\* accept into a stream; it fails where no connection waits, too, and changes nothing.
AcceptStream(a, o) ==
  /\ holds[a] # 0 /\ holds[o] = 0
  /\ \E h \in FreeHandles :
       /\ holds' = [holds EXCEPT ![o] = h]
       /\ kernel' = [kernel EXCEPT ![h] = [kernel[holds[a]] EXCEPT !.listens = FALSE]]

\* CSockConnector::connect, whose failing leaves the stream open: the kernel binds what is not.
ConnectStream(o, remote) ==
  /\ holds[o] # 0 /\ ~IsNull(remote)
  /\ IsNull(kernel[holds[o]].addr)
  /\ \E b \in BoundTo("stream", NullAddr, FALSE) :
       kernel' = [kernel EXCEPT ![holds[o]].addr = b]
  /\ UNCHANGED holds

SocketsNext ==
  \/ \E t \in AddrTexts : LET addr == AddrOf(t)
                      IN  \/ \E reuse \in BOOLEAN :
                               \/ \E o \in Dgrams : OpenDgram(o, addr, reuse)
                               \/ \E o \in Streams : OpenStream(o, addr, reuse) \/ OpenClient(o, addr, reuse)
                          \/ \E o \in Acceptors : OpenAcceptor(o, addr)
                          \/ \E o \in Streams : ConnectStream(o, addr)
  \/ \E o \in SockObjects : CloseSocket(o)
  \/ \E a \in Acceptors, o \in Streams : AcceptStream(a, o)

SocketsSpec == SocketsInit /\ [][SocketsNext]_sockVars

-----------------------------------------------------------------------------
SocketsTypeOK ==
  /\ holds \in [SockObjects -> Handles \cup {0}]
  /\ \A h \in Handles : kernel[h].kind \in {"none", "dgram", "stream"} /\ kernel[h].addr.port \in 0 .. PortCount - 1

\* Every socket the kernel has open is held by one object, and every object that is open
\* holds one: whatever step of an open fails, it leaves nothing behind.
SocketsHaveHolders ==
  \A h \in Handles :
    Cardinality({o \in SockObjects : holds[o] = h}) = IF kernel[h].kind = "none" THEN 0 ELSE 1
=============================================================================
