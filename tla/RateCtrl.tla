------------------------------ MODULE RateCtrl ------------------------------
(***************************************************************************)
(* CRateCtrl: a session's estimate of its round-trip time, from the pings  *)
(* that answered keepalives measure, and what follows from it: the times   *)
(* after which repairs and SYNs are sent, and the window.                  *)
(*                                                                         *)
(* Times are milliseconds; the products with 0.5 and 1.5 are cut to whole  *)
(* numbers of 16 bits, as in the code.                                     *)
(***************************************************************************)
EXTENDS Naturals

CONSTANTS
  Pings,       \* round-trip times that are measured
  WindowSizes  \* RUDP_SESSION_PARAM_WINDOW_SIZE, as applications set it

ASSUME PingsAreTimes == Pings \subseteq Nat
ASSUME WindowsAreSizes == WindowSizes \subseteq Nat

VARIABLE rate  \* m_nPing, m_nVariation, m_nWindowSize, m_nWindowAutoFlag

\* Numbers of 16 bits.
Width == 65536

UInt16(n) == n % Width

\* A ping of three seconds and more is not believed.
Believed(n) == UInt16(n) < 3000

\* Mutant of Normalised: long pings are not cut.
NormalisedUncut(n) == IF UInt16(n) < 10 THEN 10 ELSE UInt16(n)

Normalised(n) ==
  IF UInt16(n) < 10 THEN 10 ELSE IF UInt16(n) < 1000 THEN UInt16(n) ELSE 1000

Distance(m, n) == IF m < n THEN n - m ELSE m - n

Clamp(n) == IF n > 128 THEN 128 ELSE IF n < 16 THEN 16 ELSE n

\* getSynTime; getRtt is the same with 25 in place of 155.
SynTime(r) == r.ping + (3 * r.variation + 310) \div 2

RateInit ==
  rate = [ping |-> 50, variation |-> 0, window |-> 100, auto |-> TRUE]

\* A keepalive is answered.
SetPing(n) ==
  /\ Believed(n)
  /\ LET p    == Normalised(n)
         ping == (rate.ping + p) \div 2
     IN  rate' = [rate EXCEPT
           !.ping      = ping,
           !.variation = (@ + Distance(p, rate.ping)) \div 2,
           !.window    = IF rate.auto THEN Clamp((200 * ping) \div 1000) ELSE @]

\* From now on the window stays as the application set it.
SetWindowSize(n) ==
  /\ n > 100
  /\ rate' = [rate EXCEPT !.window = UInt16(n), !.auto = FALSE]

RateNext ==
  \/ \E n \in Pings : SetPing(n)
  \/ \E n \in WindowSizes : SetWindowSize(n)

RateSpec == RateInit /\ [][RateNext]_rate

-----------------------------------------------------------------------------
PingValues      == 10 .. 1000
VariationValues == 0 .. 990

RateTypeOK ==
  rate \in [ping : PingValues, variation : VariationValues, window : 0 .. Width - 1, auto : BOOLEAN]

\* However the pings jump, a SYN is due after 1815 ms at most (1814 is reached): ping and
\* variation are not at their largest together.  The timer wheel turns in 2048 ms, and a timer
\* asked for a whole turn ahead would be lost (RudpTimerWheel).
SynTimeFitsWheel == SynTime(rate) <= 1815
=============================================================================
