----------------------------- MODULE TimeValue ------------------------------
(***************************************************************************)
(* CBaseTimeValue: a time as seconds and microseconds, and its arithmetic. *)
(***************************************************************************)
EXTENDS Integers

CONSTANTS
  SecondUsecs, \* ONE_SECOND_IN_USECS
  TimeValues,  \* to_usec of the values that are added and subtracted
  LastUsec     \* bound

ASSUME TimesArePositive == SecondUsecs \in Nat \ {0} /\ TimeValues \subseteq Nat

VARIABLES
  time,   \* tv_ of a CBaseTimeValue
  before  \* history: the last operation and its operand, and the value before it

timeVars == <<time, before>>

\* to_usec
ToUsec(t) == t.sec * SecondUsecs + t.usec
FromUsec(us) == [sec |-> us \div SecondUsecs, usec |-> us % SecondUsecs]

TimeInit == time = FromUsec(0) /\ before = [op |-> "none", with |-> 0, value |-> FromUsec(0)]

\* (Bound: LastUsec.)
Computed(op, with, new) ==
  /\ ToUsec(new) <= LastUsec
  /\ time' = new
  /\ before' = [op |-> op, with |-> with, value |-> time]

\* Mutant of Subtract: below zero the seconds alone are stopped.
SubtractSeconds(us) ==
  Computed("minus", us, IF time.sec < us \div SecondUsecs THEN [sec |-> 0, usec |-> 0]
                        ELSE [sec |-> time.sec - us \div SecondUsecs,
                              usec |-> (time.usec + SecondUsecs - (us % SecondUsecs)) % SecondUsecs])

\* operator-, operator-=, operator--
Subtract(us) == Computed("minus", us, IF ToUsec(time) < us THEN FromUsec(0) ELSE FromUsec(ToUsec(time) - us))

\* operator+, operator++
Plus(us) == Computed("plus", us, FromUsec(ToUsec(time) + us))

\* operator+=: its own microseconds are added instead of the other's.
Increase(us) ==
  LET own == time.usec + time.usec
  IN  Computed("increase", us, [sec |-> time.sec + us \div SecondUsecs + own \div SecondUsecs,
                                usec |-> own % SecondUsecs])

\* gettimeofday
SetNow(us) == Computed("set", us, FromUsec(us))

TimeNext == \E us \in TimeValues : Subtract(us) \/ Plus(us) \/ Increase(us) \/ SetNow(us)

TimeSpec == TimeInit /\ [][TimeNext]_timeVars

-----------------------------------------------------------------------------
\* operator< and operator==, which do not look at the same thing
Less(t, u) == ToUsec(t) < ToUsec(u)
Same(t, u) == t.sec = u.sec /\ t.usec = u.usec

TimeTypeOK == time.sec \in Nat /\ time.usec \in Nat

\* A value is always in order, after += as well, so that values that are not the same are one
\* less than the other; what + and - compute is exact, and stops at zero.  (What += computes is
\* not: it leaves the other's microseconds out.)
TimeIsExact ==
  LET old == before.value
      us  == before.with
  IN  /\ time.usec < SecondUsecs
      /\ Same(time, old) \/ Less(time, old) \/ Less(old, time)
      /\ before.op = "plus"  => ToUsec(time) = ToUsec(old) + us
      /\ before.op = "minus" => ToUsec(time) = IF ToUsec(old) < us THEN 0 ELSE ToUsec(old) - us
=============================================================================
