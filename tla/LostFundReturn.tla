---------------------------- MODULE LostFundReturn ----------------------------
(* The return a fund withdrawal costs (LostFundReturnTerms). *)
EXTENDS Integers

CONSTANT TickDays  \* days in a tick of the clock

ASSUME TickAssumption == TickDays \in Nat \ {0}

\* Simple return of 3% a month over a 365-day year, floored to a whole rial.
PayableReturn(amount, ticks) == (amount * 3 * 12 * ticks * TickDays) \div (100 * 365)

=============================================================================
