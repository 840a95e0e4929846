------------------------------ MODULE RentLadder ------------------------------
(***************************************************************************)
(* What the rent cycle promises, without payments, providers or callers:   *)
(* months are settled one after the other; a month counts as paid only     *)
(* when every older unpaid month has been repaid; the contract is          *)
(* cancelled by the third unpaid month in a row, and by nothing else; and  *)
(* no month is paid after that, though debt may still be repaid.           *)
(***************************************************************************)
EXTENDS Integers

CONSTANT MonthCount

VARIABLES
    standing,    \* how each month ended for the tenant
    repaid,      \* the unpaid months whose debt the tenant has since repaid
    cancelled

ladderVars == <<standing, repaid, cancelled>>

LadderMonth == 1..MonthCount

LadderInit ==
    /\ standing = [m \in LadderMonth |-> "open"]
    /\ repaid = {}
    /\ cancelled = FALSE

IsNext(m) ==
    /\ standing[m] = "open"
    /\ \A e \in LadderMonth : e < m => standing[e] # "open"

PayMonth(m) ==
    /\ ~cancelled
    /\ IsNext(m)
    /\ \A e \in LadderMonth : e < m /\ standing[e] = "unpaid" => e \in repaid
    /\ standing' = [standing EXCEPT ![m] = "paid"]
    /\ UNCHANGED <<repaid, cancelled>>

MissMonth(m) ==
    /\ IsNext(m)
    /\ standing' = [standing EXCEPT ![m] = "unpaid"]
    /\ cancelled' = \/ cancelled
                    \/ m > 2 /\ standing[m - 1] = "unpaid" /\ standing[m - 2] = "unpaid"
    /\ UNCHANGED repaid

\* Repayment is all or nothing: whatever debt is on the books is repaid.
Repay ==
    /\ \E cleared \in SUBSET {m \in LadderMonth : standing[m] = "unpaid"} :
         /\ cleared # {}
         /\ repaid' = repaid \cup cleared
    /\ UNCHANGED <<standing, cancelled>>

LadderNext ==
    \/ \E m \in LadderMonth : PayMonth(m) \/ MissMonth(m)
    \/ Repay

LadderSpec == LadderInit /\ [][LadderNext]_ladderVars

=============================================================================
