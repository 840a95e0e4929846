------------------------ MODULE CancellationSettlement ------------------------
(***************************************************************************)
(* The end of a cancelled contract: the worker pays what is left of the    *)
(* tenant contribution to the owner (EfCancellationSettlementService) and  *)
(* then returns the frozen bank principal to the bank                      *)
(* (EfCancellationBankPrincipalSettlementService).  Both are transfers in  *)
(* two transactions with a provider call between them.                     *)
(*                                                                         *)
(* The contract arrives here as in TenantCoverage.  A pass that is late    *)
(* may close a month once more and write the contract's transition a       *)
(* second time; the cutoff, which must be the only transition, is then     *)
(* Never, and the contract stays CancellationPending for good.  A          *)
(* repayment of the tenant, ArrearsRepayment in detail, is reduced to its  *)
(* confirmation while the contract is Active and its posting, at any later *)
(* time.                                                                   *)
(***************************************************************************)
EXTENDS TenantCoverage, LostFundReturn

CONSTANT Nobody  \* no repayment under way

Leg == {"owner", "bank"}

Call == [leg : Leg, response : Response \cup {"none"}]

Repayment == [items : SUBSET Instruction, at : Time]

ASSUME SettlementAssumption == Idle \notin Call /\ Nobody \notin Repayment

VARIABLES
    settlement,  \* CancellationSettlementRow.Status
    residual,    \* its AmountRial
    retained,    \* lost fund return journaled as income of the fund
    order,       \* ExternalTransactionRow.Status of the two transfers
    payout,      \* what really happened to them
    journals,    \* journal entries of the frozen bank principal
    call,        \* the transfer each worker is asking about
    repayment    \* a repayment confirmed and not yet posted

settlementVars == <<settlement, residual, retained, order, payout, journals, call, repayment>>
vars == <<coverageVars, settlementVars>>

SettlementTypeOK ==
    /\ settlement \in {"none", "Pending", "Unknown", "Completed", "Failed"}
    /\ order \in [Leg -> {"none", "Pending", "Unknown", "Succeeded", "Failed"}]
    /\ payout \in [Leg -> {"none", "started", "moved", "rejected"}]
    /\ journals \subseteq {"recognition", "return"}
    /\ call \in [Workers -> Call \cup {Idle}]
    /\ repayment \in Repayment \cup {Nobody}

SettlementInit ==
    /\ settlement = "none"
    /\ residual = 0
    /\ retained = 0
    /\ order = [l \in Leg |-> "none"]
    /\ payout = [l \in Leg |-> "none"]
    /\ journals = {}
    /\ call = [w \in Workers |-> Idle]
    /\ repayment = Nobody

Init == CoverageInit /\ SettlementInit

-----------------------------------------------------------------------------
(* The split of the contribution. *)

OpenItems == {i \in Instruction : exposure[i] = "open"}

\* Mutant: only what the provider is still asked about holds a settlement up.
IgnoresMissedMonths == Reserved # {}

CoverageUnsettled ==
    \/ \E m \in Month : month[m] = "Missed"
    \/ Reserved # {}

ReturnAt(time, withdrawn, items) ==
    MapThenSumSet(LAMBDA i : PayableReturn(Amount[i], time - withdrawn[i]), items)

LostReturn == ReturnAt(cutoff, coveredAt, OpenItems)

\* There is one cutoff, and no withdrawal is later.
ReturnIsDefined == cutoff # Never /\ \A i \in OpenItems : coveredAt[i] <= cutoff

SplitIsDefined == ReturnIsDefined /\ LostReturn <= PostedBalance

Residual == PostedBalance - LostReturn

\* Mutant: the lost return stays in the contribution.
KeepsOpenReturns ==
    /\ settlement' = "Completed"
    /\ retained' = LostReturn
    /\ contract' = "Cancelled"
    /\ UNCHANGED exposure

\* The journal, the final exposures and the cancelled contract, in one commit.
CompleteCancellation ==
    /\ settlement' = "Completed"
    /\ retained' = LostReturn
    /\ exposure' = [i \in Instruction |-> IF i \in OpenItems THEN "final" ELSE exposure[i]]
    /\ contract' = "Cancelled"

-----------------------------------------------------------------------------
(* SettleAsync: the owner's residual. *)

Free(w) == job[w] = Idle /\ due[w] = Nothing /\ call[w] = Idle

Asking(leg) == [leg |-> leg, response |-> "none"]

Settleable ==
    /\ settlement \notin {"Completed", "Failed"}
    /\ contract = "CancellationPending"
    /\ ~CoverageUnsettled
    /\ SplitIsDefined
    /\ settlement = "none" \/ residual = Residual

\* First transaction.  Without a residual there is nothing to transfer and the
\* cancellation completes at once; otherwise the amount is frozen.
BeginSettlement(w) ==
    /\ Free(w)
    /\ Settleable
    /\ residual' = Residual
    /\ IF Residual = 0
       THEN CompleteCancellation /\ UNCHANGED <<order, call>>
       ELSE /\ settlement' = IF settlement = "none" THEN "Pending" ELSE settlement
            /\ order' = [order EXCEPT !["owner"] = IF @ = "none" THEN "Pending" ELSE @]
            /\ call' = [call EXCEPT ![w] = Asking("owner")]
            /\ UNCHANGED <<contract, exposure, retained>>
    /\ UNCHANGED <<cutoff, month, unpaid, coverage, transfer, coveredAt, replenished, due,
                   unlatched, job, pass, now, payout, journals, repayment>>

\* EnsureOrQueryAsync of either transfer, with no lock held.
AskForPayout(w) ==
    /\ call[w] # Idle
    /\ call[w].response = "none"
    /\ \E outcome \in Outcomes(payout[call[w].leg]), response \in Response :
         /\ response \in Answers(outcome)
         /\ payout' = [payout EXCEPT ![call[w].leg] = outcome]
         /\ call' = [call EXCEPT ![w].response = response]
    /\ UNCHANGED <<coverageVars, settlement, residual, retained, order, journals, repayment>>

Answered(w, leg) == call[w] # Idle /\ call[w].leg = leg /\ call[w].response # "none"

\* Mutant of BankStatusFor: the response is stored unread.
ResponseIsStatus(response) == response

BankStatusFor(response) ==
    CASE response = "Failed" -> "Failed"
      [] response = "Confirmed" -> "Succeeded"
      [] OTHER -> "Unknown"

\* Mutant of OwnerStatusFor: no proof of the transfer is proof of none.
UnprovenIsRefused(response) == IF response = "Confirmed" THEN "Succeeded" ELSE "Failed"

\* A confirmation of an amount the split no longer gives settles nothing.
OwnerStatusFor(response) ==
    CASE response = "Failed" -> "Failed"
      [] response = "Confirmed" /\ SplitIsDefined /\ Residual = residual -> "Succeeded"
      [] OTHER -> "Unknown"

RecordSettlement(w) ==
    /\ Answered(w, "owner")
    /\ call' = [call EXCEPT ![w] = Idle]
    /\ IF /\ settlement \notin {"Completed", "Failed"}
          /\ contract = "CancellationPending"
          /\ ~CoverageUnsettled
       THEN LET status == OwnerStatusFor(call[w].response)
            IN /\ order' = [order EXCEPT !["owner"] = status]
               /\ IF status = "Succeeded"
                  THEN CompleteCancellation
                  ELSE settlement' = status /\ UNCHANGED <<contract, exposure, retained>>
       ELSE UNCHANGED <<contract, exposure, settlement, retained, order>>
    /\ UNCHANGED <<cutoff, month, unpaid, coverage, transfer, coveredAt, replenished, due,
                   unlatched, job, pass, now, residual, payout, journals, repayment>>

-----------------------------------------------------------------------------
(* SettleAsync of the bank's principal. *)

\* Mutant: the bank does not wait for the owner.
AnyEndingContract == contract # "Active"

PrincipalReturnable == contract = "Cancelled" /\ settlement = "Completed"

PrincipalAwaited == order["bank"] \notin {"Succeeded", "Failed"}

BeginPrincipalReturn(w) ==
    /\ Free(w)
    /\ PrincipalReturnable
    /\ PrincipalAwaited
    /\ order' = [order EXCEPT !["bank"] = IF @ = "none" THEN "Pending" ELSE @]
    /\ call' = [call EXCEPT ![w] = Asking("bank")]
    /\ UNCHANGED <<coverageVars, settlement, residual, retained, payout, journals, repayment>>

\* The recognition of the principal and its return are journaled together.
RecordPrincipalReturn(w) ==
    /\ Answered(w, "bank")
    /\ call' = [call EXCEPT ![w] = Idle]
    /\ IF PrincipalAwaited /\ PrincipalReturnable
       THEN LET status == BankStatusFor(call[w].response)
            IN /\ order' = [order EXCEPT !["bank"] = status]
               /\ journals' = IF status = "Succeeded" THEN {"recognition", "return"} ELSE journals
       ELSE UNCHANGED <<order, journals>>
    /\ UNCHANGED <<coverageVars, settlement, residual, retained, payout, repayment>>

CrashCall(w) ==
    /\ call[w] # Idle
    /\ call' = [call EXCEPT ![w] = Idle]
    /\ UNCHANGED <<coverageVars, settlement, residual, retained, order, payout, journals, repayment>>

-----------------------------------------------------------------------------
(* Repayment, as this service sees it; modelled in ArrearsRepayment. *)

\* The provider confirms a request of the tenant for all that is open.
ConfirmRepayment ==
    /\ contract = "Active"
    /\ repayment = Nobody
    /\ OpenItems # {}
    /\ \A i \in OpenItems : coveredAt[i] <= now
    /\ repayment' = [items |-> OpenItems, at |-> now]
    /\ UNCHANGED <<coverageVars, settlement, residual, retained, order, payout, journals, call>>

\* Mutant of RepaymentClears: new debt does not make the repayment insufficient.
RepaysOlderDebt == repayment.items \subseteq OpenItems

RepaymentClears == repayment.items = OpenItems

\* The end of that request.  It still sees the contract it has read at its
\* beginning, so only the debt itself can make it refuse.
PostRepayment ==
    /\ repayment # Nobody
    /\ IF RepaymentClears
       THEN /\ replenished' = replenished + Total(repayment.items)
            /\ exposure' = [i \in Instruction |-> IF i \in OpenItems THEN "final" ELSE exposure[i]]
       ELSE UNCHANGED <<replenished, exposure>>
    /\ repayment' = Nobody
    /\ UNCHANGED <<contract, cutoff, month, unpaid, coverage, transfer, coveredAt, due, unlatched, job,
                   pass, now, settlement, residual, retained, order, payout, journals, call>>

-----------------------------------------------------------------------------
Next ==
    \/ /\ \/ \E w \in Workers : call[w] = Idle /\ WorkerStep(w)
          \/ Tick
       /\ UNCHANGED settlementVars
    \/ \E w \in Workers :
         \/ BeginSettlement(w)
         \/ AskForPayout(w)
         \/ RecordSettlement(w)
         \/ BeginPrincipalReturn(w)
         \/ RecordPrincipalReturn(w)
         \/ CrashCall(w)
    \/ ConfirmRepayment
    \/ PostRepayment

Spec == Init /\ [][Next]_vars

-----------------------------------------------------------------------------
(* Properties. *)

\* A cancelled contract leaves nothing behind: the contribution is divided to
\* the rial between the owner and the fund's lost return, every missed month
\* is covered, no coverage transfer and no exposure stays open.
CancelledContributionIsSpent ==
    contract = "Cancelled" =>
        /\ settlement = "Completed"
        /\ residual = PostedBalance - retained
        /\ residual > 0 => payout["owner"] = "moved"
        /\ OpenItems = {}
        /\ ~CoverageUnsettled

\* A pass that took a month while the contract was Active and knows the
\* delinquency unlatched closes the month now.
ClosedByLatePass ==
    /\ contract' = "CancellationPending"
    /\ cutoff' = Never
    /\ \E w \in unlatched : due[w] # Nothing /\ due'[w] = Nothing

\* The books of a cancelled contract are closed: no slow worker, slow request
\* or retry changes an amount, a coverage or an exposure any more. Only a pass
\* that remembers the contract from before its cancellation moves its months,
\* and it takes the contract out of Cancelled; the contribution is not divided
\* a second time then.
CancelledBooksAreClosed ==
    [][/\ contract = "Cancelled" =>
            /\ UNCHANGED <<coverage, exposure, coveredAt, replenished>>
            /\ UNCHANGED <<contract, cutoff, month, unpaid>> \/ ClosedByLatePass
       /\ settlement = "Completed" => UNCHANGED <<settlement, residual, retained>>]_vars

\* The bank's principal leaves the fund only after the owner is settled, and
\* its return is journaled exactly when it is settled.
BankFollowsOwner ==
    /\ payout["bank"] # "none" => settlement = "Completed"
    /\ order["bank"] = "Succeeded" <=> "return" \in journals

Payouts == INSTANCE ResumableTransfer WITH Transfers <- Leg, status <- order, transfer <- payout

\* Both transfers keep the promise of ResumableTransfer, whatever crashes,
\* repeats or overlaps: made at most once, settled only as they really ended.
PayoutsAreResumable == Payouts!TransferSpec

\* While the transfer is under way, the amount frozen for it stays the posted
\* contribution less the open lost return, so that a confirmation can always be
\* journaled: a repayment that could still be posted no longer clears the debt.
\* Only a second transition of the contract takes the cutoff away.
FrozenResidualStands ==
    settlement \in {"Pending", "Unknown"} /\ cutoff # Never
        => SplitIsDefined /\ residual = Residual

\* The documented prerequisites are the only ones: once all missed months are
\* covered and no coverage transfer is open, the lost return is defined.
CoveredCancellationIsComputable ==
    contract = "CancellationPending" /\ ~CoverageUnsettled => ReturnIsDefined

=============================================================================
