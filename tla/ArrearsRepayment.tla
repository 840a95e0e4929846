--------------------------- MODULE ArrearsRepayment ---------------------------
(***************************************************************************)
(* Repayment of covered debt by the tenant                                 *)
(* (EfTenantArrearsRepaymentService.ReconcileAsync, called by the API and  *)
(* retried by the worker) and the posting of a confirmed repayment as a    *)
(* replenishment of the tenant contribution (PostConfirmedReplenishment).  *)
(* A repayment must clear all covered principal plus the lost fund return  *)
(* accrued when the provider took the money.                               *)
(*                                                                         *)
(* A request does not clear its change tracker between its transactions:   *)
(* after asking the provider it still sees the contract as Active and the  *)
(* attempt as it had left it, and its update writes only the columns whose *)
(* value differs from what it remembers.                                   *)
(***************************************************************************)
EXTENDS TenantCoverage, LostFundReturn

CONSTANTS
    Attempts,    \* repayment ExternalTransactionRows; bounds their number
    Requests     \* calls of ReconcileAsync under way

ASSUME RepaymentAssumption == Idle \notin Attempts

VARIABLES
    attempt,      \* ExternalTransactionRow.Status
    fingerprint,  \* the outstanding set its IdempotencyKey is derived from
    owed,         \* AmountRial
    createdAt,
    updatedAt,    \* UpdatedAtUtc; the effective time once Succeeded
    posted,       \* attempts with a TenantContributionReplenishmentRow
    bank,         \* what the tenant did at the repayment provider
    request       \* the calls under way

repaymentVars == <<attempt, fingerprint, owed, createdAt, updatedAt, posted, bank, request>>
vars == <<coverageVars, repaymentVars>>

BankStates == {[state |-> "undecided", at |-> Never, amount |-> 0],
               [state |-> "rejected", at |-> Never, amount |-> 0]}
             \cup [state : {"paid"}, at : Time, amount : Nat]

\* What a request remembers: the attempt, the time and total it wrote to it,
\* the provider's answer, and the repayment it has confirmed.
RequestState == [attempt : Attempts, at : Time, total : Nat,
                 stage : {"asking", "Confirmed", "Failed", "Unproven", "posting"},
                 effective : Time \cup {Never}, confirmed : Nat]

RepaymentTypeOK ==
    /\ attempt \in [Attempts -> {"none", "Pending", "Unknown", "Succeeded", "Failed"}]
    /\ fingerprint \in [Attempts -> SUBSET Instruction]
    /\ owed \in [Attempts -> Nat]
    /\ createdAt \in [Attempts -> Time \cup {Never}]
    /\ updatedAt \in [Attempts -> Time \cup {Never}]
    /\ posted \subseteq Attempts
    /\ bank \in [Attempts -> BankStates]
    /\ request \in [Requests -> RequestState \cup {Idle}]

Undecided == [state |-> "undecided", at |-> Never, amount |-> 0]

RepaymentInit ==
    /\ attempt = [x \in Attempts |-> "none"]
    /\ fingerprint = [x \in Attempts |-> {}]
    /\ owed = [x \in Attempts |-> 0]
    /\ createdAt = [x \in Attempts |-> Never]
    /\ updatedAt = [x \in Attempts |-> Never]
    /\ posted = {}
    /\ bank = [x \in Attempts |-> Undecided]
    /\ request = [r \in Requests |-> Idle]

Init == CoverageInit /\ RepaymentInit

-----------------------------------------------------------------------------
(* TenantArrearsPolicy. *)

Before(i, j) == i[1] < j[1] \/ (i[1] = j[1] /\ i[2] < j[2])

\* CalculateOutstanding: what replenishments leave of item i once they are
\* applied to the covered items, oldest month first, then component order.
Remaining(i) ==
    LET left == replenished - Total({j \in Covered : Before(j, i)})
        applied == Min({Max({left, 0}), Amount[i]})
    IN Amount[i] - applied

Outstanding == {i \in Covered : Remaining(i) > 0}

OutstandingPrincipal == MapThenSumSet(Remaining, Outstanding)

\* BuildQuoteAsync at a time: every outstanding item is whole, its exposure is
\* open and was withdrawn before.
QuoteIsValid(at) ==
    /\ replenished <= Total(Covered)
    /\ \A i \in Outstanding : /\ Remaining(i) = Amount[i]
                              /\ exposure[i] = "open"
                              /\ coveredAt[i] <= at

QuoteTotal(at) ==
    OutstandingPrincipal
      + MapThenSumSet(LAMBDA i : PayableReturn(Amount[i], at - coveredAt[i]), Outstanding)

\* CalculateLostFundReturnBindingsAsync also wants the evidence of every item
\* that is no longer outstanding.
EvidenceIsComplete == \A i \in Covered \ Outstanding : exposure[i] = "final"

-----------------------------------------------------------------------------
(* ReconcileAsync *)

RepaymentOpen == contract = "Active"

Unposted == {x \in Attempts : /\ attempt[x] \in {"Pending", "Unknown", "Succeeded"}
                              /\ x \notin posted}

\* The attempt a request continues or opens: the unposted one, else the one of
\* the same outstanding set, else a new row.
Chosen(x) ==
    \/ Unposted = {x} /\ attempt[x] # "Succeeded"
    \/ /\ Unposted = {}
       /\ attempt[x] \in {"Pending", "Unknown"}
       /\ fingerprint[x] = Outstanding
    \/ /\ Unposted = {}
       /\ \A y \in Attempts : attempt[y] # "none" => fingerprint[y] # Outstanding
       /\ attempt[x] = "none"

\* First transaction, under the contract lock: quote, choose, commit Pending.
BeginRepayment(r, x) ==
    /\ request[r] = Idle
    /\ RepaymentOpen
    /\ Outstanding # {}
    /\ QuoteIsValid(now)
    /\ Chosen(x)
    /\ attempt' = [attempt EXCEPT ![x] = "Pending"]
    /\ fingerprint' = [fingerprint EXCEPT ![x] = IF attempt[x] = "none" THEN Outstanding ELSE @]
    /\ createdAt' = [createdAt EXCEPT ![x] = IF attempt[x] = "none" THEN now ELSE @]
    /\ owed' = [owed EXCEPT ![x] = QuoteTotal(now)]
    /\ updatedAt' = [updatedAt EXCEPT ![x] = now]
    /\ request' = [request EXCEPT ![r] = [attempt |-> x, at |-> now, total |-> QuoteTotal(now),
                                          stage |-> "asking", effective |-> Never, confirmed |-> 0]]
    /\ UNCHANGED <<coverageVars, posted, bank>>

\* The tenant pays what the provider last asked for, or the provider refuses.
BankDecides(x) ==
    /\ attempt[x] # "none"
    /\ bank[x] = Undecided
    /\ \/ bank' = [bank EXCEPT ![x] = [state |-> "paid", at |-> now, amount |-> owed[x]]]
       \/ bank' = [bank EXCEPT ![x] = [Undecided EXCEPT !.state = "rejected"]]
    /\ UNCHANGED <<coverageVars, attempt, fingerprint, owed, createdAt, updatedAt, posted, request>>

BankAnswers(r) ==
    /\ request[r] # Idle
    /\ request[r].stage = "asking"
    /\ \E answer \in Response :
         /\ answer = "Confirmed" => bank[request[r].attempt].state = "paid"
         /\ answer = "Failed" => bank[request[r].attempt].state = "rejected"
         /\ request' = [request EXCEPT ![r].stage = answer]
    /\ UNCHANGED <<coverageVars, attempt, fingerprint, owed, createdAt, updatedAt, posted, bank>>

\* The money taken is exactly what clears the debt at the time it was taken.
ProvesRepayment(r) ==
    LET x == request[r].attempt
    IN /\ request[r].stage = "Confirmed"
       /\ createdAt[x] <= bank[x].at
       /\ bank[x].at <= request[r].at
       /\ Outstanding # {}
       /\ QuoteIsValid(bank[x].at)
       /\ bank[x].amount = QuoteTotal(bank[x].at)

\* Second transaction.  Its guards read what the request remembers, an Active
\* contract and a Pending attempt, so they always pass; amount and time are
\* written only where they differ from what the request wrote itself.
RecordProof(r) ==
    /\ request[r] # Idle
    /\ ProvesRepayment(r)
    /\ LET q == request[r]
           x == q.attempt
       IN /\ attempt' = [attempt EXCEPT ![x] = "Succeeded"]
          /\ owed' = [owed EXCEPT ![x] = IF bank[x].amount = q.total THEN @ ELSE bank[x].amount]
          /\ updatedAt' = [updatedAt EXCEPT ![x] = IF bank[x].at = q.at THEN @ ELSE bank[x].at]
          /\ request' = [request EXCEPT ![r].stage = "posting", ![r].effective = bank[x].at,
                                        ![r].confirmed = bank[x].amount]
    /\ UNCHANGED <<coverageVars, fingerprint, createdAt, posted, bank>>

\* Mutant of StatusWithoutProof: the answer is stored unread.
AnswerAsStatus(stage) == stage

\* A definitive failure, or anything short of an exact confirmation.
StatusWithoutProof(stage) == IF stage = "Failed" THEN "Failed" ELSE "Unknown"

RecordNoProof(r) ==
    /\ request[r] # Idle
    /\ request[r].stage \in {"Confirmed", "Failed", "Unproven"}
    /\ ~ProvesRepayment(r)
    /\ attempt' = [attempt EXCEPT ![request[r].attempt] = StatusWithoutProof(request[r].stage)]
    /\ request' = [request EXCEPT ![r] = Idle]
    /\ UNCHANGED <<coverageVars, fingerprint, owed, createdAt, updatedAt, posted, bank>>

-----------------------------------------------------------------------------
(* PostConfirmedReplenishmentAsync *)

\* Mutant of Clears: whatever was paid is taken for the whole debt.
ClearsWithAnyAmount(amount, effective) == Outstanding # {} /\ EvidenceIsComplete

\* The amount tendered at a time clears everything that is outstanding now.
Clears(amount, effective) ==
    /\ Outstanding # {}
    /\ QuoteIsValid(effective)
    /\ EvidenceIsComplete
    /\ amount = QuoteTotal(effective)

\* Mutant of Post: the lost return paid is credited to the contribution too.
PostsWholePayment(x) ==
    /\ replenished' = replenished + owed[x]
    /\ exposure' = [i \in Instruction |-> IF i \in Outstanding THEN "final" ELSE exposure[i]]
    /\ posted' = posted \cup {x}
    /\ UNCHANGED <<contract, cutoff, month, unpaid, coverage, transfer, coveredAt, due, unlatched,
                   job, pass, now>>

\* One commit: the outstanding principal goes back to the contribution and every
\* exposure it belongs to is finalized.
Post(x) ==
    /\ replenished' = replenished + OutstandingPrincipal
    /\ exposure' = [i \in Instruction |-> IF i \in Outstanding THEN "final" ELSE exposure[i]]
    /\ posted' = posted \cup {x}
    /\ UNCHANGED <<contract, cutoff, month, unpaid, coverage, transfer, coveredAt, due, unlatched,
                   job, pass, now>>

\* At the end of the request that confirmed the repayment, which still trusts
\* its own view of the attempt and of the contract.
PostByRequest(r) ==
    /\ request[r] # Idle
    /\ request[r].stage = "posting"
    /\ IF request[r].attempt \notin posted /\ Clears(request[r].confirmed, request[r].effective)
       THEN Post(request[r].attempt)
       ELSE UNCHANGED <<coverageVars, posted>>
    /\ request' = [request EXCEPT ![r] = Idle]
    /\ UNCHANGED <<attempt, fingerprint, owed, createdAt, updatedAt, bank>>

\* By the worker pass, or by a later request that finds it Succeeded.
PostByWorker(x) ==
    /\ attempt[x] = "Succeeded"
    /\ x \notin posted
    /\ updatedAt[x] <= now
    /\ RepaymentOpen
    /\ Clears(owed[x], updatedAt[x])
    /\ Post(x)
    /\ UNCHANGED <<attempt, fingerprint, owed, createdAt, updatedAt, bank, request>>

CrashRequest(r) ==
    /\ request[r] # Idle
    /\ request' = [request EXCEPT ![r] = Idle]
    /\ UNCHANGED <<coverageVars, attempt, fingerprint, owed, createdAt, updatedAt, posted, bank>>

-----------------------------------------------------------------------------
Repayments ==
    \/ \E r \in Requests :
         \/ \E x \in Attempts : BeginRepayment(r, x)
         \/ BankAnswers(r)
         \/ RecordProof(r)
         \/ RecordNoProof(r)
         \/ PostByRequest(r)
         \/ CrashRequest(r)
    \/ \E x \in Attempts : BankDecides(x) \/ PostByWorker(x)

Next ==
    \/ CoverageNext /\ UNCHANGED repaymentVars
    \/ Repayments

Spec == Init /\ [][Next]_vars

-----------------------------------------------------------------------------
(* Properties. *)

\* The two accounts of the debt agree: the principal that replenishments leave
\* unpaid is the principal of the exposures that still accrue a return.
PrincipalMatchesExposures ==
    Total(Covered) - replenished = Total({i \in Instruction : exposure[i] = "open"})

\* Replenished money is money the provider took from the tenant, however many
\* requests and workers race to post it: every posting belongs to one payment
\* that was never posted before, and restores no more principal than was paid
\* as long as the row still says what was paid.
ReplenishedByRealPayments ==
    [][replenished' # replenished =>
         \E x \in Attempts \ posted :
             /\ posted' = posted \cup {x}
             /\ bank[x].state = "paid"
             /\ owed[x] = bank[x].amount => replenished' - replenished <= bank[x].amount]_vars

\* tenant-arrears-repayment-reconciliation-v1.md: at most one unposted Pending,
\* Unknown or Succeeded repayment is allowed for a contract (two of them close
\* ReconcileAsync for good).
AtMostOneUnposted == Cardinality(Unposted) <= 1

\* The service's own assertion, "Outstanding tenant principal cannot reference
\* a finalized lost fund return exposure": the debt that remains after the
\* oldest-first allocation is the debt whose exposures are open.
OutstandingIsOpen == \A i \in Outstanding : exposure[i] = "open"

=============================================================================
