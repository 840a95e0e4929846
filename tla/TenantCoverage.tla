---------------------------- MODULE TenantCoverage ----------------------------
(***************************************************************************)
(* Coverage of missed months from the tenant contribution                  *)
(* (EfTenantContributionCoverageService, called by the worker pass): the   *)
(* components a tenant did not pay are reserved, transferred by an         *)
(* external provider one by one, debited when the provider confirms, and   *)
(* each debit opens a lost fund return exposure (the tracking              *)
(* interceptor).  The months themselves close as in RentCycle, reduced to  *)
(* which components stayed unpaid.                                         *)
(*                                                                         *)
(* Time is counted in ticks; month m is due at tick m - 1.  A worker       *)
(* stamps everything it does with the time at which its pass began.  A     *)
(* month is closed on what the pass has read of it: the month as Open, its *)
(* contract as Active and, once it has closed a month, the delinquency as  *)
(* not latched.  The order of the months and older debt are read when it   *)
(* is closed.                                                              *)
(***************************************************************************)
EXTENDS Integers, FiniteSetsExt

CONSTANTS
    MonthCount,
    Kinds,                \* component kinds, in allocation order
    Amount,               \* scheduled amount of each instruction, in rial
    InitialContribution,  \* what the tenant deposited in the fund
    MaxTime,              \* bound of the clock
    Workers,
    Idle,                 \* a worker with no month under coverage
    Nothing,              \* no instruction asked about, no month to close
    Never                 \* a time stamp not written yet

Month == 1..MonthCount
Instruction == Month \X Kinds
Time == 0..MaxTime

ASSUME ContributionAssumption ==
    /\ MonthCount \in Nat \ {0}
    /\ Kinds \subseteq Nat
    /\ IsFiniteSet(Kinds)
    /\ Amount \in [Instruction -> Nat \ {0}]
    /\ InitialContribution \in Nat
    /\ MaxTime \in Nat

Response == {"Confirmed", "Failed", "Unproven"}

Job == [month : Month, rest : SUBSET Instruction,
        asked : Instruction \cup {Nothing}, response : Response \cup {"none"}]

ASSUME PlaceholderAssumption ==
    /\ Idle \notin Job
    /\ Nothing \notin Instruction \cup Month
    /\ Never \notin Time

VARIABLES
    contract,     \* LeaseContractRow.Status
    cutoff,       \* OccurredAtUtc of the transition to CancellationPending, if only one
    month,        \* MonthlyObligationRow.Status
    unpaid,       \* instructions that ended Failed or ArrearsBlocked
    coverage,     \* CoveragePaymentRow.Status
    transfer,     \* what really happened at the coverage provider
    coveredAt,    \* CoveredAtUtc, which is also the exposure's WithdrawnAtUtc
    exposure,     \* LostFundReturnRow of the instruction's coverage
    replenished,  \* sum of the TenantContributionReplenishments
    due,          \* the month each worker has read as Open and is about to close
    unlatched,    \* workers whose pass knows the delinquency row unlatched
    job,          \* the month each worker is covering
    pass,         \* time at which each worker's pass began
    now

coverageVars == <<contract, cutoff, month, unpaid, coverage, transfer, coveredAt, exposure,
                  replenished, due, unlatched, job, pass, now>>

RowTypes ==
    /\ contract \in {"Active", "CancellationPending", "Cancelled"}
    /\ cutoff \in Time \cup {Never}
    /\ month \in [Month -> {"Open", "Paid", "Missed", "Covered"}]
    /\ unpaid \subseteq Instruction
    /\ coverage \in [Instruction -> {"none", "Pending", "Unknown", "Succeeded", "Failed"}]
    /\ transfer \in [Instruction -> {"none", "started", "moved", "rejected"}]
    /\ coveredAt \in [Instruction -> Time \cup {Never}]
    /\ exposure \in [Instruction -> {"none", "open", "final"}]
    /\ due \in [Workers -> Month \cup {Nothing}]
    /\ unlatched \subseteq Workers
    /\ job \in [Workers -> Job \cup {Idle}]
    /\ pass \in [Workers -> Time]
    /\ now \in Time

TypeOK == RowTypes /\ replenished \in Nat

CoverageInit ==
    /\ contract = "Active"
    /\ cutoff = Never
    /\ month = [m \in Month |-> "Open"]
    /\ unpaid = {}
    /\ coverage = [i \in Instruction |-> "none"]
    /\ transfer = [i \in Instruction |-> "none"]
    /\ coveredAt = [i \in Instruction |-> Never]
    /\ exposure = [i \in Instruction |-> "none"]
    /\ replenished = 0
    /\ due = [w \in Workers |-> Nothing]
    /\ unlatched = {}
    /\ job = [w \in Workers |-> Idle]
    /\ pass = [w \in Workers |-> 0]
    /\ now = 0

-----------------------------------------------------------------------------
(* The tenant contribution: posted balance and reservations. *)

Total(instructions) == MapThenSumSet(LAMBDA i : Amount[i], instructions)

Covered == {i \in Instruction : coverage[i] = "Succeeded"}
Reserved == {i \in Instruction : coverage[i] \in {"Pending", "Unknown"}}

PostedBalance == InitialContribution + replenished - Total(Covered)

\* Mutant: what is reserved for other months can be reserved again.
IgnoresReservations == PostedBalance

AvailableForCoverage == PostedBalance - Total(Reserved)

\* Mutant: also those that another transfer has settled.
AnyTransfer(i) == coverage[i] # "none"

AwaitsTransfer(i) == coverage[i] \in {"Pending", "Unknown"}

UnpaidOf(m) == {i \in unpaid : i[1] = m}

-----------------------------------------------------------------------------
(* The worker's pass and the closing of due months. *)

\* A pass closes its months first; what it remembers of them ends there.
StartPass(w) ==
    /\ job[w] = Idle
    /\ due[w] = Nothing
    /\ pass[w] # now
    /\ pass' = [pass EXCEPT ![w] = now]
    /\ unlatched' = unlatched \ {w}
    /\ UNCHANGED <<contract, cutoff, month, unpaid, coverage, transfer, coveredAt, exposure,
                   replenished, due, job, now>>

\* ProcessAsync reads the month Open and due and the contract Active.
TakeMonth(w, m) ==
    /\ job[w] = Idle
    /\ due[w] = Nothing
    /\ contract = "Active"
    /\ m - 1 <= pass[w]
    /\ month[m] = "Open"
    /\ due' = [due EXCEPT ![w] = m]
    /\ UNCHANGED <<contract, cutoff, month, unpaid, coverage, transfer, coveredAt, exposure,
                   replenished, unlatched, job, pass, now>>

\* CanCloseChronologicallyAsync, a query.
InTurn(m) ==
    /\ \A e \in Month : e < m => month[e] # "Open"
    /\ \A l \in Month : l > m => month[l] = "Open"

\* Nothing older is missed, or covered and not yet repaid.
NoOlderDebt(m) ==
    \A e \in Month : e < m =>
        /\ month[e] # "Missed"
        /\ \A k \in Kinds : exposure[<<e, k>>] # "open"

\* All components were paid; RentCycle shows that no month whose payments all
\* succeeded is left when the cancellation is latched.
CloseAsPaid(w) ==
    LET m == due[w]
    IN /\ m # Nothing
       /\ contract = "Active"
       /\ month[m] \in {"Open", "Paid"}
       /\ InTurn(m)
       /\ NoOlderDebt(m)
       /\ month' = [month EXCEPT ![m] = "Paid"]
       /\ due' = [due EXCEPT ![w] = Nothing]
       /\ unlatched' = unlatched \cup {w}
       /\ UNCHANGED <<contract, cutoff, unpaid, coverage, transfer, coveredAt, exposure,
                      replenished, job, pass, now>>

ThirdMiss(m) == m > 2 /\ {month[m - 1], month[m - 2]} \subseteq {"Missed", "Covered"}

\* The contract as the pass knows it is Active, and the delinquency row it
\* knows, or reads now, is not latched.
LatchUnseen(w) == contract = "Active" \/ w \in unlatched

\* A month another worker has closed meanwhile is written again, and so is the
\* transition of its contract: then no single cutoff is found any more.
CloseAsMissed(w) ==
    LET m == due[w]
    IN /\ m # Nothing
       /\ month[m] # "Paid"
       /\ InTurn(m)
       /\ LatchUnseen(w)
       /\ IF month[m] = "Open"
          THEN \E components \in (SUBSET Kinds) \ {{}} :
                 unpaid' = unpaid \cup ({m} \X components)
          ELSE UNCHANGED unpaid
       /\ month' = [month EXCEPT ![m] = "Missed"]
       /\ IF ThirdMiss(m)
          THEN /\ contract' = "CancellationPending"
               /\ cutoff' = IF contract = "Active" THEN pass[w] ELSE Never
               /\ unlatched' = unlatched \ {w}
          ELSE /\ unlatched' = unlatched \cup {w}
               /\ UNCHANGED <<contract, cutoff>>
       /\ due' = [due EXCEPT ![w] = Nothing]
       /\ UNCHANGED <<coverage, transfer, coveredAt, exposure, replenished, job, pass, now>>

\* A payment without an outcome, older debt, the order of the months or rows
\* read again keep the month as it is.
LeaveMonth(w) ==
    /\ due[w] # Nothing
    /\ due' = [due EXCEPT ![w] = Nothing]
    /\ UNCHANGED <<contract, cutoff, month, unpaid, coverage, transfer, coveredAt, exposure,
                   replenished, unlatched, job, pass, now>>

-----------------------------------------------------------------------------
(* CoverAsync *)

\* First transaction: every uncovered component of the month gets a Pending
\* coverage payment, if the contribution can bear all of them; the indeterminate
\* ones of an earlier pass are asked about again.
Reserve(w, m) ==
    /\ job[w] = Idle
    /\ due[w] = Nothing
    /\ month[m] = "Missed"
    /\ \A i \in UnpaidOf(m) : coverage[i] # "Failed"
    /\ LET new == {i \in UnpaidOf(m) : coverage[i] = "none"}
       IN /\ Total(new) <= AvailableForCoverage
          /\ coverage' = [i \in Instruction |-> IF i \in new THEN "Pending" ELSE coverage[i]]
    /\ job' = [job EXCEPT ![w] =
                 [month |-> m, rest |-> {i \in UnpaidOf(m) : coverage'[i] \in {"Pending", "Unknown"}},
                  asked |-> Nothing, response |-> "none"]]
    /\ unlatched' = unlatched \ {w}
    /\ UNCHANGED <<contract, cutoff, month, unpaid, transfer, coveredAt, exposure,
                   replenished, due, pass, now>>

\* What a provider asked about a transfer may have done by the time it answers,
\* and what it may then answer.
Outcomes(state) ==
    IF state \in {"none", "started"} THEN {"started", "moved", "rejected"} ELSE {state}

Answers(state) ==
    {"Unproven"} \cup {r \in Response : \/ r = "Confirmed" /\ state = "moved"
                                        \/ r = "Failed" /\ state = "rejected"}

\* EnsureOrQueryAsync, with no lock held: the provider makes the transfer, once.
AskProvider(w) ==
    /\ job[w] # Idle
    /\ job[w].asked = Nothing
    /\ \E i \in job[w].rest :
         /\ AwaitsTransfer(i)
         /\ \E outcome \in Outcomes(transfer[i]) :
              /\ transfer' = [transfer EXCEPT ![i] = outcome]
              /\ \E response \in Answers(outcome) :
                   job' = [job EXCEPT ![w].rest = @ \ {i}, ![w].asked = i,
                                      ![w].response = response]
    /\ UNCHANGED <<contract, cutoff, month, unpaid, coverage, coveredAt, exposure,
                   replenished, due, unlatched, pass, now>>

\* A transfer another worker settled meanwhile needs no question.
SkipSettled(w) ==
    /\ job[w] # Idle
    /\ job[w].asked = Nothing
    /\ \E i \in job[w].rest :
         /\ ~AwaitsTransfer(i)
         /\ job' = [job EXCEPT ![w].rest = @ \ {i}]
    /\ UNCHANGED <<contract, cutoff, month, unpaid, coverage, transfer, coveredAt, exposure,
                   replenished, due, unlatched, pass, now>>

\* Mutant of CoverageStatusFor: the response is stored unread.
ResponseAsStatus(response, affordable) == response

\* Mutant of CoverageStatusFor: no proof of the transfer is proof of none.
UnprovenIsFailed(response, affordable) ==
    IF response = "Confirmed" /\ affordable THEN "Succeeded" ELSE "Failed"

\* Mutant of CoverageStatusFor: the absence of a failure is a confirmation.
UnprovenIsConfirmed(response, affordable) ==
    IF response = "Failed" THEN "Failed" ELSE "Succeeded"

\* The status an answer gives; a debit the balance cannot bear is not posted.
CoverageStatusFor(response, affordable) ==
    CASE response = "Failed" -> "Failed"
      [] response = "Confirmed" /\ affordable -> "Succeeded"
      [] OTHER -> "Unknown"

\* Second transaction of a transfer: debit, exposure and status in one commit.
RecordTransfer(w) ==
    /\ job[w] # Idle
    /\ job[w].asked # Nothing
    /\ job' = [job EXCEPT ![w].asked = Nothing, ![w].response = "none"]
    /\ LET i == job[w].asked
           status == CoverageStatusFor(job[w].response, Amount[i] <= PostedBalance)
       IN IF AwaitsTransfer(i)
          THEN /\ coverage' = [coverage EXCEPT ![i] = status]
               /\ IF status = "Succeeded"
                  THEN /\ coveredAt' = [coveredAt EXCEPT ![i] = pass[w]]
                       /\ exposure' = [exposure EXCEPT ![i] = "open"]
                  ELSE UNCHANGED <<coveredAt, exposure>>
          ELSE UNCHANGED <<coverage, coveredAt, exposure>>
    /\ UNCHANGED <<contract, cutoff, month, unpaid, transfer, replenished, due, unlatched,
                   pass, now>>

\* FinalizeCoverageAsync, the end of the call.
FinalizeCoverage(w) ==
    /\ job[w] # Idle
    /\ job[w].asked = Nothing
    /\ job[w].rest = {}
    /\ LET m == job[w].month
       IN month' = IF month[m] = "Missed" /\ \A i \in UnpaidOf(m) : coverage[i] = "Succeeded"
                   THEN [month EXCEPT ![m] = "Covered"]
                   ELSE month
    /\ job' = [job EXCEPT ![w] = Idle]
    /\ UNCHANGED <<contract, cutoff, unpaid, coverage, transfer, coveredAt, exposure,
                   replenished, due, unlatched, pass, now>>

\* The worker dies between two transactions.
CrashWorker(w) ==
    /\ job[w] # Idle \/ due[w] # Nothing \/ w \in unlatched
    /\ job' = [job EXCEPT ![w] = Idle]
    /\ due' = [due EXCEPT ![w] = Nothing]
    /\ unlatched' = unlatched \ {w}
    /\ UNCHANGED <<contract, cutoff, month, unpaid, coverage, transfer, coveredAt, exposure,
                   replenished, pass, now>>

Tick ==
    /\ now < MaxTime
    /\ now' = now + 1
    /\ UNCHANGED <<contract, cutoff, month, unpaid, coverage, transfer, coveredAt, exposure,
                   replenished, due, unlatched, job, pass>>

-----------------------------------------------------------------------------
WorkerStep(w) ==
    \/ StartPass(w)
    \/ \E m \in Month : TakeMonth(w, m) \/ Reserve(w, m)
    \/ CloseAsPaid(w)
    \/ CloseAsMissed(w)
    \/ LeaveMonth(w)
    \/ AskProvider(w)
    \/ SkipSettled(w)
    \/ RecordTransfer(w)
    \/ FinalizeCoverage(w)
    \/ CrashWorker(w)

CoverageNext == (\E w \in Workers : WorkerStep(w)) \/ Tick

CoverageSpec == CoverageInit /\ [][CoverageNext]_coverageVars

-----------------------------------------------------------------------------
(* Properties. *)

\* However the coverage of several months interleaves, the contribution bears
\* all that is debited and all that is reserved: a transfer the provider makes
\* can always be posted, and the balance the service computes never throws.
BalanceBearsReservations ==
    Total(Reserved) <= PostedBalance

\* Money the provider moved is never written off: it is debited, or still
\* reserved and asked about.
MovedMoneyIsAccountedFor ==
    \A i \in Instruction :
        transfer[i] = "moved" => coverage[i] \in {"Pending", "Unknown", "Succeeded"}

\* A month counts as covered, and a debit is posted, only for money the
\* provider moved to the creditor of that component.
CoveredByRealTransfers ==
    /\ \A i \in Instruction : coverage[i] = "Succeeded" => transfer[i] = "moved"
    /\ \A m \in Month : month[m] = "Covered" =>
         UnpaidOf(m) # {} /\ \A i \in UnpaidOf(m) : transfer[i] = "moved"

\* A settled transfer is not settled again by a slower worker: no second debit,
\* and its exposure keeps the time from which the lost return accrues.
CoverageIsFinal ==
    [][\A i \in Instruction :
         coverage[i] \in {"Succeeded", "Failed"}
             => coverage'[i] = coverage[i] /\ coveredAt'[i] = coveredAt[i]]_coverageVars

CoverageTransfers ==
    INSTANCE ResumableTransfer WITH Transfers <- Instruction, status <- coverage, transfer <- transfer

\* Every coverage payment keeps the promise of ResumableTransfer, however many
\* workers ask about it: made at most once, settled only as it really ended.
CoverageIsResumable == CoverageTransfers!TransferSpec

=============================================================================
