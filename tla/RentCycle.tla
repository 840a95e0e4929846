------------------------------ MODULE RentCycle ------------------------------
(***************************************************************************)
(* The monthly rent cycle of one active lease contract: the twelve         *)
(* provisioned obligations, the payment instructions of each, their        *)
(* two-transaction reconciliation with an external payment provider, and   *)
(* the chronological closing of due months with its delinquency streak     *)
(* (EfPaymentService, driven by the API and by EfMonthlyDueLifecycleService *)
(* in the worker).                                                         *)
(*                                                                         *)
(* Every action is one committed database transaction.  A reconciliation   *)
(* commits Pending, asks the provider with no lock held, and commits the   *)
(* answer; the caller may crash in between.  Coverage from the tenant      *)
(* contribution and its replenishment are the four actions at the end,     *)
(* reduced to what the debt query of this service reads.                   *)
(*                                                                         *)
(* A pass of the worker keeps one DbContext, whose change tracker answers  *)
(* a locked read with the row it already knows.  A month is therefore      *)
(* closed in two steps: the pass reads it and remembers what it saw        *)
(* (TakeMonth), and closes it later on that memory (CloseMonth).  What     *)
(* CloseAsync asks of the database itself, the order of the months, older  *)
(* debt and the streak, it reads as it stands.                             *)
(***************************************************************************)
EXTENDS Integers, FiniteSets

CONSTANTS
    MonthCount,   \* contract months; 12 in the code
    Kinds,        \* component kinds: OwnerPayment, BankInterest
    ZeroAmount,   \* components whose scheduled amount is zero: they have no row
    Callers,      \* concurrent API requests and worker candidates
    Workers,      \* replicas of the worker that can be overtaken while closing
    Idle          \* a caller with no reconciliation, a worker with no month

Month == 1..MonthCount

Instruction == (Month \X Kinds) \ ZeroAmount

ASSUME MonthCountAssumption == MonthCount \in Nat \ {0}

ASSUME ScheduleAssumption ==
    /\ IsFiniteSet(Kinds)
    /\ ZeroAmount \subseteq Month \X Kinds
    /\ \A m \in Month : \E k \in Kinds : <<m, k>> \notin ZeroAmount

MonthStatus == {"Open", "Paid", "Missed", "Covered"}

PaymentStatus == {"Created", "Pending", "Unknown", "ReconciliationRequired",
                  "Succeeded", "Failed", "ArrearsBlocked"}

\* What the provider may say: an exact confirmation, a definitive failure, or
\* nothing that proves either (unavailable, wrong amount, blank reference).
Response == {"Confirmed", "Failed", "Unproven"}

Call == [instruction : Instruction, response : Response \cup {"awaited"}]

\* A month a pass has read as Open and due, its contract as Active, and those
\* of its instructions that the pass still knows as Created.
Taken == [month : Month, unsent : SUBSET Instruction]

ASSUME IdleAssumption == Idle \notin Call /\ Idle \notin Taken

CancellationThreshold == 3

VARIABLES
    contract,         \* LeaseContractRow.Status
    month,            \* MonthlyObligationRow.Status, per contract month
    payment,          \* PaymentInstructionRow.Status
    external,         \* status of the payment's ExternalTransactionRow
    coverage,         \* coverage of an instruction and its lost fund return
    cancelRequired,   \* ContractDelinquencyRow.CancellationRequired
    provider,         \* what really happened to the payment at the provider
    call,             \* the reconciliation each caller has under way
    taken,            \* the month each worker is about to close, as it read it
    unlatched,        \* workers whose pass knows the delinquency row unlatched
    requested,        \* a repayment request was begun on an active contract
    setBack,          \* history: a closing wrote Missed over a Covered month
    now               \* number of months whose DueAtUtc has passed

rows == <<contract, month, payment, external, coverage, cancelRequired>>
memory == <<taken, unlatched, requested, setBack>>
vars == <<rows, provider, call, memory, now>>

TypeOK ==
    /\ contract \in {"Active", "CancellationPending"}
    /\ month \in [Month -> MonthStatus]
    /\ payment \in [Instruction -> PaymentStatus]
    /\ external \in [Instruction -> {"none", "Pending", "Unknown", "Succeeded", "Failed"}]
    /\ coverage \in [Instruction -> {"none", "Succeeded", "Replaced"}]
    /\ cancelRequired \in BOOLEAN
    /\ provider \in [Instruction -> {"undecided", "paid", "rejected"}]
    /\ call \in [Callers -> Call \cup {Idle}]
    /\ taken \in [Workers -> Taken \cup {Idle}]
    /\ unlatched \subseteq Workers
    /\ requested \in BOOLEAN
    /\ setBack \in BOOLEAN
    /\ now \in 0..MonthCount

\* The schedule as EfMonthlyScheduleProvisioningService leaves it.
Init ==
    /\ contract = "Active"
    /\ month = [m \in Month |-> "Open"]
    /\ payment = [i \in Instruction |-> "Created"]
    /\ external = [i \in Instruction |-> "none"]
    /\ coverage = [i \in Instruction |-> "none"]
    /\ cancelRequired = FALSE
    /\ provider = [i \in Instruction |-> "undecided"]
    /\ call = [c \in Callers |-> Idle]
    /\ taken = [w \in Workers |-> Idle]
    /\ unlatched = {}
    /\ requested = FALSE
    /\ setBack = FALSE
    /\ now = 0

-----------------------------------------------------------------------------
(* The queries the service decides by. *)

InstructionsOf(m) == {i \in Instruction : i[1] = m}

\* Mutant of Unresolved: an indeterminate payment counts as not paid.
UnknownIsResolved == {"Created", "Pending", "ReconciliationRequired"}

Unresolved == {"Created", "Pending", "Unknown", "ReconciliationRequired"}

InFlight == {"Pending", "Unknown", "ReconciliationRequired"}

\* Mutants of OutcomeOf: the response is stored unread; no proof is a failure.
ResponseAsIs(response) == response
UnprovenIsFailure(response) == IF response = "Confirmed" THEN "Succeeded" ELSE "Failed"

\* The payment status a response stands for.
OutcomeOf(response) ==
    CASE response = "Confirmed" -> "Succeeded"
      [] response = "Failed" -> "Failed"
      [] OTHER -> "Unknown"

\* Mutant of AcceptsOutcome: the newest answer wins.
AcceptsAnyOutcome(status, outcome) == TRUE

\* PaymentInstructionStateMachine, and the early return on settled payments,
\* for the outcomes ReconcileAsync records.
AcceptsOutcome(status, outcome) ==
    \/ status \in {"Pending", "ReconciliationRequired"}
    \/ status = "Unknown" /\ outcome # "Unknown"

\* Mutant of Sent: an Unknown payment is asked about again as it is.
SentAsIs(status) == IF status = "Created" THEN "Pending" ELSE status

\* The status a payment has while the provider is being asked about it.
Sent(status) ==
    CASE status = "Created" -> "Pending"
      [] status = "Unknown" -> "ReconciliationRequired"
      [] OTHER -> status

\* Confirmed coverage payments of the earlier Covered months.
CoveredBefore(m) ==
    {i \in Instruction : i[1] < m /\ month[i[1]] = "Covered" /\ coverage[i] # "none"}

\* Mutant: covered months owe nothing.
ForgetsCoveredDebt(m) == \E e \in Month : e < m /\ month[e] \in {"Open", "Missed"}

HasEarlierOutstandingTenantDebt(m) ==
    \/ \E e \in Month : e < m /\ month[e] \in {"Open", "Missed"}
    \/ /\ \E e \in Month : e < m /\ month[e] = "Covered"
       /\ \/ CoveredBefore(m) = {}
          \/ \E i \in CoveredBefore(m) : coverage[i] # "Replaced"

\* Mutant: only later months are looked at.
ClosesBeforeEarlier(m) == \A l \in Month : l > m => month[l] = "Open"

CanCloseChronologically(m) ==
    /\ \A e \in Month : e < m => month[e] # "Open"
    /\ \A l \in Month : l > m => month[l] = "Open"

\* Mutant: coverage by the platform ends the tenant's streak.
CoveredEndsStreak(m) ==
    1 + Cardinality({e \in Month : e < m /\ \A j \in e..(m - 1) : month[j] = "Missed"})

\* DelinquencySequence over the closed months before m, newest first, until a
\* Paid month, with month m counted as missed. Every closing counts again, so
\* the number the row shows decides nothing and is left out.
MissedStreakAfter(m) ==
    1 + Cardinality({e \in Month : /\ e < m
                                   /\ month[e] # "Open"
                                   /\ \A j \in e..(m - 1) : month[j] # "Paid"})

-----------------------------------------------------------------------------
(* ReconcileAsync *)

\* First transaction: the guards on a Created instruction, then Pending.
StartReconcile(c, i) ==
    /\ call[c] = Idle
    /\ payment[i] \in Unresolved
    /\ payment[i] = "Created" =>
         /\ contract = "Active"
         /\ ~cancelRequired
         /\ ~HasEarlierOutstandingTenantDebt(i[1])
    /\ external[i] # "Succeeded"
    /\ payment' = [payment EXCEPT ![i] = Sent(@)]
    /\ external' = [external EXCEPT ![i] = "Pending"]
    /\ call' = [call EXCEPT ![c] = [instruction |-> i, response |-> "awaited"]]
    /\ UNCHANGED <<contract, month, coverage, cancelRequired, provider, memory, now>>

\* The provider is only queried: whether the tenant paid is decided there, at
\* any time, once.
ProviderDecides(i) ==
    /\ provider[i] = "undecided"
    /\ \E outcome \in {"paid", "rejected"} :
         provider' = [provider EXCEPT ![i] = outcome]
    /\ UNCHANGED <<rows, call, memory, now>>

\* QueryAsync answers from what the provider knows now; the answer can be
\* overtaken by the other callers before it is recorded.
ProviderAnswers(c) ==
    /\ call[c] # Idle
    /\ call[c].response = "awaited"
    /\ \E response \in Response :
         /\ response = "Confirmed" => provider[call[c].instruction] = "paid"
         /\ response = "Failed" => provider[call[c].instruction] = "rejected"
         /\ call' = [call EXCEPT ![c].response = response]
    /\ UNCHANGED <<rows, provider, memory, now>>

\* Second transaction, on rows read again: a settled instruction is left alone, an answer its
\* state machine refuses throws and rolls back, any other is written; the last
\* success of a month pays the month.
RecordAnswer(c) ==
    /\ call[c] # Idle
    /\ call[c].response # "awaited"
    /\ call' = [call EXCEPT ![c] = Idle]
    /\ LET i == call[c].instruction
           outcome == OutcomeOf(call[c].response)
           m == i[1]
       IN IF AcceptsOutcome(payment[i], outcome)
          THEN /\ payment' = [payment EXCEPT ![i] = outcome]
               /\ external' = [external EXCEPT ![i] = outcome]
               /\ IF /\ month[m] = "Open"
                     /\ \A j \in InstructionsOf(m) : payment'[j] = "Succeeded"
                     /\ CanCloseChronologically(m)
                     /\ ~HasEarlierOutstandingTenantDebt(m)
                  THEN month' = [month EXCEPT ![m] = "Paid"]
                  ELSE UNCHANGED month
          ELSE UNCHANGED <<payment, external, month>>
    /\ UNCHANGED <<contract, coverage, cancelRequired, provider, memory, now>>

\* The process dies between the two transactions: what was committed stays.
CrashCaller(c) ==
    /\ call[c] # Idle
    /\ call' = [call EXCEPT ![c] = Idle]
    /\ UNCHANGED <<rows, provider, memory, now>>

-----------------------------------------------------------------------------
(* ProcessAsync and CloseAsync *)

\* ProcessAsync reads month m Open and due and its contract Active; what it or
\* ReconcileAsync reads of them stays in the pass's tracker. An instruction is
\* known as Created only when older debt kept it from being sent.
TakeMonth(w, m) ==
    /\ taken[w] = Idle
    /\ month[m] = "Open"
    /\ m <= now
    /\ contract = "Active"
    /\ \E unsent \in SUBSET {i \in InstructionsOf(m) : payment[i] = "Created"} :
         /\ unsent # {} => HasEarlierOutstandingTenantDebt(m)
         /\ taken' = [taken EXCEPT ![w] = [month |-> m, unsent |-> unsent]]
    /\ UNCHANGED <<rows, provider, call, unlatched, requested, setBack, now>>

\* Mutant of BlockedBy, the code before ArrearsBlocked existed.
NothingBlocked(t) == {}

\* Older debt blocks the instructions that were never started, as the pass
\* knows them.
BlockedBy(t) ==
    {i \in InstructionsOf(t.month) : /\ i \in t.unsent \/ payment[i] = "Created"
                                    /\ HasEarlierOutstandingTenantDebt(t.month)}

Blocked(t) ==
    [i \in Instruction |-> IF i \in BlockedBy(t) THEN "ArrearsBlocked" ELSE payment[i]]

\* Some instruction still has no outcome, as the pass knows it.
SeesUnresolved(t) ==
    \E i \in InstructionsOf(t.month) \ BlockedBy(t) : i \in t.unsent \/ payment[i] \in Unresolved

SeesAllPaid(t) ==
    \A i \in InstructionsOf(t.month) : i \notin t.unsent /\ payment[i] = "Succeeded"

\* Some instruction has no outcome: only the blocking is kept.
BlocksOnly(t) ==
    /\ CanCloseChronologically(t.month)
    /\ SeesUnresolved(t)
    /\ BlockedBy(t) # {}
    /\ payment' = Blocked(t)
    /\ UNCHANGED <<contract, month, cancelRequired, setBack>>

ClosesAsPaid(t) ==
    /\ CanCloseChronologically(t.month)
    /\ SeesAllPaid(t)
    /\ ~HasEarlierOutstandingTenantDebt(t.month)
    /\ month' = [month EXCEPT ![t.month] = "Paid"]
    /\ UNCHANGED <<contract, payment, cancelRequired, setBack>>

\* Every instruction has an outcome and one is not a success.
SeesMiss(t) ==
    /\ CanCloseChronologically(t.month)
    /\ ~SeesUnresolved(t)
    /\ ~SeesAllPaid(t)

\* The third consecutive miss latches the cancellation.
ClosesAsMissed(t, latchSeen) ==
    /\ SeesMiss(t)
    /\ ~latchSeen
    /\ payment' = Blocked(t)
    /\ month' = [month EXCEPT ![t.month] = "Missed"]
    /\ setBack' = (setBack \/ month[t.month] = "Covered")
    /\ IF MissedStreakAfter(t.month) >= CancellationThreshold
       THEN /\ cancelRequired' = TRUE
            /\ contract' = "CancellationPending"
       ELSE UNCHANGED <<cancelRequired, contract>>

\* A latched delinquency refuses the miss; the instructions already blocked
\* stay modified in the tracker, and the next save of the pass writes them.
RefusesMiss(t, latchSeen) ==
    /\ SeesMiss(t)
    /\ latchSeen
    /\ payment' = Blocked(t)
    /\ UNCHANGED <<contract, month, cancelRequired, setBack>>

\* A pass closes the month it has taken. It has read the delinquency row when
\* it closed an earlier month, or reads it now, and knows it afterwards.
CloseMonth(w) ==
    LET t == taken[w]
        latchSeen == cancelRequired /\ w \notin unlatched
    IN /\ t # Idle
       /\ taken' = [taken EXCEPT ![w] = Idle]
       /\ \/ (BlocksOnly(t) \/ RefusesMiss(t, latchSeen)) /\ UNCHANGED unlatched
          \/ /\ ClosesAsPaid(t)
             /\ unlatched' = IF latchSeen THEN unlatched ELSE unlatched \cup {w}
          \/ /\ ClosesAsMissed(t, latchSeen)
             /\ unlatched' = IF MissedStreakAfter(t.month) >= CancellationThreshold
                              THEN unlatched \ {w} ELSE unlatched \cup {w}
       /\ UNCHANGED <<external, coverage, provider, call, requested, now>>

\* A pass nobody overtakes reads the month and closes it.
CloseAtOnce(m) ==
    LET t == [month |-> m, unsent |-> {}]
    IN /\ month[m] = "Open"
       /\ m <= now
       /\ contract = "Active"
       /\ BlocksOnly(t) \/ ClosesAsPaid(t) \/ ClosesAsMissed(t, cancelRequired)
       /\ UNCHANGED <<external, coverage, provider, call, taken, unlatched, requested, now>>

\* A closing that decides nothing, or fails, leaves the month to a later pass.
LeaveMonth(w) ==
    /\ taken[w] # Idle
    /\ taken' = [taken EXCEPT ![w] = Idle]
    /\ UNCHANGED <<rows, provider, call, unlatched, requested, setBack, now>>

\* The pass ends or dies, or a reconciliation clears its tracker.
PassForgets(w) ==
    /\ w \in unlatched \/ taken[w] # Idle
    /\ taken' = [taken EXCEPT ![w] = Idle]
    /\ unlatched' = unlatched \ {w}
    /\ UNCHANGED <<rows, provider, call, requested, setBack, now>>

DueDatePasses ==
    /\ now < MonthCount
    /\ now' = now + 1
    /\ UNCHANGED <<rows, provider, call, memory>>

-----------------------------------------------------------------------------
(* Coverage, as this service sees it; modelled in TenantCoverage. *)

Coverable(i) == payment[i] \in {"Failed", "ArrearsBlocked"}

CoverageConfirmed(i) ==
    /\ month[i[1]] = "Missed"
    /\ Coverable(i)
    /\ coverage[i] = "none"
    /\ coverage' = [coverage EXCEPT ![i] = "Succeeded"]
    /\ UNCHANGED <<contract, month, payment, external, cancelRequired, provider, call,
                   memory, now>>

FinalizeCoverage(m) ==
    /\ month[m] = "Missed"
    /\ \E i \in InstructionsOf(m) : Coverable(i)
    /\ \A i \in InstructionsOf(m) : Coverable(i) => coverage[i] # "none"
    /\ month' = [month EXCEPT ![m] = "Covered"]
    /\ UNCHANGED <<contract, payment, external, coverage, cancelRequired, provider, call,
                   memory, now>>

\* The first transaction of a repayment request reads the contract Active and
\* the delinquency unlatched.
BeginRepayment ==
    /\ contract = "Active"
    /\ ~cancelRequired
    /\ \E i \in Instruction : coverage[i] = "Succeeded"
    /\ requested' = TRUE
    /\ UNCHANGED <<rows, provider, call, taken, unlatched, setBack, now>>

\* A confirmed replenishment pays all covered principal and finalizes every
\* open lost fund return. It is posted on the contract and the delinquency the
\* request read at its beginning, so it can come after the latch.
PostReplenishment ==
    /\ requested
    /\ \E i \in Instruction : coverage[i] = "Succeeded"
    /\ coverage' = [i \in Instruction |->
                      IF coverage[i] = "Succeeded" THEN "Replaced" ELSE coverage[i]]
    /\ UNCHANGED <<contract, month, payment, external, cancelRequired, provider, call,
                   memory, now>>

-----------------------------------------------------------------------------
Next ==
    \/ \E c \in Callers :
         \/ \E i \in Instruction : StartReconcile(c, i)
         \/ ProviderAnswers(c)
         \/ RecordAnswer(c)
         \/ CrashCaller(c)
    \/ \E i \in Instruction : ProviderDecides(i) \/ CoverageConfirmed(i)
    \/ \E w \in Workers :
         \/ \E m \in Month : TakeMonth(w, m)
         \/ CloseMonth(w)
         \/ LeaveMonth(w)
         \/ PassForgets(w)
    \/ \E m \in Month : CloseAtOnce(m) \/ FinalizeCoverage(m)
    \/ BeginRepayment
    \/ PostReplenishment
    \/ DueDatePasses

Spec == Init /\ [][Next]_vars

-----------------------------------------------------------------------------
(* Properties. *)

Closed(m) == month[m] # "Open"

Unpaid(m) == month[m] \in {"Missed", "Covered"}

\* A caller at its first or second transaction always finds the payment and
\* its external transaction telling the same story.  If they could part (a
\* crash, an answer recorded by another caller), ReconcileAsync would refuse
\* the instruction for ever or pay it twice.  Here and below, what ~setBack
\* guards holds until a closing has written Missed over a covered month.
RowsAgree ==
    ~setBack =>
    \A i \in Instruction :
        CASE payment[i] \in {"Created", "ArrearsBlocked"} -> external[i] = "none"
          [] payment[i] \in {"Pending", "ReconciliationRequired"} -> external[i] = "Pending"
          [] OTHER -> external[i] = payment[i]

\* Closing is chronological whatever the order in which answers arrive and
\* however old the memory a pass closes on: the closed months are always the
\* first ones of the contract.
ClosedMonthsAreAPrefix ==
    \A m \in Month : Closed(m) => \A e \in 1..m : Closed(e)

\* No answer of the provider can arrive for a closed month: all its
\* instructions ended before it closed, and it is Paid exactly when all of
\* them succeeded.
ClosedMonthsAreSettled ==
    ~setBack =>
    \A m \in Month : Closed(m) =>
        /\ \A i \in InstructionsOf(m) : payment[i] \notin Unresolved
        /\ month[m] = "Paid" <=> \A i \in InstructionsOf(m) : payment[i] = "Succeeded"

OwesDebt(m) ==
    \/ month[m] \in {"Open", "Missed"}
    \/ month[m] = "Covered" /\ \E i \in InstructionsOf(m) : coverage[i] = "Succeeded"

\* Oldest debt first, at every later moment too: behind a Paid month, and
\* behind a payment the provider is being asked about, no older month is open,
\* missed, or covered with a lost fund return still to repay.
OldestDebtFirst ==
    ~setBack =>
    \A m \in Month :
        month[m] = "Paid" \/ (\E i \in InstructionsOf(m) : payment[i] \in InFlight)
            => \A e \in Month : e < m => ~OwesDebt(e)

\* The cancellation is latched, and the contract leaves Active, exactly when
\* three consecutive months closed unpaid; coverage does not rewrite history,
\* and a pass that never saw the latch does not undo it.
CancelledByThreeMisses ==
    ~setBack =>
    /\ cancelRequired <=> contract = "CancellationPending"
    /\ cancelRequired <=> \E m \in Month : m > 2 /\ Unpaid(m) /\ Unpaid(m - 1) /\ Unpaid(m - 2)

\* Once the cancellation is latched no payment of the contract is under way,
\* so none can succeed after the settlement has been computed.
NothingInFlightOnceCancelled ==
    ~setBack /\ cancelRequired => \A i \in Instruction : payment[i] \notin InFlight

\* An instruction the provider was asked about is covered from the tenant
\* contribution only if the tenant really did not pay it.
CoverageNeverDuplicatesAPayment ==
    ~setBack =>
    \A i \in Instruction :
        coverage[i] # "none" /\ external[i] # "none" => provider[i] = "rejected"

\* The only way a covered month becomes missed again: it is the newest closed
\* month, and a worker closes it that had read it before it closed.
SetBackBy(w, m) ==
    /\ taken[w] # Idle
    /\ taken[w].month = m
    /\ taken'[w] = Idle
    /\ \A l \in Month : l > m => month[l] = "Open"

\* A late, stale or repeated answer never changes an outcome. No closed month
\* opens or changes its outcome, except that a slow replica, closing the newest
\* one on what it remembers, writes Missed over the Covered of another.
OutcomesAreFinal ==
    [][~setBack =>
       /\ \A i \in Instruction :
            payment[i] \in {"Succeeded", "Failed", "ArrearsBlocked"}
                => payment'[i] = payment[i] /\ external'[i] = external[i]
       /\ \A m \in Month :
            Closed(m) =>
                \/ month'[m] = month[m]
                \/ month[m] = "Missed" /\ month'[m] = "Covered"
                \/ /\ month[m] = "Covered" /\ month'[m] = "Missed" /\ setBack'
                   /\ \E w \in Workers : SetBackBy(w, m)]_vars

\* The months, seen as paid, unpaid and repaid, follow RentLadder until a
\* covered month is set back.
Ladder == INSTANCE RentLadder WITH
    standing <- [m \in Month |-> CASE month[m] = "Open" -> "open"
                                   [] month[m] = "Paid" -> "paid"
                                   [] OTHER -> "unpaid"],
    repaid <- {m \in Month : /\ Unpaid(m)
                             /\ \A i \in InstructionsOf(m) :
                                  Coverable(i) => coverage[i] = "Replaced"},
    cancelled <- cancelRequired

ImplementsLadder ==
    /\ Ladder!LadderInit
    /\ [][~setBack' => [Ladder!LadderNext]_(Ladder!ladderVars)]_vars

-----------------------------------------------------------------------------
(* Liveness.  The worker polls for ever, so each of its steps is fair; a    *)
(* provider that is asked infinitely often eventually gives its outcome.    *)

\* EfMonthlyDueLifecycleService and the payment stage of the worker pass.
WorkerReconciles(c, i) == i[1] <= now /\ StartReconcile(c, i)

\* A step of some caller about instruction i whose answer settles it.
SettlingStep(i, Step(_)) ==
    \E c \in Callers :
        /\ call[c] # Idle
        /\ call[c].instruction = i
        /\ Step(c)

AnswersForGood(c) == ProviderAnswers(c) /\ call'[c].response # "Unproven"

RecordsForGood(c) == call[c].response \in {"Confirmed", "Failed"} /\ RecordAnswer(c)

FairSpec ==
    /\ Spec
    /\ \A c \in Callers : WF_vars(RecordAnswer(c)) /\ WF_vars(ProviderAnswers(c))
    /\ \A i \in Instruction :
         /\ SF_vars(\E c \in Callers : WorkerReconciles(c, i))
         /\ WF_vars(ProviderDecides(i))
         /\ SF_vars(SettlingStep(i, AnswersForGood))
         /\ SF_vars(SettlingStep(i, RecordsForGood))
    /\ \A m \in Month : WF_vars(CloseAtOnce(m))

\* A month whose due date has passed is eventually closed, unless the contract
\* is cancelled or a covered month set back first: no month is left waiting on
\* an instruction that can neither be paid nor blocked.
DueMonthsClose ==
    \A m \in Month :
        m <= now ~> Closed(m) \/ contract = "CancellationPending" \/ setBack

=============================================================================
