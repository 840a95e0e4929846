-------------------------- MODULE RentCycleProofs --------------------------
(***************************************************************************)
(* Proofs that the rent cycle keeps its safety properties for any number   *)
(* of months, components, callers and workers, and that it implements      *)
(* RentLadder.  The months close in order in every state.  The other       *)
(* properties hold as long as no covered month has been set back, and need *)
(* each other there: a pass that closes a month on an old memory does no   *)
(* harm because the debt it remembers cannot come back.  So they are       *)
(* proved together, as the parts of one inductive invariant, Sound.        *)
(***************************************************************************)
EXTENDS RentCycle, FiniteSetTheorems, TLAPS

-----------------------------------------------------------------------------
(* The steps of the service. *)

\* An instruction belongs to a month of the contract.
LEMMA InstructionMonth == \A i \in Instruction : i[1] \in Month
  BY DEF Instruction

\* A caller under way holds an instruction and a response.
LEMMA CallType ==
  ASSUME TypeOK, NEW c \in Callers, call[c] # Idle
  PROVE  /\ call[c] \in Call
         /\ call[c].instruction \in Instruction
         /\ call[c].response \in Response \cup {"awaited"}
  BY DEF TypeOK, Call

\* The outcomes ReconcileAsync can record.
LEMMA OutcomeType ==
  ASSUME NEW response
  PROVE  OutcomeOf(response) \in {"Succeeded", "Failed", "Unknown"}
  BY DEF OutcomeOf

\* A payment the provider is asked about waits for its answer.
LEMMA SentType ==
  ASSUME NEW status \in Unresolved
  PROVE  Sent(status) \in {"Pending", "ReconciliationRequired"}
  BY DEF Sent, Unresolved

\* Blocking the instructions of a month leaves every payment a payment status.
LEMMA BlockedType ==
  ASSUME TypeOK, NEW t
  PROVE  Blocked(t) \in [Instruction -> PaymentStatus]
  BY DEF TypeOK, Blocked, PaymentStatus

\* What closing a month does, on the memory of a pass or on a fresh reading.
ClosingStep(t, latchSeen) ==
    /\ \/ BlocksOnly(t)
       \/ ClosesAsPaid(t)
       \/ ClosesAsMissed(t, latchSeen)
       \/ RefusesMiss(t, latchSeen)
    /\ UNCHANGED <<external, coverage, provider, call>>

\* The memory a month is closed on: a worker's, given up, or a fresh one.
ClosesOn(t) ==
    \/ \E w \in Workers : taken[w] # Idle /\ taken[w] = t /\ taken'[w] = Idle
    \/ month[t.month] = "Open" /\ t.unsent = {}

\* Every step is one of these; the last changes no row of the service.
LEMMA StepCases ==
  ASSUME TypeOK, [Next]_vars
  PROVE  \/ \E c \in Callers, i \in Instruction : StartReconcile(c, i)
         \/ \E c \in Callers : ProviderAnswers(c) \/ RecordAnswer(c) \/ CrashCaller(c)
         \/ \E i \in Instruction : ProviderDecides(i) \/ CoverageConfirmed(i)
         \/ \E t \in Taken, latchSeen \in BOOLEAN :
              /\ ClosingStep(t, latchSeen)
              /\ ClosesOn(t)
              /\ \A v \in Workers : taken'[v] = taken[v] \/ taken'[v] = Idle
         \/ \E m \in Month : FinalizeCoverage(m)
         \/ PostReplenishment
         \/ UNCHANGED <<rows, provider, call, setBack>>
<1>1. ASSUME NEW w \in Workers, CloseMonth(w)
      PROVE  \E t \in Taken, latchSeen \in BOOLEAN :
              /\ ClosingStep(t, latchSeen)
              /\ ClosesOn(t)
              /\ \A v \in Workers : taken'[v] = taken[v] \/ taken'[v] = Idle
  <2> DEFINE t == taken[w]
             latchSeen == cancelRequired /\ w \notin unlatched
  <2>1. t \in Taken /\ latchSeen \in BOOLEAN
    BY <1>1 DEF CloseMonth, TypeOK
  <2>2. ClosingStep(t, latchSeen)
    BY <1>1 DEF CloseMonth, ClosingStep
  <2>3. taken' = [taken EXCEPT ![w] = Idle] /\ t # Idle
    BY <1>1 DEF CloseMonth
  <2>4. ClosesOn(t) /\ \A v \in Workers : taken'[v] = taken[v] \/ taken'[v] = Idle
    BY <2>3 DEF ClosesOn, TypeOK
  <2> QED
    BY <2>1, <2>2, <2>4
<1>2. ASSUME NEW m \in Month, CloseAtOnce(m)
      PROVE  \E t \in Taken, latchSeen \in BOOLEAN :
              /\ ClosingStep(t, latchSeen)
              /\ ClosesOn(t)
              /\ \A v \in Workers : taken'[v] = taken[v] \/ taken'[v] = Idle
  <2> DEFINE t == [month |-> m, unsent |-> {}]
  <2>1. t \in Taken /\ cancelRequired \in BOOLEAN
    BY DEF Taken, TypeOK
  <2>2. ClosingStep(t, cancelRequired)
    BY <1>2 DEF CloseAtOnce, ClosingStep
  <2>3. ClosesOn(t) /\ \A v \in Workers : taken'[v] = taken[v]
    BY <1>2 DEF CloseAtOnce, ClosesOn
  <2> QED
    BY <2>1, <2>2, <2>3
<1>3. ASSUME \/ \E w \in Workers :
                  \/ \E m \in Month : TakeMonth(w, m)
                  \/ LeaveMonth(w)
                  \/ PassForgets(w)
             \/ BeginRepayment
             \/ DueDatePasses
             \/ UNCHANGED vars
      PROVE  UNCHANGED <<rows, provider, call, setBack>>
  BY <1>3 DEF TakeMonth, LeaveMonth, PassForgets, BeginRepayment, DueDatePasses, vars, memory
<1> QED
  BY <1>1, <1>2, <1>3 DEF Next

\* A closing writes these columns and no other.
LEMMA ClosingWrites ==
  ASSUME NEW t, NEW latchSeen, ClosingStep(t, latchSeen)
  PROVE  /\ payment' = payment \/ payment' = Blocked(t)
         /\ \/ month' = month
            \/ ClosesAsPaid(t) /\ month' = [month EXCEPT ![t.month] = "Paid"]
            \/ /\ ClosesAsMissed(t, latchSeen)
               /\ month' = [month EXCEPT ![t.month] = "Missed"]
         /\ \/ cancelRequired' = cancelRequired /\ contract' = contract
            \/ ClosesAsMissed(t, latchSeen)
         /\ external' = external /\ coverage' = coverage /\ provider' = provider
         /\ call' = call
  BY DEF ClosingStep, BlocksOnly, ClosesAsPaid, ClosesAsMissed, RefusesMiss

\* Every row keeps the states its column may hold.
THEOREM TypeCorrect == Spec => []TypeOK
<1>1. Init => TypeOK
  <2> SUFFICES ASSUME Init PROVE TypeOK
    OBVIOUS
  <2>1. now \in 0..MonthCount
    BY MonthCountAssumption DEF Init
  <2>2. cancelRequired \in BOOLEAN /\ requested \in BOOLEAN /\ setBack \in BOOLEAN
    BY DEF Init
  <2> QED
    BY <2>1, <2>2 DEF Init, TypeOK, MonthStatus, PaymentStatus
<1>2. TypeOK /\ [Next]_vars => TypeOK'
  <2> SUFFICES ASSUME TypeOK, [Next]_vars PROVE TypeOK'
    OBVIOUS
  <2> USE DEF rows, memory
  <2>1. ASSUME NEW c \in Callers, NEW i \in Instruction, StartReconcile(c, i)
        PROVE  TypeOK'
    <3>1. Sent(payment[i]) \in PaymentStatus
      BY <2>1, SentType DEF StartReconcile, PaymentStatus
    <3>2. [instruction |-> i, response |-> "awaited"] \in Call
      BY DEF Call
    <3> QED
      BY <2>1, <3>1, <3>2 DEF TypeOK, StartReconcile
  <2>2. ASSUME NEW c \in Callers, ProviderAnswers(c)
        PROVE  TypeOK'
    <3>1. PICK response \in Response : call' = [call EXCEPT ![c].response = response]
      BY <2>2 DEF ProviderAnswers
    <3>2. call[c] \in Call
      BY <2>2, CallType DEF ProviderAnswers
    <3>3. [call[c] EXCEPT !.response = response] \in Call
      BY <3>2 DEF Call
    <3> QED
      BY <2>2, <3>1, <3>3 DEF TypeOK, ProviderAnswers
  <2>3. ASSUME NEW c \in Callers, RecordAnswer(c)
        PROVE  TypeOK'
    <3> DEFINE i == call[c].instruction
               outcome == OutcomeOf(call[c].response)
    <3>1. i \in Instruction /\ i[1] \in Month
      BY <2>3, CallType, InstructionMonth DEF RecordAnswer
    <3>2. outcome \in {"Succeeded", "Failed", "Unknown"}
      BY OutcomeType
    <3>3. payment' \in [Instruction -> PaymentStatus]
      BY <2>3, <3>1, <3>2 DEF TypeOK, RecordAnswer, PaymentStatus
    <3>4. external' \in [Instruction -> {"none", "Pending", "Unknown", "Succeeded", "Failed"}]
      BY <2>3, <3>1, <3>2 DEF TypeOK, RecordAnswer
    <3>5. month' \in [Month -> MonthStatus]
      BY <2>3, <3>1 DEF TypeOK, RecordAnswer, MonthStatus
    <3>6. call' \in [Callers -> Call \cup {Idle}]
      BY <2>3 DEF TypeOK, RecordAnswer
    <3> QED
      BY <2>3, <3>3, <3>4, <3>5, <3>6 DEF TypeOK, RecordAnswer
  <2>4. ASSUME NEW c \in Callers, CrashCaller(c)
        PROVE  TypeOK'
    BY <2>4 DEF TypeOK, CrashCaller
  <2>5. ASSUME NEW i \in Instruction, ProviderDecides(i)
        PROVE  TypeOK'
    BY <2>5 DEF TypeOK, ProviderDecides
  <2>6. ASSUME NEW i \in Instruction, CoverageConfirmed(i)
        PROVE  TypeOK'
    BY <2>6 DEF TypeOK, CoverageConfirmed
  <2>7. ASSUME NEW t, NEW latchSeen, ClosingStep(t, latchSeen),
               taken' \in [Workers -> Taken \cup {Idle}], unlatched' \subseteq Workers,
               UNCHANGED <<requested, now>>
        PROVE  TypeOK'
    <3>1. payment' \in [Instruction -> PaymentStatus]
      BY <2>7, ClosingWrites, BlockedType DEF TypeOK
    <3>2. month' \in [Month -> MonthStatus]
      BY <2>7, ClosingWrites DEF TypeOK, MonthStatus
    <3>3. /\ contract' \in {"Active", "CancellationPending"}
          /\ cancelRequired' \in BOOLEAN /\ setBack' \in BOOLEAN
      BY <2>7 DEF TypeOK, ClosingStep, BlocksOnly, ClosesAsPaid, ClosesAsMissed, RefusesMiss
    <3> QED
      BY <2>7, <3>1, <3>2, <3>3, ClosingWrites DEF TypeOK
  <2>8. ASSUME NEW w \in Workers, CloseMonth(w)
        PROVE  TypeOK'
    <3>1. ClosingStep(taken[w], cancelRequired /\ w \notin unlatched)
      BY <2>8 DEF CloseMonth, ClosingStep
    <3>2. /\ taken' \in [Workers -> Taken \cup {Idle}] /\ unlatched' \subseteq Workers
          /\ UNCHANGED <<requested, now>>
      BY <2>8 DEF CloseMonth, TypeOK
    <3> QED
      BY <2>7, <3>1, <3>2
  <2>9. ASSUME NEW m \in Month, CloseAtOnce(m)
        PROVE  TypeOK'
    <3>1. ClosingStep([month |-> m, unsent |-> {}], cancelRequired)
      BY <2>9 DEF CloseAtOnce, ClosingStep
    <3>2. UNCHANGED <<taken, unlatched, requested, now>>
      BY <2>9 DEF CloseAtOnce
    <3> QED
      BY <2>7, <3>1, <3>2 DEF TypeOK
  <2>10. ASSUME NEW w \in Workers, NEW m \in Month, TakeMonth(w, m)
         PROVE  TypeOK'
    <3>1. PICK unsent \in SUBSET {i \in InstructionsOf(m) : payment[i] = "Created"} :
            taken' = [taken EXCEPT ![w] = [month |-> m, unsent |-> unsent]]
      BY <2>10 DEF TakeMonth
    <3>2. [month |-> m, unsent |-> unsent] \in Taken
      BY DEF Taken, InstructionsOf
    <3> QED
      BY <2>10, <3>1, <3>2 DEF TypeOK, TakeMonth
  <2>11. ASSUME NEW w \in Workers, LeaveMonth(w) \/ PassForgets(w)
         PROVE  TypeOK'
    BY <2>11 DEF TypeOK, LeaveMonth, PassForgets
  <2>12. ASSUME NEW m \in Month, FinalizeCoverage(m)
         PROVE  TypeOK'
    BY <2>12 DEF TypeOK, FinalizeCoverage, MonthStatus
  <2>13. CASE BeginRepayment \/ PostReplenishment
    BY <2>13 DEF TypeOK, BeginRepayment, PostReplenishment
  <2>14. CASE DueDatePasses
    BY <2>14, MonthCountAssumption DEF TypeOK, DueDatePasses
  <2>15. CASE UNCHANGED vars
    BY <2>15 DEF TypeOK, vars
  <2> QED
    BY <2>1, <2>2, <2>3, <2>4, <2>5, <2>6, <2>8, <2>9, <2>10, <2>11, <2>12, <2>13, <2>14, <2>15
    DEF Next
<1> QED
  BY <1>1, <1>2, PTL DEF Spec

-----------------------------------------------------------------------------
(* The order in which months close. *)

\* A month closes only right after the months before it, even on an old memory.
THEOREM MonthsCloseInOrder == Spec => []ClosedMonthsAreAPrefix
<1>1. Init => ClosedMonthsAreAPrefix
  BY DEF Init, ClosedMonthsAreAPrefix, Closed
<1>2. TypeOK /\ ClosedMonthsAreAPrefix /\ [Next]_vars => ClosedMonthsAreAPrefix'
  <2> SUFFICES ASSUME TypeOK, ClosedMonthsAreAPrefix, [Next]_vars,
                      NEW m \in Month, Closed(m)', NEW e \in 1..m
               PROVE  Closed(e)'
    BY DEF ClosedMonthsAreAPrefix
  <2>1. e \in Month /\ e <= m
    BY MonthCountAssumption DEF Month
  <2>2. ASSUME NEW n \in Month, CanCloseChronologically(n),
               month' \in {[month EXCEPT ![n] = "Paid"], [month EXCEPT ![n] = "Missed"]}
        PROVE  Closed(e)'
    <3>1. CASE m = n
      <4>1. e = n \/ month[e] # "Open"
        BY <2>1, <2>2, <3>1, MonthCountAssumption DEF CanCloseChronologically, Month
      <4> QED
        BY <2>1, <2>2, <4>1 DEF Closed, TypeOK
    <3>2. CASE m # n
      BY <2>1, <2>2, <3>2 DEF Closed, ClosedMonthsAreAPrefix, TypeOK
    <3> QED
      BY <3>1, <3>2
  <2>3. ASSUME NEW n \in Month, FinalizeCoverage(n)
        PROVE  Closed(e)'
    BY <2>1, <2>3 DEF FinalizeCoverage, Closed, ClosedMonthsAreAPrefix, TypeOK
  <2>4. CASE month' = month
    BY <2>4 DEF Closed, ClosedMonthsAreAPrefix
  <2>5. ASSUME NEW c \in Callers, RecordAnswer(c), month' # month
        PROVE  \E n \in Month : /\ CanCloseChronologically(n)
                                /\ month' = [month EXCEPT ![n] = "Paid"]
    BY <2>5, CallType, InstructionMonth DEF RecordAnswer
  <2>6. ASSUME NEW t \in Taken, NEW latchSeen \in BOOLEAN, ClosingStep(t, latchSeen)
        PROVE  \/ month' = month
               \/ /\ t.month \in Month /\ CanCloseChronologically(t.month)
                  /\ month' \in {[month EXCEPT ![t.month] = "Paid"], [month EXCEPT ![t.month] = "Missed"]}
    BY <2>6, ClosingWrites DEF Taken, ClosesAsPaid, ClosesAsMissed, SeesMiss
  <2> QED
    BY <2>2, <2>3, <2>4, <2>5, <2>6, StepCases
    DEF rows, StartReconcile, ProviderAnswers, CrashCaller, ProviderDecides, CoverageConfirmed,
        PostReplenishment
<1> QED
  BY <1>1, <1>2, TypeCorrect, PTL DEF Spec

-----------------------------------------------------------------------------
(* The parts of the invariant. *)

\* What the properties about coverage rest on: answers tell what happened at
\* the provider, only an unpaid component of a closed unpaid month is covered,
\* and a Covered month has all of its unpaid components covered.
CoverageTruth ==
    /\ \A c \in Callers : call[c] # Idle /\ call[c].response = "Failed"
         => provider[call[c].instruction] = "rejected"
    /\ \A i \in Instruction : payment[i] = "Failed" => provider[i] = "rejected"
    /\ \A i \in Instruction : coverage[i] # "none" => Coverable(i) /\ Unpaid(i[1])
    /\ \A i \in Instruction :
         month[i[1]] = "Covered" /\ Coverable(i) => coverage[i] # "none"

\* What a pass remembers as Created was held back by older debt; it was not
\* sent since, unless that debt was settled.
MemoryTruth ==
    \A w \in Workers : taken[w] # Idle =>
        \A i \in taken[w].unsent :
            /\ i \in InstructionsOf(taken[w].month)
            /\ \/ payment[i] \in {"Created", "ArrearsBlocked"}
               \/ ~HasEarlierOutstandingTenantDebt(taken[w].month)

\* The provider is asked about a payment only past all older debt, so a latched
\* cancellation leaves no open month paid for.
AskedPastDebt ==
    \A i \in Instruction :
        payment[i] \notin {"Created", "ArrearsBlocked"}
            => \A e \in Month : e < i[1] => ~OwesDebt(e)

NoneWaitsPaid ==
    cancelRequired => \A i \in Instruction : month[i[1]] = "Open" => payment[i] # "Succeeded"

\* The invariant: no covered month has been set back, and everything holds.
Sound ==
    /\ ~setBack
    /\ RowsAgree
    /\ ClosedMonthsAreSettled
    /\ OldestDebtFirst
    /\ CancelledByThreeMisses
    /\ NothingInFlightOnceCancelled
    /\ CoverageTruth
    /\ MemoryTruth
    /\ AskedPastDebt
    /\ NoneWaitsPaid

\* A set back is never forgotten.
LEMMA SetBackStays ==
  ASSUME TypeOK, [Next]_vars, setBack
  PROVE  setBack'
BY StepCases
DEF rows, memory, StartReconcile, ProviderAnswers, RecordAnswer, CrashCaller, ProviderDecides,
    CoverageConfirmed, ClosingStep, BlocksOnly, ClosesAsPaid, ClosesAsMissed, RefusesMiss,
    FinalizeCoverage, PostReplenishment

Behind(m) == \A e \in Month : e < m => ~OwesDebt(e)

\* The service's query answers no only when nothing older is owed.
LEMMA QueryFindsDebt ==
  ASSUME TypeOK, NEW m \in Month, ~HasEarlierOutstandingTenantDebt(m)
  PROVE  Behind(m)
<1> SUFFICES ASSUME NEW e \in Month, e < m, OwesDebt(e) PROVE FALSE
  BY DEF Behind
<1>1. month[e] = "Covered" /\ \E i \in InstructionsOf(e) : coverage[i] = "Succeeded"
  BY DEF OwesDebt, HasEarlierOutstandingTenantDebt
<1>2. PICK i \in InstructionsOf(e) : coverage[i] = "Succeeded"
  BY <1>1
<1>3. i \in CoveredBefore(m)
  BY <1>1, <1>2 DEF CoveredBefore, InstructionsOf
<1> QED
  BY <1>1, <1>2, <1>3 DEF HasEarlierOutstandingTenantDebt

\* What older debt blocks was never sent.
LEMMA BlockedWasUnsent ==
  ASSUME TypeOK, Sound, [Next]_vars, NEW t \in Taken, ClosesOn(t), NEW i \in BlockedBy(t)
  PROVE  /\ payment[i] \in {"Created", "ArrearsBlocked"}
         /\ i \in InstructionsOf(t.month)
BY DEF Sound, MemoryTruth, ClosesOn, BlockedBy, Taken

\* A closing sees each instruction unresolved, succeeded, or as it then leaves it.
LEMMA MissLeavesNothingOpen ==
  ASSUME TypeOK, Sound, [Next]_vars, NEW t \in Taken, ClosesOn(t), SeesMiss(t),
         payment' = Blocked(t)
  PROVE  /\ \A i \in InstructionsOf(t.month) : payment'[i] \notin Unresolved
         /\ \E i \in InstructionsOf(t.month) : payment'[i] # "Succeeded"
<1>1. ASSUME NEW i \in InstructionsOf(t.month)
      PROVE  payment'[i] \notin Unresolved
  BY <1>1 DEF SeesMiss, SeesUnresolved, Blocked, Unresolved, InstructionsOf
<1>2. PICK i \in InstructionsOf(t.month) : i \in t.unsent \/ payment[i] # "Succeeded"
  BY DEF SeesMiss, SeesAllPaid
<1>3. payment'[i] # "Succeeded"
  BY <1>2 DEF SeesMiss, SeesUnresolved, Blocked, InstructionsOf
<1> QED
  BY <1>1, <1>3

\* A miss is never written over a paid month.
LEMMA MissSparesPaid ==
  ASSUME TypeOK, Sound, [Next]_vars, NEW t \in Taken, ClosesOn(t), SeesMiss(t)
  PROVE  month[t.month] # "Paid"
<1> SUFFICES ASSUME month[t.month] = "Paid" PROVE FALSE
  OBVIOUS
<1>0. t.month \in Month
  BY DEF Taken
<1>1. \A i \in InstructionsOf(t.month) : payment[i] = "Succeeded"
  BY <1>0 DEF Sound, ClosedMonthsAreSettled, Closed
<1>2. PICK i \in InstructionsOf(t.month) : i \in t.unsent
  BY <1>1 DEF SeesMiss, SeesAllPaid
<1>3. i \in BlockedBy(t)
  BY <1>2 DEF SeesMiss, SeesUnresolved
<1> QED
  BY <1>1, <1>3, BlockedWasUnsent

\* All paid is only seen of a month that is open or paid already.
LEMMA AllPaidIsPaid ==
  ASSUME TypeOK, Sound, NEW t \in Taken, SeesAllPaid(t)
  PROVE  month[t.month] \in {"Open", "Paid"}
BY DEF Taken, SeesAllPaid, Sound, ClosedMonthsAreSettled, Closed

\* What a step does to the months: nothing, or it closes one open month in
\* turn, or covers a missed one, or sets back a covered one on an old memory.
LEMMA MonthStep ==
  ASSUME TypeOK, Sound, [Next]_vars
  PROVE  \/ month' = month
         \/ \E m \in Month :
              /\ month[m] = "Open"
              /\ CanCloseChronologically(m)
              /\ month' \in {[month EXCEPT ![m] = "Paid"], [month EXCEPT ![m] = "Missed"]}
         \/ \E m \in Month :
              /\ month[m] = "Missed"
              /\ month' = [month EXCEPT ![m] = "Covered"]
         \/ \E m \in Month :
              /\ month[m] = "Covered"
              /\ month' = [month EXCEPT ![m] = "Missed"]
              /\ CanCloseChronologically(m)
              /\ setBack'
              /\ \E w \in Workers : taken[w] # Idle /\ taken[w].month = m /\ taken'[w] = Idle
<1>1. ASSUME NEW c \in Callers, RecordAnswer(c), month' # month
      PROVE  \E m \in Month :
               /\ month[m] = "Open"
               /\ CanCloseChronologically(m)
               /\ month' = [month EXCEPT ![m] = "Paid"]
  BY <1>1, CallType, InstructionMonth DEF RecordAnswer
<1>2. ASSUME NEW t \in Taken, ClosesOn(t), ClosesAsPaid(t)
      PROVE  month' = month \/ /\ month[t.month] = "Open"
                               /\ CanCloseChronologically(t.month)
                               /\ month' = [month EXCEPT ![t.month] = "Paid"]
  <2>1. month[t.month] \in {"Open", "Paid"} /\ t.month \in Month
    BY <1>2, AllPaidIsPaid DEF ClosesAsPaid, Taken
  <2> QED
    BY <1>2, <2>1 DEF ClosesAsPaid, TypeOK
<1>3. ASSUME NEW t \in Taken, NEW latchSeen, ClosesOn(t), ClosesAsMissed(t, latchSeen)
      PROVE  \/ month' = month
             \/ /\ month[t.month] = "Open"
                /\ CanCloseChronologically(t.month)
                /\ month' = [month EXCEPT ![t.month] = "Missed"]
             \/ /\ month[t.month] = "Covered"
                /\ month' = [month EXCEPT ![t.month] = "Missed"]
                /\ CanCloseChronologically(t.month)
                /\ setBack'
                /\ \E w \in Workers : taken[w] # Idle /\ taken[w].month = t.month /\ taken'[w] = Idle
  <2>1. month[t.month] \in MonthStatus /\ t.month \in Month
    BY DEF TypeOK, Taken
  <2>2. month[t.month] # "Paid" /\ CanCloseChronologically(t.month)
    BY <1>3, MissSparesPaid DEF ClosesAsMissed, SeesMiss
  <2>3. /\ month' = [month EXCEPT ![t.month] = "Missed"]
        /\ month[t.month] = "Covered" => setBack'
    BY <1>3 DEF ClosesAsMissed
  <2>4. CASE month[t.month] = "Missed"
    BY <2>1, <2>3, <2>4 DEF TypeOK
  <2>5. CASE month[t.month] = "Covered"
    BY <1>3, <2>2, <2>3, <2>5 DEF ClosesOn
  <2> QED
    BY <2>1, <2>2, <2>3, <2>4, <2>5 DEF MonthStatus
<1>4. ASSUME NEW m \in Month, FinalizeCoverage(m)
      PROVE  month[m] = "Missed" /\ month' = [month EXCEPT ![m] = "Covered"]
  BY <1>4 DEF FinalizeCoverage
<1>5. ASSUME NEW t \in Taken, NEW latchSeen \in BOOLEAN, ClosingStep(t, latchSeen)
      PROVE  /\ \/ month' = month
                \/ ClosesAsPaid(t)
                \/ ClosesAsMissed(t, latchSeen)
             /\ t.month \in Month
  BY <1>5, ClosingWrites DEF Taken
<1> QED
  BY <1>1, <1>2, <1>3, <1>4, <1>5, StepCases
  DEF rows, StartReconcile, ProviderAnswers, CrashCaller, ProviderDecides, CoverageConfirmed,
      PostReplenishment

\* A closed month keeps to its side, unpaid or paid, even when it is set back.
LEMMA UnpaidStep ==
  ASSUME TypeOK, Sound, [Next]_vars, NEW m \in Month, month[m] # "Open"
  PROVE  /\ month'[m] # "Open"
         /\ Unpaid(m)' <=> Unpaid(m)
         /\ month'[m] = "Paid" <=> month[m] = "Paid"
BY MonthStep DEF TypeOK, Unpaid

\* No step touches a payment that has an outcome or was blocked.
LEMMA PaymentStep ==
  ASSUME TypeOK, Sound, [Next]_vars, NEW i \in Instruction, payment[i] \notin Unresolved
  PROVE  payment'[i] = payment[i] /\ external'[i] = external[i]
<1>1. ASSUME NEW c \in Callers, NEW j \in Instruction, StartReconcile(c, j)
      PROVE  payment'[i] = payment[i] /\ external'[i] = external[i]
  BY <1>1 DEF TypeOK, StartReconcile
<1>2. ASSUME NEW c \in Callers, RecordAnswer(c)
      PROVE  payment'[i] = payment[i] /\ external'[i] = external[i]
  BY <1>2, CallType DEF TypeOK, RecordAnswer, AcceptsOutcome, Unresolved
<1>3. ASSUME NEW t \in Taken, NEW latchSeen \in BOOLEAN, ClosingStep(t, latchSeen), ClosesOn(t)
      PROVE  payment'[i] = payment[i] /\ external'[i] = external[i]
  <2>1. i \in BlockedBy(t) => payment[i] = "ArrearsBlocked"
    BY <1>3, BlockedWasUnsent DEF Unresolved
  <2> QED
    BY <1>3, <2>1, ClosingWrites DEF Blocked
<1> QED
  BY <1>1, <1>2, <1>3, StepCases
  DEF rows, ProviderAnswers, CrashCaller, ProviderDecides, CoverageConfirmed, FinalizeCoverage,
      PostReplenishment

-----------------------------------------------------------------------------
(* Each part survives a step that sets no month back. *)

\* No month is set back: what is left of MonthStep.
LEMMA ForwardStep ==
  ASSUME TypeOK, Sound, [Next]_vars, ~setBack'
  PROVE  \/ month' = month
         \/ \E m \in Month :
              /\ month[m] = "Open"
              /\ CanCloseChronologically(m)
              /\ month' \in {[month EXCEPT ![m] = "Paid"], [month EXCEPT ![m] = "Missed"]}
         \/ \E m \in Month :
              /\ month[m] = "Missed"
              /\ month' = [month EXCEPT ![m] = "Covered"]
BY MonthStep

\* Each transaction writes both rows of a payment; what is blocked has one only.
LEMMA RowsStep ==
  ASSUME TypeOK, Sound, [Next]_vars
  PROVE  RowsAgree'
<1>0. RowsAgree /\ ~setBack
  BY DEF Sound
<1>1. ASSUME NEW c \in Callers, NEW i \in Instruction, StartReconcile(c, i)
      PROVE  RowsAgree'
  <2>1. Sent(payment[i]) \in {"Pending", "ReconciliationRequired"}
    BY <1>1, SentType DEF StartReconcile
  <2> QED
    BY <1>0, <1>1, <2>1 DEF TypeOK, RowsAgree, StartReconcile
<1>2. ASSUME NEW c \in Callers, RecordAnswer(c)
      PROVE  RowsAgree'
  <2>1. call[c].instruction \in Instruction
    BY <1>2, CallType DEF RecordAnswer
  <2>2. OutcomeOf(call[c].response) \in {"Succeeded", "Failed", "Unknown"}
    BY OutcomeType
  <2> QED
    BY <1>0, <1>2, <2>1, <2>2 DEF TypeOK, RowsAgree, RecordAnswer
<1>3. ASSUME NEW t \in Taken, NEW latchSeen \in BOOLEAN, ClosingStep(t, latchSeen), ClosesOn(t)
      PROVE  RowsAgree'
  <2>1. external' = external /\ (payment' = payment \/ payment' = Blocked(t))
    BY <1>3, ClosingWrites
  <2>2. \A i \in BlockedBy(t) : payment[i] \in {"Created", "ArrearsBlocked"}
    BY <1>3, BlockedWasUnsent
  <2> QED
    BY <1>0, <2>1, <2>2 DEF RowsAgree, Blocked
<1>4. ASSUME UNCHANGED <<payment, external>>
      PROVE  RowsAgree'
  BY <1>0, <1>4 DEF RowsAgree
<1> QED
  BY <1>1, <1>2, <1>3, <1>4, StepCases
  DEF rows, ProviderAnswers, CrashCaller, ProviderDecides, CoverageConfirmed, FinalizeCoverage,
      PostReplenishment

\* When a month closes, each of its instructions has ended, and it is Paid
\* exactly when all of them succeeded.
LEMMA ClosingSettles ==
  ASSUME TypeOK, Sound, [Next]_vars, NEW m \in Month, month[m] = "Open", month'[m] # "Open"
  PROVE  /\ \A i \in InstructionsOf(m) : payment'[i] \notin Unresolved
         /\ month'[m] = "Paid" <=> \A i \in InstructionsOf(m) : payment'[i] = "Succeeded"
<1>1. ASSUME NEW c \in Callers, RecordAnswer(c)
      PROVE  /\ month'[m] = "Paid"
             /\ \A i \in InstructionsOf(m) : payment'[i] = "Succeeded"
  <2>1. call[c].instruction[1] \in Month
    BY <1>1, CallType, InstructionMonth DEF RecordAnswer
  <2> QED
    BY <1>1, <2>1 DEF TypeOK, RecordAnswer
<1>2. ASSUME NEW t \in Taken, ClosesOn(t), ClosesAsPaid(t)
      PROVE  /\ month'[m] = "Paid"
             /\ \A i \in InstructionsOf(m) : payment'[i] = "Succeeded"
  <2>1. m = t.month /\ month'[m] = "Paid"
    BY <1>2 DEF TypeOK, ClosesAsPaid
  <2> QED
    BY <1>2, <2>1 DEF ClosesAsPaid, SeesAllPaid
<1>3. ASSUME NEW t \in Taken, NEW latchSeen, ClosesOn(t), ClosesAsMissed(t, latchSeen)
      PROVE  /\ month'[m] = "Missed"
             /\ \A i \in InstructionsOf(m) : payment'[i] \notin Unresolved
             /\ \E i \in InstructionsOf(m) : payment'[i] # "Succeeded"
  <2>1. m = t.month /\ month'[m] = "Missed"
    BY <1>3 DEF TypeOK, ClosesAsMissed
  <2> QED
    BY <1>3, <2>1, MissLeavesNothingOpen DEF ClosesAsMissed
<1>4. CASE month' = month
  BY <1>4
<1>5. ASSUME NEW n \in Month, FinalizeCoverage(n)
      PROVE  FALSE
  BY <1>5 DEF TypeOK, FinalizeCoverage
<1>6. ASSUME NEW t \in Taken, NEW latchSeen \in BOOLEAN, ClosingStep(t, latchSeen)
      PROVE  ClosesAsPaid(t) \/ ClosesAsMissed(t, latchSeen)
  BY <1>4, <1>6, ClosingWrites
<1> QED
  BY <1>1, <1>2, <1>3, <1>4, <1>5, <1>6, StepCases
  DEF rows, StartReconcile, ProviderAnswers, CrashCaller, ProviderDecides, CoverageConfirmed,
      PostReplenishment, Unresolved

\* An answer that comes after a month closed finds nothing left to decide.
LEMMA SettledStep ==
  ASSUME TypeOK, Sound, [Next]_vars
  PROVE  ClosedMonthsAreSettled'
<1> SUFFICES ASSUME NEW m \in Month, month'[m] # "Open"
             PROVE  /\ \A i \in InstructionsOf(m) : payment'[i] \notin Unresolved
                    /\ month'[m] = "Paid" <=>
                         \A i \in InstructionsOf(m) : payment'[i] = "Succeeded"
  BY DEF ClosedMonthsAreSettled, Closed, InstructionsOf
<1>1. CASE month[m] = "Open"
  BY <1>1, ClosingSettles
<1>2. CASE month[m] # "Open"
  <2>1. \A i \in InstructionsOf(m) : payment'[i] = payment[i] /\ payment[i] \notin Unresolved
    BY <1>2, PaymentStep DEF Sound, ClosedMonthsAreSettled, Closed, InstructionsOf
  <2>2. month'[m] = "Paid" <=> month[m] = "Paid"
    BY <1>2, UnpaidStep
  <2> QED
    BY <1>2, <2>1, <2>2 DEF Sound, ClosedMonthsAreSettled, Closed
<1> QED
  BY <1>1, <1>2

\* What a step does to coverage: a missed month gains some, or all is replaced.
LEMMA CoverageStep ==
  ASSUME TypeOK, [Next]_vars
  PROVE  \/ coverage' = coverage
         \/ \E i \in Instruction : CoverageConfirmed(i)
         \/ PostReplenishment
BY StepCases, ClosingWrites
DEF rows, StartReconcile, ProviderAnswers, RecordAnswer, CrashCaller, ProviderDecides,
    FinalizeCoverage

\* A month that owes nothing never owes again: only missed months are covered.
LEMMA DebtStep ==
  ASSUME TypeOK, Sound, [Next]_vars, ~setBack', NEW e \in Month, ~OwesDebt(e)
  PROVE  ~OwesDebt(e)'
<1>1. month[e] \in {"Paid", "Covered"} /\ month'[e] = month[e]
  BY ForwardStep DEF TypeOK, OwesDebt, MonthStatus
<1>2. ASSUME NEW i \in InstructionsOf(e), coverage'[i] = "Succeeded"
      PROVE  coverage[i] = "Succeeded"
  <2>1. ASSUME NEW j \in Instruction, CoverageConfirmed(j)
        PROVE  coverage[i] = "Succeeded"
    BY <1>1, <1>2, <2>1 DEF TypeOK, CoverageConfirmed, InstructionsOf
  <2>2. CASE PostReplenishment
    BY <1>2, <2>2 DEF PostReplenishment, InstructionsOf
  <2> QED
    BY <1>2, <2>1, <2>2, CoverageStep
<1> QED
  BY <1>1, <1>2 DEF OwesDebt, InstructionsOf

\* A payment is first asked about, and a month paid, only past the query.
LEMMA AskingStep ==
  ASSUME TypeOK, Sound, [Next]_vars, NEW m \in Month
  PROVE  /\ \A i \in InstructionsOf(m) :
              payment'[i] \in InFlight =>
                payment[i] \in InFlight \/ ~HasEarlierOutstandingTenantDebt(m)
         /\ month'[m] = "Paid" =>
              month[m] = "Paid" \/ ~HasEarlierOutstandingTenantDebt(m)
<1>1. ASSUME NEW i \in InstructionsOf(m), payment'[i] \in InFlight
      PROVE  payment[i] \in InFlight \/ ~HasEarlierOutstandingTenantDebt(m)
  <2> i \in Instruction /\ i[1] = m
    BY DEF InstructionsOf
  <2>1. ASSUME NEW c \in Callers, NEW j \in Instruction, StartReconcile(c, j)
        PROVE  payment[i] \in InFlight \/ ~HasEarlierOutstandingTenantDebt(m)
    BY <1>1, <2>1 DEF TypeOK, StartReconcile, InFlight, Unresolved
  <2>2. ASSUME NEW c \in Callers, RecordAnswer(c)
        PROVE  payment[i] \in InFlight
    BY <1>1, <2>2, CallType DEF TypeOK, RecordAnswer, AcceptsOutcome, InFlight
  <2>3. ASSUME NEW t \in Taken, NEW latchSeen \in BOOLEAN, ClosingStep(t, latchSeen)
        PROVE  payment[i] \in InFlight
    BY <1>1, <2>3, ClosingWrites DEF Blocked, InFlight
  <2> QED
    BY <1>1, <2>1, <2>2, <2>3, StepCases
    DEF rows, ProviderAnswers, CrashCaller, ProviderDecides, CoverageConfirmed,
        FinalizeCoverage, PostReplenishment
<1>2. ASSUME month'[m] = "Paid"
      PROVE  month[m] = "Paid" \/ ~HasEarlierOutstandingTenantDebt(m)
  <2>1. ASSUME NEW c \in Callers, RecordAnswer(c)
        PROVE  month[m] = "Paid" \/ ~HasEarlierOutstandingTenantDebt(m)
    <3>1. call[c].instruction[1] \in Month
      BY <2>1, CallType, InstructionMonth DEF RecordAnswer
    <3> QED
      BY <1>2, <2>1, <3>1 DEF TypeOK, RecordAnswer
  <2>2. ASSUME NEW t \in Taken, NEW latchSeen \in BOOLEAN, ClosingStep(t, latchSeen)
        PROVE  month[m] = "Paid" \/ ~HasEarlierOutstandingTenantDebt(m)
    BY <1>2, <2>2, ClosingWrites DEF TypeOK, ClosesAsPaid, Taken
  <2>3. ASSUME NEW n \in Month, FinalizeCoverage(n)
        PROVE  month[m] = "Paid"
    BY <1>2, <2>3 DEF TypeOK, FinalizeCoverage
  <2> QED
    BY <1>2, <2>1, <2>2, <2>3, StepCases
    DEF rows, StartReconcile, ProviderAnswers, CrashCaller, ProviderDecides,
        CoverageConfirmed, PostReplenishment
<1> QED
  BY <1>1, <1>2

\* Behind a paid month, or a payment under way, nothing older comes to be owed.
LEMMA OldestDebtStep ==
  ASSUME TypeOK, Sound, [Next]_vars, ~setBack'
  PROVE  OldestDebtFirst'
<1> SUFFICES ASSUME NEW m \in Month,
                    \/ month'[m] = "Paid"
                    \/ \E i \in InstructionsOf(m) : payment'[i] \in InFlight
             PROVE  \A e \in Month : e < m => ~OwesDebt(e)'
  BY DEF OldestDebtFirst, InstructionsOf
<1>1. Behind(m)
  BY AskingStep, QueryFindsDebt DEF Sound, OldestDebtFirst, Behind
<1> QED
  BY <1>1, DebtStep DEF Behind

-----------------------------------------------------------------------------
(* Cancellation. *)

\* Only a month that is closed as missed latches the cancellation.
LEMMA LatchStep ==
  ASSUME TypeOK, [Next]_vars
  PROVE  \/ cancelRequired' = cancelRequired /\ contract' = contract
         \/ \E t \in Taken, latchSeen \in BOOLEAN :
              ClosesAsMissed(t, latchSeen) /\ ClosesOn(t)
BY StepCases, ClosingWrites
DEF rows, StartReconcile, ProviderAnswers, RecordAnswer, CrashCaller, ProviderDecides,
    CoverageConfirmed, FinalizeCoverage, PostReplenishment

\* A payment can be under way only in a month all whose elders are closed, and
\* a closing month has none; so the month that latches the cancellation leaves
\* none behind, and no new one is started.
LEMMA NothingInFlightStep ==
  ASSUME TypeOK, TypeOK', Sound, [Next]_vars, ~setBack'
  PROVE  NothingInFlightOnceCancelled'
<1> SUFFICES ASSUME cancelRequired', NEW i \in Instruction, payment'[i] \in InFlight
             PROVE  FALSE
  BY DEF NothingInFlightOnceCancelled
<1>1. ClosedMonthsAreSettled' /\ OldestDebtFirst'
  BY SettledStep, OldestDebtStep
<1>2. CASE cancelRequired
  <2>1. \A j \in Instruction : payment[j] \notin InFlight
    BY <1>2 DEF Sound, NothingInFlightOnceCancelled
  <2>2. PICK c \in Callers, j \in Instruction : StartReconcile(c, j)
    <3>1. ASSUME NEW c \in Callers, RecordAnswer(c)
          PROVE  FALSE
      BY <2>1, <3>1, CallType DEF TypeOK, RecordAnswer, AcceptsOutcome, InFlight
    <3>2. ASSUME NEW t \in Taken, NEW latchSeen \in BOOLEAN, ClosingStep(t, latchSeen)
          PROVE  FALSE
      BY <2>1, <3>2, ClosingWrites DEF Blocked, InFlight
    <3> QED
      BY <2>1, <3>1, <3>2, StepCases
      DEF rows, ProviderAnswers, CrashCaller, ProviderDecides, CoverageConfirmed,
          FinalizeCoverage, PostReplenishment
  <2>3. payment[j] # "Created" /\ payment[j] \in Unresolved
    BY <1>2, <2>2 DEF StartReconcile
  <2> QED
    BY <2>1, <2>3 DEF Unresolved, InFlight
<1>3. CASE ~cancelRequired
  <2>1. PICK t \in Taken : \E latchSeen \in BOOLEAN : ClosesAsMissed(t, latchSeen) /\ ClosesOn(t)
    BY <1>3, LatchStep
  <2> DEFINE m == t.month
  <2>2. /\ m \in Month /\ month'[m] = "Missed"
        /\ \A e \in Month : e < m => month'[e] # "Open"
    BY <2>1 DEF ClosesAsMissed, SeesMiss, CanCloseChronologically, TypeOK, Taken
  <2>3. i[1] \in Month /\ i \in InstructionsOf(i[1])
    BY InstructionMonth DEF InstructionsOf
  <2>4. CASE i[1] > m
    <3>1. OwesDebt(m)' /\ m < i[1]
      BY <2>2, <2>3, <2>4 DEF OwesDebt, Month
    <3> QED
      BY <1>1, <2>2, <2>3, <3>1 DEF OldestDebtFirst, InstructionsOf
  <2>5. CASE ~(i[1] > m)
    <3>1. i[1] < m \/ i[1] = m
      BY <2>2, <2>3, <2>5 DEF Month
    <3>2. month'[i[1]] # "Open"
      BY <2>2, <2>3, <3>1
    <3>3. payment'[i] \notin Unresolved
      BY <1>1, <2>3, <3>2 DEF ClosedMonthsAreSettled, Closed, InstructionsOf
    <3> QED
      BY <3>3 DEF InFlight, Unresolved
  <2> QED
    BY <2>4, <2>5
<1> QED
  BY <1>2, <1>3

\* Only a Created payment is first asked about, and the query then finds no debt.
LEMMA AskedStep ==
  ASSUME TypeOK, Sound, [Next]_vars, ~setBack'
  PROVE  AskedPastDebt'
<1> SUFFICES ASSUME NEW i \in Instruction, payment'[i] \notin {"Created", "ArrearsBlocked"}
             PROVE  \A e \in Month : e < i[1] => ~OwesDebt(e)'
  BY DEF AskedPastDebt
<1>1. Behind(i[1])
  <2>1. CASE payment[i] \notin {"Created", "ArrearsBlocked"}
    BY <2>1 DEF Sound, AskedPastDebt, Behind
  <2>2. CASE payment[i] \in {"Created", "ArrearsBlocked"}
    <3>1. ASSUME NEW c \in Callers, NEW j \in Instruction, StartReconcile(c, j)
          PROVE  Behind(i[1])
      <4>1. i = j /\ payment[i] = "Created"
        BY <2>2, <3>1 DEF TypeOK, StartReconcile, Unresolved
      <4> QED
        BY <3>1, <4>1, InstructionMonth, QueryFindsDebt DEF StartReconcile
    <3>2. ASSUME NEW c \in Callers, RecordAnswer(c)
          PROVE  FALSE
      BY <2>2, <3>2, CallType DEF TypeOK, RecordAnswer, AcceptsOutcome
    <3>3. ASSUME NEW t \in Taken, NEW latchSeen \in BOOLEAN, ClosingStep(t, latchSeen)
          PROVE  FALSE
      BY <2>2, <3>3, ClosingWrites DEF Blocked
    <3> QED
      BY <2>2, <3>1, <3>2, <3>3, StepCases
      DEF rows, ProviderAnswers, CrashCaller, ProviderDecides, CoverageConfirmed,
          FinalizeCoverage, PostReplenishment
  <2> QED
    BY <2>1, <2>2
<1> QED
  BY <1>1, DebtStep DEF Behind

\* The month that latches the cancellation owes, so no younger one was asked
\* about; afterwards nothing is under way that could succeed.
LEMMA NoneWaitsStep ==
  ASSUME TypeOK, TypeOK', Sound, [Next]_vars, ~setBack'
  PROVE  NoneWaitsPaid'
<1> SUFFICES ASSUME cancelRequired', NEW i \in Instruction, month'[i[1]] = "Open",
                    payment'[i] = "Succeeded"
             PROVE  FALSE
  BY DEF NoneWaitsPaid
<1>0. i[1] \in Month /\ month[i[1]] = "Open"
  BY InstructionMonth, UnpaidStep
<1>1. CASE cancelRequired
  <2>1. payment[i] # "Succeeded" /\ \A j \in Instruction : payment[j] \notin InFlight
    BY <1>0, <1>1 DEF Sound, NoneWaitsPaid, NothingInFlightOnceCancelled
  <2>2. ASSUME NEW c \in Callers, NEW j \in Instruction, StartReconcile(c, j)
        PROVE  FALSE
    BY <2>1, <2>2, SentType DEF TypeOK, StartReconcile
  <2>3. ASSUME NEW c \in Callers, RecordAnswer(c)
        PROVE  FALSE
    BY <2>1, <2>3, CallType DEF TypeOK, RecordAnswer, AcceptsOutcome, InFlight
  <2>4. ASSUME NEW t \in Taken, NEW latchSeen \in BOOLEAN, ClosingStep(t, latchSeen)
        PROVE  FALSE
    BY <2>1, <2>4, ClosingWrites DEF Blocked
  <2> QED
    BY <2>1, <2>2, <2>3, <2>4, StepCases
    DEF rows, ProviderAnswers, CrashCaller, ProviderDecides, CoverageConfirmed,
        FinalizeCoverage, PostReplenishment
<1>2. CASE ~cancelRequired
  <2>1. PICK t \in Taken : \E latchSeen \in BOOLEAN : ClosesAsMissed(t, latchSeen) /\ ClosesOn(t)
    BY <1>2, LatchStep
  <2>2. /\ t.month \in Month /\ month'[t.month] = "Missed"
        /\ \A e \in Month : e < t.month => month'[e] # "Open"
    BY <2>1 DEF ClosesAsMissed, SeesMiss, CanCloseChronologically, TypeOK, Taken
  <2>3. t.month < i[1] /\ OwesDebt(t.month)'
    BY <1>0, <2>2 DEF OwesDebt, Month
  <2>4. ~OwesDebt(t.month)'
    BY <2>2, <2>3, AskedStep DEF AskedPastDebt
  <2> QED
    BY <2>3, <2>4
<1> QED
  BY <1>1, <1>2

\* The two newest closed months decide whether the next miss is the third.
LEMMA StreakCountsMisses ==
  ASSUME TypeOK, NEW m \in Month, CanCloseChronologically(m)
  PROVE  MissedStreakAfter(m) >= CancellationThreshold
           <=> m > 2 /\ Unpaid(m - 1) /\ Unpaid(m - 2)
<1> DEFINE S == {e \in Month : /\ e < m
                               /\ month[e] # "Open"
                               /\ \A j \in e..(m - 1) : month[j] # "Paid"}
<1>1. /\ \A e \in Month : e \in Int /\ e >= 1 /\ e <= MonthCount
      /\ MonthCount \in Int
      /\ \A e \in Int : e >= 1 /\ e <= MonthCount => e \in Month
  BY MonthCountAssumption DEF Month
<1>2. IsFiniteSet(S) /\ Cardinality(S) \in Nat
  <2>1. IsFiniteSet(Month)
    BY MonthCountAssumption, FS_Interval DEF Month
  <2>2. IsFiniteSet(S)
    BY <2>1, FS_Subset
  <2> QED
    BY <2>2, FS_CardinalityType
<1>3. ASSUME m > 2, Unpaid(m - 1), Unpaid(m - 2)
      PROVE  Cardinality(S) >= 2
  <2>1. m - 1 \in S
    BY <1>1, <1>3 DEF Unpaid
  <2>2. m - 2 \in S
    <3>1. \A j \in (m - 2)..(m - 1) : j = m - 2 \/ j = m - 1
      BY <1>1
    <3> QED
      BY <1>1, <1>3, <3>1 DEF Unpaid
  <2>3. IsFiniteSet({m - 2}) /\ Cardinality({m - 2}) = 1
    BY FS_Singleton
  <2>4. Cardinality({m - 2} \cup {m - 1}) = 2
    <3>1. m - 1 \notin {m - 2}
      BY <1>1
    <3> QED
      BY <2>3, <3>1, FS_AddElement
  <2>5. {m - 2} \cup {m - 1} \subseteq S
    BY <2>1, <2>2
  <2> QED
    BY <1>2, <2>4, <2>5, FS_Subset
<1>4. ASSUME ~(m > 2 /\ Unpaid(m - 1) /\ Unpaid(m - 2))
      PROVE  Cardinality(S) <= 1
  <2>1. ASSUME NEW e \in S
        PROVE  e = m - 1
    <3>1. e \in Int /\ m \in Int /\ e >= 1 /\ e < m /\ m - 1 \in Month
      BY <1>1
    <3>2. ASSUME e <= m - 2
          PROVE  FALSE
      <4>1. m > 2 /\ m - 2 \in Month /\ m - 2 \in e..(m - 1) /\ m - 1 \in e..(m - 1)
        BY <1>1, <3>1, <3>2
      <4>2. month[m - 1] # "Paid" /\ month[m - 2] # "Paid"
        BY <4>1
      <4>3. month[m - 1] # "Open" /\ month[m - 2] # "Open"
        BY <3>1, <4>1 DEF CanCloseChronologically
      <4>4. Unpaid(m - 1) /\ Unpaid(m - 2)
        BY <3>1, <4>1, <4>2, <4>3 DEF Unpaid, TypeOK, MonthStatus
      <4> QED
        BY <1>4, <4>1, <4>4
    <3> QED
      BY <3>1, <3>2
  <2>2. S \subseteq {m - 1}
    BY <2>1
  <2>3. IsFiniteSet({m - 1}) /\ Cardinality({m - 1}) = 1
    BY FS_Singleton
  <2> QED
    BY <2>2, <2>3, FS_Subset
<1>5. MissedStreakAfter(m) = 1 + Cardinality(S)
  BY DEF MissedStreakAfter
<1> QED
  BY <1>2, <1>3, <1>4, <1>5 DEF CancellationThreshold

Third(m) == m > 2 /\ Unpaid(m) /\ Unpaid(m - 1) /\ Unpaid(m - 2)

\* A month that newly turns unpaid is closed as missed, and is the newest.
LEMMA NewlyUnpaid ==
  ASSUME TypeOK, Sound, [Next]_vars, ~setBack', NEW m \in Month, Unpaid(m)', ~Unpaid(m)
  PROVE  \E t \in Taken, latchSeen \in BOOLEAN :
           ClosesAsMissed(t, latchSeen) /\ ClosesOn(t) /\ t.month = m
<1>1. month[m] = "Open" /\ month'[m] = "Missed"
  BY ForwardStep DEF TypeOK, Unpaid
<1>2. ASSUME NEW c \in Callers, RecordAnswer(c)
      PROVE  FALSE
  <2>1. call[c].instruction[1] \in Month
    BY <1>2, CallType, InstructionMonth DEF RecordAnswer
  <2> QED
    BY <1>1, <1>2, <2>1 DEF TypeOK, RecordAnswer
<1>3. ASSUME NEW t \in Taken, NEW latchSeen \in BOOLEAN, ClosingStep(t, latchSeen)
      PROVE  ClosesAsMissed(t, latchSeen) /\ t.month = m
  <2>1. t.month \in Month
    BY DEF Taken
  <2> QED
    BY <1>1, <1>3, <2>1, ClosingWrites DEF TypeOK
<1>4. ASSUME NEW n \in Month, FinalizeCoverage(n)
      PROVE  FALSE
  BY <1>1, <1>4 DEF TypeOK, FinalizeCoverage
<1> QED
  BY <1>1, <1>2, <1>3, <1>4, StepCases
  DEF rows, StartReconcile, ProviderAnswers, CrashCaller, ProviderDecides,
      CoverageConfirmed, PostReplenishment

\* The latch, the contract's status and three unpaid months in a row are one
\* and the same event, also for a pass that knows the row from before the latch.
LEMMA CancelledStep ==
  ASSUME TypeOK, TypeOK', Sound, [Next]_vars, ~setBack'
  PROVE  CancelledByThreeMisses'
<1>0. /\ \A n \in Month : n > 2 => n - 1 \in Month /\ n - 2 \in Month
      /\ \A n \in Month : n \in Int
  BY MonthCountAssumption DEF Month
<1>1. /\ cancelRequired <=> contract = "CancellationPending"
      /\ cancelRequired <=> \E n \in Month : Third(n)
  BY DEF Sound, CancelledByThreeMisses, Third
<1>2. \A n \in Month : Unpaid(n) => Unpaid(n)'
  BY UnpaidStep DEF Unpaid
<1>3. ASSUME NEW t \in Taken, NEW latchSeen \in BOOLEAN,
             ClosesAsMissed(t, latchSeen), ClosesOn(t)
      PROVE  CancelledByThreeMisses'
  <2> DEFINE m == t.month
  <2>1. /\ m \in Month /\ CanCloseChronologically(m)
        /\ month' = [month EXCEPT ![m] = "Missed"]
    BY <1>3 DEF ClosesAsMissed, SeesMiss, Taken
  <2>2. Unpaid(m)' /\ \A e \in Month : e # m => (Unpaid(e)' <=> Unpaid(e))
    BY <2>1 DEF TypeOK, Unpaid
  <2>3. MissedStreakAfter(m) >= CancellationThreshold <=> Third(m)'
    <3>1. MissedStreakAfter(m) >= CancellationThreshold <=> m > 2 /\ Unpaid(m - 1) /\ Unpaid(m - 2)
      BY <2>1, StreakCountsMisses
    <3>2. m - 1 # m /\ m - 2 # m
      BY <1>0, <2>1
    <3> QED
      BY <1>0, <2>1, <2>2, <3>1, <3>2 DEF Third
  <2>4. ASSUME NEW n \in Month, Third(n)', n # m
        PROVE  Third(n)
    <3>1. n > 2 /\ n - 1 \in Month /\ n - 2 \in Month /\ n \in Int /\ m \in Int
      BY <1>0, <2>1, <2>4 DEF Third
    <3>2. ~(n > m)
      <4>1. n > m => month[n] = "Open" /\ month'[n] = "Open"
        BY <2>1, <2>4 DEF CanCloseChronologically, TypeOK
      <4> QED
        BY <2>4, <4>1 DEF Third, Unpaid
    <3>3. n - 1 # m /\ n - 2 # m
      BY <2>4, <3>1, <3>2
    <3> QED
      BY <2>2, <2>4, <3>1, <3>3 DEF Third
  <2>5. \A n \in Month : Third(n) => Third(n)'
    BY <1>0, <1>2 DEF Third
  <2>6. cancelRequired' <=> cancelRequired \/ Third(m)'
    BY <1>3, <2>3 DEF ClosesAsMissed, TypeOK
  <2>7. cancelRequired' <=> contract' = "CancellationPending"
    BY <1>1, <1>3 DEF ClosesAsMissed
  <2> QED
    BY <1>1, <2>1, <2>4, <2>5, <2>6, <2>7 DEF CancelledByThreeMisses, Third
<1>4. CASE ~ \E t \in Taken, latchSeen \in BOOLEAN : ClosesAsMissed(t, latchSeen) /\ ClosesOn(t)
  <2>1. \A n \in Month : Unpaid(n)' <=> Unpaid(n)
    BY <1>2, <1>4, NewlyUnpaid
  <2>2. cancelRequired' = cancelRequired /\ contract' = contract
    BY <1>4, LatchStep
  <2> QED
    BY <1>0, <1>1, <2>1, <2>2 DEF CancelledByThreeMisses, Third
<1> QED
  BY <1>3, <1>4

-----------------------------------------------------------------------------
(* Coverage. *)

\* What coverage and answers claim about the provider and the month stays true.
LEMMA CoverageTruthStep ==
  ASSUME TypeOK, TypeOK', Sound, [Next]_vars, ~setBack'
  PROVE  CoverageTruth'
<1>0. CoverageTruth /\ ClosedMonthsAreSettled'
  BY SettledStep DEF Sound
<1>1. ASSUME NEW i \in Instruction, provider[i] = "rejected"
      PROVE  provider'[i] = "rejected"
  BY <1>1, StepCases, ClosingWrites
  DEF rows, TypeOK, StartReconcile, ProviderAnswers, RecordAnswer, CrashCaller, ProviderDecides,
      CoverageConfirmed, FinalizeCoverage, PostReplenishment
<1>2. ASSUME NEW c \in Callers, call'[c] # Idle, call'[c].response = "Failed"
      PROVE  provider'[call'[c].instruction] = "rejected"
  <2>1. CASE call'[c] = call[c]
    BY <1>0, <1>1, <1>2, <2>1, CallType DEF CoverageTruth
  <2>2. CASE call'[c] # call[c]
    <3>1. ASSUME NEW d \in Callers, ProviderAnswers(d)
          PROVE  provider'[call'[c].instruction] = "rejected"
      <4>1. PICK response \in Response :
              /\ response = "Failed" => provider[call[d].instruction] = "rejected"
              /\ call' = [call EXCEPT ![d].response = response]
        BY <3>1 DEF ProviderAnswers
      <4>2. d = c /\ call[d] \in Call
        BY <2>2, <3>1, <4>1, CallType DEF TypeOK, ProviderAnswers
      <4>3. call'[c] = [call[c] EXCEPT !.response = response]
        BY <4>1, <4>2 DEF TypeOK
      <4>4. call'[c].response = response /\ call'[c].instruction = call[c].instruction
        BY <4>2, <4>3 DEF Call
      <4> QED
        BY <1>2, <3>1, <4>1, <4>2, <4>4 DEF ProviderAnswers
    <3>2. ASSUME NEW d \in Callers, NEW i \in Instruction, StartReconcile(d, i)
          PROVE  FALSE
      BY <1>2, <2>2, <3>2 DEF TypeOK, StartReconcile
    <3>3. ASSUME NEW d \in Callers, RecordAnswer(d) \/ CrashCaller(d)
          PROVE  FALSE
      BY <1>2, <2>2, <3>3 DEF TypeOK, RecordAnswer, CrashCaller
    <3> QED
      BY <2>2, <3>1, <3>2, <3>3, StepCases, ClosingWrites
      DEF ProviderDecides, CoverageConfirmed, FinalizeCoverage, PostReplenishment
  <2> QED
    BY <2>1, <2>2
<1>3. ASSUME NEW i \in Instruction, payment'[i] = "Failed"
      PROVE  provider'[i] = "rejected"
  <2>1. CASE payment[i] = "Failed"
    BY <1>0, <1>1, <2>1 DEF CoverageTruth
  <2>2. CASE payment[i] # "Failed"
    <3>1. ASSUME NEW c \in Callers, RecordAnswer(c)
          PROVE  provider'[i] = "rejected"
      <4>1. i = call[c].instruction /\ OutcomeOf(call[c].response) = "Failed"
        BY <1>3, <2>2, <3>1, CallType DEF TypeOK, RecordAnswer
      <4>2. call[c].response = "Failed"
        BY <4>1 DEF OutcomeOf
      <4> QED
        BY <1>0, <1>1, <3>1, <4>1, <4>2 DEF CoverageTruth, RecordAnswer
    <3>2. ASSUME NEW c \in Callers, NEW j \in Instruction, StartReconcile(c, j)
          PROVE  FALSE
      BY <1>3, <2>2, <3>2, SentType DEF TypeOK, StartReconcile
    <3>3. ASSUME NEW t \in Taken, NEW latchSeen \in BOOLEAN, ClosingStep(t, latchSeen)
          PROVE  FALSE
      BY <1>3, <2>2, <3>3, ClosingWrites DEF Blocked
    <3> QED
      BY <1>3, <2>2, <3>1, <3>2, <3>3, StepCases
      DEF rows, ProviderAnswers, CrashCaller, ProviderDecides, CoverageConfirmed,
          FinalizeCoverage, PostReplenishment
  <2> QED
    BY <2>1, <2>2
<1>4. ASSUME NEW i \in Instruction, Unpaid(i[1]), Coverable(i)
      PROVE  Unpaid(i[1])' /\ Coverable(i)'
  BY <1>4, InstructionMonth, UnpaidStep, PaymentStep DEF Unpaid, Coverable, Unresolved
<1>5. ASSUME NEW i \in Instruction, coverage'[i] # "none", coverage[i] = "none"
      PROVE  Coverable(i) /\ Unpaid(i[1])
  BY <1>5, CoverageStep DEF TypeOK, CoverageConfirmed, PostReplenishment, Unpaid
<1>6. ASSUME NEW i \in Instruction, coverage'[i] = "none"
      PROVE  coverage[i] = "none"
  BY <1>6, CoverageStep DEF TypeOK, CoverageConfirmed, PostReplenishment
<1>7. ASSUME NEW i \in Instruction, month'[i[1]] = "Covered", Coverable(i)'
      PROVE  coverage'[i] # "none"
  <2>1. month[i[1]] \in {"Missed", "Covered"} /\ i[1] \in Month
    BY <1>7, ForwardStep, InstructionMonth DEF TypeOK
  <2>2. payment'[i] = payment[i]
    BY <2>1, PaymentStep DEF Sound, ClosedMonthsAreSettled, Closed, InstructionsOf
  <2>3. CASE month[i[1]] = "Covered"
    BY <1>0, <1>6, <1>7, <2>2, <2>3 DEF CoverageTruth, Coverable
  <2>4. CASE month[i[1]] = "Missed"
    <3>1. ASSUME NEW c \in Callers, RecordAnswer(c)
          PROVE  FALSE
      <4>1. call[c].instruction[1] \in Month
        BY <3>1, CallType, InstructionMonth DEF RecordAnswer
      <4> QED
        BY <1>7, <2>1, <2>4, <3>1, <4>1 DEF TypeOK, RecordAnswer
    <3>2. ASSUME NEW t \in Taken, NEW latchSeen \in BOOLEAN, ClosingStep(t, latchSeen)
          PROVE  FALSE
      BY <1>7, <2>1, <2>4, <3>2, ClosingWrites DEF TypeOK, Taken
    <3>3. ASSUME NEW n \in Month, FinalizeCoverage(n)
          PROVE  n = i[1]
      BY <1>7, <2>1, <2>4, <3>3 DEF TypeOK, FinalizeCoverage
    <3>4. FinalizeCoverage(i[1])
      BY <1>7, <2>4, <3>1, <3>2, <3>3, StepCases
      DEF rows, StartReconcile, ProviderAnswers, CrashCaller, ProviderDecides,
          CoverageConfirmed, PostReplenishment
    <3> QED
      BY <1>6, <1>7, <2>2, <3>4 DEF FinalizeCoverage, Coverable, InstructionsOf
  <2> QED
    BY <2>1, <2>3, <2>4
<1> QED
  BY <1>0, <1>2, <1>3, <1>4, <1>5, <1>6, <1>7 DEF CoverageTruth

-----------------------------------------------------------------------------
(* What a pass remembers. *)

\* The older debt of a month, once settled, does not come back.
LEMMA SettledDebtStays ==
  ASSUME TypeOK, TypeOK', Sound, [Next]_vars, ~setBack', NEW m \in Month,
         ~HasEarlierOutstandingTenantDebt(m)
  PROVE  ~HasEarlierOutstandingTenantDebt(m)'
<1>1. ASSUME NEW e \in Month, e < m
      PROVE  month[e] \in {"Paid", "Covered"} /\ month'[e] = month[e]
  <2>1. month[e] \in {"Paid", "Covered"}
    BY <1>1 DEF HasEarlierOutstandingTenantDebt, TypeOK, MonthStatus
  <2> QED
    BY <2>1, ForwardStep DEF TypeOK
<1>2. \A i \in CoveredBefore(m) : coverage[i] = "Replaced"
  <2>1. \A i \in CoveredBefore(m) : i[1] \in Month /\ i[1] < m /\ month[i[1]] = "Covered"
    BY InstructionMonth DEF CoveredBefore
  <2> QED
    BY <2>1 DEF HasEarlierOutstandingTenantDebt
<1>3. ASSUME NEW i \in Instruction, i[1] < m
      PROVE  /\ coverage[i] = "Replaced" => coverage'[i] = "Replaced"
             /\ coverage[i] = "none" => coverage'[i] = "none"
  <2>1. month[i[1]] # "Missed"
    BY <1>1, <1>3, InstructionMonth
  <2> QED
    BY <1>3, <2>1, CoverageStep DEF TypeOK, CoverageConfirmed, PostReplenishment
<1>4. CoveredBefore(m)' = CoveredBefore(m)
  <2>1. ASSUME NEW i \in Instruction, i[1] < m
        PROVE  i \in CoveredBefore(m)' <=> i \in CoveredBefore(m)
    BY <1>1, <1>2, <1>3, <2>1, InstructionMonth DEF CoveredBefore
  <2> QED
    BY <2>1 DEF CoveredBefore
<1>5. \A i \in CoveredBefore(m)' : coverage'[i] = "Replaced"
  BY <1>2, <1>3, <1>4 DEF CoveredBefore
<1>6. (\E e \in Month : e < m /\ month[e] = "Covered") => CoveredBefore(m) # {}
  BY DEF HasEarlierOutstandingTenantDebt
<1> QED
  BY <1>1, <1>4, <1>5, <1>6 DEF HasEarlierOutstandingTenantDebt

\* So a pass that remembers an instruction as Created remembers it rightly, or
\* it has been sent because nothing older is owed any more.
LEMMA MemoryTruthStep ==
  ASSUME TypeOK, TypeOK', Sound, [Next]_vars, ~setBack'
  PROVE  MemoryTruth'
<1> SUFFICES ASSUME NEW w \in Workers, taken'[w] # Idle, NEW i \in taken'[w].unsent,
                    NEW n \in Month, n = taken'[w].month
             PROVE  /\ i \in InstructionsOf(n)
                    /\ \/ payment'[i] \in {"Created", "ArrearsBlocked"}
                       \/ ~HasEarlierOutstandingTenantDebt(n)'
  BY DEF MemoryTruth, InstructionsOf, TypeOK, Taken
<1>1. CASE taken'[w] = taken[w]
  <2>1. /\ i \in InstructionsOf(n)
        /\ \/ payment[i] \in {"Created", "ArrearsBlocked"}
           \/ ~HasEarlierOutstandingTenantDebt(n)
    BY <1>1 DEF Sound, MemoryTruth
  <2>2. CASE ~HasEarlierOutstandingTenantDebt(n)
    BY <2>1, <2>2, SettledDebtStays
  <2>3. CASE payment[i] \in {"Created", "ArrearsBlocked"}
    <3>1. i \in Instruction /\ i[1] = n
      BY <2>1 DEF InstructionsOf
    <3>2. ASSUME NEW c \in Callers, NEW j \in Instruction, StartReconcile(c, j), i = j
          PROVE  ~HasEarlierOutstandingTenantDebt(n)
      BY <2>3, <3>1, <3>2 DEF StartReconcile, Unresolved
    <3>3. ASSUME NEW c \in Callers, NEW j \in Instruction, StartReconcile(c, j), i # j
          PROVE  payment'[i] = payment[i]
      BY <3>1, <3>3 DEF StartReconcile, TypeOK
    <3>4. ASSUME NEW c \in Callers, RecordAnswer(c)
          PROVE  payment'[i] = payment[i]
      BY <2>3, <3>1, <3>4, CallType DEF RecordAnswer, AcceptsOutcome, TypeOK
    <3>5. ASSUME NEW t \in Taken, NEW latchSeen \in BOOLEAN, ClosingStep(t, latchSeen)
          PROVE  payment'[i] \in {payment[i], "ArrearsBlocked"}
      BY <3>1, <3>5, ClosingWrites DEF Blocked
    <3>6. CASE \E c \in Callers : StartReconcile(c, i)
      BY <1>1, <2>1, <3>1, <3>2, <3>6, SettledDebtStays
    <3> QED
      BY <1>1, <2>1, <2>3, <3>1, <3>3, <3>4, <3>5, <3>6, StepCases
      DEF rows, ProviderAnswers, CrashCaller, ProviderDecides, CoverageConfirmed,
          FinalizeCoverage, PostReplenishment
  <2> QED
    BY <2>1, <2>2, <2>3
<1>2. CASE taken'[w] # taken[w]
  <2>1. PICK v \in Workers, m \in Month : TakeMonth(v, m)
    BY ZenonT(30), <1>2
    DEF Next, vars, memory, TypeOK, StartReconcile, ProviderAnswers, RecordAnswer, CrashCaller,
        ProviderDecides, CoverageConfirmed, CloseMonth, CloseAtOnce, LeaveMonth, PassForgets,
        FinalizeCoverage, BeginRepayment, PostReplenishment, DueDatePasses
  <2>2. PICK unsent \in SUBSET {j \in InstructionsOf(m) : payment[j] = "Created"} :
          taken' = [taken EXCEPT ![v] = [month |-> m, unsent |-> unsent]]
    BY <2>1 DEF TakeMonth
  <2>3. v = w /\ taken'[w].month = m /\ taken'[w].unsent = unsent
    BY <1>2, <2>2 DEF TypeOK
  <2>4. payment' = payment
    BY <2>1 DEF TakeMonth, rows
  <2> QED
    BY <2>2, <2>3, <2>4
<1> QED
  BY <1>1, <1>2

-----------------------------------------------------------------------------
(* The theorems. *)

\* Until a covered month is set back, every part of the invariant holds.
THEOREM SoundUntilSetBack == Spec => [](setBack \/ Sound)
<1>1. Init => Sound
  <2> SUFFICES ASSUME Init PROVE Sound
    OBVIOUS
  <2>1. RowsAgree /\ ClosedMonthsAreSettled /\ OldestDebtFirst /\ NothingInFlightOnceCancelled
    BY DEF Init, RowsAgree, ClosedMonthsAreSettled, Closed, OldestDebtFirst, InFlight,
       InstructionsOf, NothingInFlightOnceCancelled
  <2>2. CancelledByThreeMisses
    BY DEF Init, CancelledByThreeMisses, Unpaid
  <2>3. CoverageTruth
    BY InstructionMonth DEF Init, CoverageTruth
  <2>4. MemoryTruth /\ AskedPastDebt /\ NoneWaitsPaid
    BY DEF Init, MemoryTruth, AskedPastDebt, NoneWaitsPaid
  <2> QED
    BY <2>1, <2>2, <2>3, <2>4 DEF Init, Sound
<1>2. TypeOK /\ TypeOK' /\ (setBack \/ Sound) /\ [Next]_vars => (setBack \/ Sound)'
  <2> SUFFICES ASSUME TypeOK, TypeOK', setBack \/ Sound, [Next]_vars, ~setBack'
               PROVE  Sound'
    OBVIOUS
  <2>1. Sound
    BY SetBackStays
  <2> QED
    BY <2>1, RowsStep, SettledStep, OldestDebtStep, CancelledStep, NothingInFlightStep,
       CoverageTruthStep, MemoryTruthStep, AskedStep, NoneWaitsStep DEF Sound
<1> QED
  BY <1>1, <1>2, TypeCorrect, PTL DEF Spec

\* The payment and its external transaction tell one story.
THEOREM RowsAlwaysAgree == Spec => []RowsAgree
<1>1. setBack \/ Sound => RowsAgree
  BY DEF Sound, RowsAgree
<1> QED
  BY <1>1, SoundUntilSetBack, PTL

\* An answer that comes after a month closed finds nothing left to decide.
THEOREM ClosedMonthsStaySettled == Spec => []ClosedMonthsAreSettled
<1>1. setBack \/ Sound => ClosedMonthsAreSettled
  BY DEF Sound, ClosedMonthsAreSettled
<1> QED
  BY <1>1, SoundUntilSetBack, PTL

\* Behind a paid month, or a payment under way, nothing older is ever owed.
THEOREM OldestDebtStaysFirst == Spec => []OldestDebtFirst
<1>1. setBack \/ Sound => OldestDebtFirst
  BY DEF Sound, OldestDebtFirst
<1> QED
  BY <1>1, SoundUntilSetBack, PTL

\* The cancellation is latched by three unpaid months in a row.
THEOREM CancellationFollowsThreeMisses == Spec => []CancelledByThreeMisses
<1>1. setBack \/ Sound => CancelledByThreeMisses
  BY DEF Sound, CancelledByThreeMisses
<1> QED
  BY <1>1, SoundUntilSetBack, PTL

\* The month that latches the cancellation leaves no payment under way.
THEOREM CancellationFindsNothingInFlight == Spec => []NothingInFlightOnceCancelled
<1>1. setBack \/ Sound => NothingInFlightOnceCancelled
  BY DEF Sound, NothingInFlightOnceCancelled
<1> QED
  BY <1>1, SoundUntilSetBack, PTL

\* The platform never pays what the tenant has paid.
THEOREM CoverageNeverPaysTwice == Spec => []CoverageNeverDuplicatesAPayment
<1>1. TypeOK /\ (setBack \/ Sound) => CoverageNeverDuplicatesAPayment
  BY DEF Sound, RowsAgree, CoverageTruth, CoverageNeverDuplicatesAPayment, Coverable
<1> QED
  BY <1>1, TypeCorrect, SoundUntilSetBack, PTL

\* A late, stale or repeated answer is refused; a closed month changes only by
\* being covered, or by being set back on the memory of a slow replica.
THEOREM OutcomesStayFinal == Spec => OutcomesAreFinal
<1> DEFINE Kept ==
      ~setBack =>
       /\ \A i \in Instruction :
            payment[i] \in {"Succeeded", "Failed", "ArrearsBlocked"}
                => payment'[i] = payment[i] /\ external'[i] = external[i]
       /\ \A m \in Month :
            Closed(m) =>
                \/ month'[m] = month[m]
                \/ month[m] = "Missed" /\ month'[m] = "Covered"
                \/ /\ month[m] = "Covered" /\ month'[m] = "Missed" /\ setBack'
                   /\ \E w \in Workers : SetBackBy(w, m)
<1>1. TypeOK /\ (setBack \/ Sound) /\ [Next]_vars => Kept
  <2> SUFFICES ASSUME TypeOK, Sound, [Next]_vars PROVE Kept
    BY DEF Sound
  <2>1. ASSUME NEW i \in Instruction,
               payment[i] \in {"Succeeded", "Failed", "ArrearsBlocked"}
        PROVE  payment'[i] = payment[i] /\ external'[i] = external[i]
    BY <2>1, PaymentStep DEF Unresolved
  <2>2. ASSUME NEW m \in Month, Closed(m)
        PROVE  \/ month'[m] = month[m]
               \/ month[m] = "Missed" /\ month'[m] = "Covered"
               \/ /\ month[m] = "Covered" /\ month'[m] = "Missed" /\ setBack'
                  /\ \E w \in Workers : SetBackBy(w, m)
    BY <2>2, MonthStep DEF TypeOK, Closed, SetBackBy, CanCloseChronologically
  <2> QED
    BY <2>1, <2>2
<1>2. TypeOK /\ (setBack \/ Sound) /\ [Next]_vars => [Kept]_vars
  BY <1>1
<1> QED
  BY <1>2, TypeCorrect, SoundUntilSetBack, PTL DEF Spec, OutcomesAreFinal

-----------------------------------------------------------------------------
(* The rent cycle implements RentLadder. *)

standingBar == [m \in Month |-> CASE month[m] = "Open" -> "open"
                                  [] month[m] = "Paid" -> "paid"
                                  [] OTHER -> "unpaid"]

repaidBar == {m \in Month : /\ Unpaid(m)
                            /\ \A i \in InstructionsOf(m) :
                                 Coverable(i) => coverage[i] = "Replaced"}

\* Closing an open month as paid changes its standing and no other.
LEMMA StandingOfPaid ==
  ASSUME TypeOK, NEW m \in Month, month[m] = "Open", month' = [month EXCEPT ![m] = "Paid"]
  PROVE  /\ standingBar' = [standingBar EXCEPT ![m] = "paid"]
         /\ standingBar[m] = "open"
  BY DEF TypeOK, standingBar, MonthStatus

\* A month that closes as missed becomes the one newly unpaid month of the ladder.
LEMMA StandingOfMissed ==
  ASSUME TypeOK, NEW m \in Month, month[m] = "Open", month' = [month EXCEPT ![m] = "Missed"]
  PROVE  /\ standingBar' = [standingBar EXCEPT ![m] = "unpaid"]
         /\ standingBar[m] = "open"
  BY DEF TypeOK, standingBar, MonthStatus

\* The debt query of the service, seen from the ladder.
LEMMA NothingOwedIsRepaid ==
  ASSUME TypeOK, Sound, NEW m \in Month, Behind(m),
         NEW e \in Month, e < m, standingBar[e] = "unpaid"
  PROVE  e \in repaidBar
<1>1. month[e] \in {"Missed", "Covered"}
  BY DEF TypeOK, standingBar, MonthStatus
<1>2. month[e] = "Covered" /\ \A i \in InstructionsOf(e) : coverage[i] # "Succeeded"
  BY <1>1 DEF Behind, OwesDebt
<1>3. ASSUME NEW i \in InstructionsOf(e), Coverable(i)
      PROVE  coverage[i] = "Replaced"
  BY <1>2, <1>3 DEF Sound, CoverageTruth, InstructionsOf, TypeOK
<1> QED
  BY <1>2, <1>3 DEF repaidBar, Unpaid

\* Debt stays repaid, and a step that posts no replenishment repays nothing.
LEMMA RepaidStep ==
  ASSUME TypeOK, TypeOK', Sound, Sound', [Next]_vars
  PROVE  /\ repaidBar \subseteq repaidBar'
         /\ repaidBar' = repaidBar \/ PostReplenishment
<1>1. ASSUME NEW m \in Month, month[m] # "Open"
      PROVE  /\ Unpaid(m)' <=> Unpaid(m)
             /\ \A i \in InstructionsOf(m) : payment'[i] = payment[i]
  BY <1>1, UnpaidStep, PaymentStep DEF Sound, ClosedMonthsAreSettled, Closed, InstructionsOf
<1>2. ASSUME NEW i \in Instruction, coverage[i] = "Replaced"
      PROVE  coverage'[i] = "Replaced"
  BY <1>2, CoverageStep DEF TypeOK, CoverageConfirmed, PostReplenishment
<1>3. ASSUME NEW m \in Month, m \in repaidBar
      PROVE  m \in repaidBar'
  <2>1. month[m] # "Open" /\ Unpaid(m)
    BY <1>3 DEF repaidBar, Unpaid
  <2>2. ASSUME NEW i \in InstructionsOf(m), Coverable(i)'
        PROVE  coverage'[i] = "Replaced"
    <3>1. i \in Instruction /\ Coverable(i)
      BY <1>1, <2>1, <2>2 DEF Coverable, InstructionsOf
    <3> QED
      BY <1>2, <1>3, <3>1 DEF repaidBar
  <2> QED
    BY <1>1, <2>1, <2>2 DEF repaidBar, InstructionsOf
<1>4. ASSUME ~PostReplenishment, NEW m \in Month, m \in repaidBar'
      PROVE  m \in repaidBar
  <2>1. Unpaid(m)'
    BY <1>4 DEF repaidBar
  <2>2. ASSUME NEW i \in Instruction, coverage'[i] = "Replaced"
        PROVE  coverage[i] = "Replaced"
    BY <1>4, <2>2, CoverageStep DEF TypeOK, CoverageConfirmed
  <2>3. CASE month[m] # "Open"
    <3>1. ASSUME NEW i \in InstructionsOf(m), Coverable(i)
          PROVE  coverage[i] = "Replaced"
      <4>1. i \in Instruction /\ Coverable(i)'
        BY <1>1, <2>3, <3>1 DEF Coverable, InstructionsOf
      <4> QED
        BY <1>4, <2>2, <4>1 DEF repaidBar, InstructionsOf
    <3> QED
      BY <1>1, <2>1, <2>3, <3>1 DEF repaidBar
  <2>4. CASE month[m] = "Open"
    <3>1. month'[m] # "Open" /\ month'[m] # "Paid"
      BY <2>1 DEF Unpaid
    <3>2. \A i \in InstructionsOf(m) :
            /\ payment'[i] \in {"Succeeded", "Failed", "ArrearsBlocked"}
            /\ i \in Instruction
      BY <2>4, <3>1, ClosingSettles DEF InstructionsOf, TypeOK, PaymentStatus, Unresolved
    <3>3. PICK i \in InstructionsOf(m) : payment'[i] # "Succeeded"
      BY <2>4, <3>1, ClosingSettles
    <3>4. Coverable(i)' /\ i[1] = m
      BY <3>2, <3>3 DEF Coverable, InstructionsOf
    <3>5. coverage[i] = "Replaced"
      BY <1>4, <2>2, <3>2, <3>4 DEF repaidBar, InstructionsOf
    <3> QED
      BY <2>4, <3>2, <3>4, <3>5 DEF Sound, CoverageTruth, Unpaid
  <2> QED
    BY <2>3, <2>4
<1> QED
  BY <1>3, <1>4 DEF repaidBar

\* An open month found all paid has found no latch.
LEMMA PaidFindsNoLatch ==
  ASSUME TypeOK, Sound, NEW t \in Taken, month[t.month] = "Open", SeesAllPaid(t)
  PROVE  ~cancelRequired
<1>1. PICK i \in Instruction : i[1] = t.month
  <2>1. t.month \in Month
    BY DEF Taken
  <2>2. PICK k \in Kinds : <<t.month, k>> \notin ZeroAmount
    BY <2>1, ScheduleAssumption
  <2>3. <<t.month, k>> \in Instruction
    BY <2>1, <2>2 DEF Instruction
  <2> QED
    BY <2>3
<1> QED
  BY <1>1 DEF SeesAllPaid, InstructionsOf, Sound, NoneWaitsPaid

\* A miss written over a closed month that was not covered changes nothing.
LEMMA MissOnClosedIsIdle ==
  ASSUME TypeOK, Sound, [Next]_vars, ~setBack', NEW t \in Taken, NEW latchSeen, ClosesOn(t),
         ClosesAsMissed(t, latchSeen), month[t.month] # "Open"
  PROVE  month' = month
<1>1. t.month \in Month /\ month[t.month] \in MonthStatus
  BY DEF Taken, TypeOK
<1>2. month[t.month] # "Paid" /\ month[t.month] # "Covered"
  BY MissSparesPaid DEF ClosesAsMissed
<1> QED
  BY <1>1, <1>2 DEF ClosesAsMissed, TypeOK, MonthStatus

\* Nor does it latch a cancellation that three misses had not latched before.
LEMMA SameMonthsSameLatch ==
  ASSUME TypeOK, TypeOK', Sound, Sound', month' = month
  PROVE  cancelRequired' = cancelRequired
<1>1. \A m \in Month : Unpaid(m)' <=> Unpaid(m)
  BY DEF Unpaid
<1>2. \A m \in Month : m > 2 => m - 1 \in Month /\ m - 2 \in Month
  BY MonthCountAssumption DEF Month
<1>3. (\E m \in Month : Third(m))' <=> \E m \in Month : Third(m)
  BY <1>1, <1>2 DEF Third
<1> QED
  BY <1>3 DEF TypeOK, Sound, CancelledByThreeMisses, Third

\* Every step that sets no month back is a step of the ladder or leaves it alone.
LEMMA LadderStep ==
  ASSUME TypeOK, TypeOK', Sound, Sound', [Next]_vars
  PROVE  Ladder!LadderNext \/ UNCHANGED Ladder!ladderVars
<1> USE DEF Ladder!LadderMonth, Month
<1>1. ASSUME NEW m \in Month, month[m] = "Open", CanCloseChronologically(m)
      PROVE  \A e \in Month : e < m => standingBar[e] # "open"
  BY <1>1 DEF CanCloseChronologically, standingBar, TypeOK, MonthStatus
<1>2. ASSUME NEW m \in Month, month[m] = "Open", CanCloseChronologically(m), ~cancelRequired,
             month' = [month EXCEPT ![m] = "Paid"], ~HasEarlierOutstandingTenantDebt(m),
             cancelRequired' = cancelRequired, repaidBar' = repaidBar
      PROVE  Ladder!PayMonth(m)
  <2>1. \A e \in Month : e < m /\ standingBar[e] = "unpaid" => e \in repaidBar
    BY <1>2, QueryFindsDebt, NothingOwedIsRepaid
  <2> QED
    BY <1>1, <1>2, <2>1, StandingOfPaid
    DEF Ladder!PayMonth, Ladder!IsNext, standingBar, repaidBar
<1>3. ASSUME NEW t \in Taken, NEW latchSeen, ClosesAsMissed(t, latchSeen),
             month[t.month] = "Open", repaidBar' = repaidBar
      PROVE  Ladder!MissMonth(t.month)
  <2> DEFINE m == t.month
  <2>1. /\ CanCloseChronologically(m) /\ m \in Month /\ month[m] = "Open"
        /\ month' = [month EXCEPT ![m] = "Missed"]
    BY <1>3 DEF ClosesAsMissed, SeesMiss, Taken
  <2> DEFINE third == m > 2 /\ standingBar[m - 1] = "unpaid" /\ standingBar[m - 2] = "unpaid"
  <2>2. MissedStreakAfter(m) >= CancellationThreshold <=> third
    <3>1. \A e \in Month : standingBar[e] = "unpaid" <=> Unpaid(e)
      BY DEF standingBar, Unpaid, TypeOK, MonthStatus
    <3>2. m > 2 => m - 1 \in Month /\ m - 2 \in Month
      BY <2>1, MonthCountAssumption
    <3> QED
      BY <2>1, <3>1, <3>2, StreakCountsMisses
  <2>3. /\ third => cancelRequired' = TRUE
        /\ ~third => cancelRequired' = cancelRequired
    BY <1>3, <2>2 DEF ClosesAsMissed
  <2>4. cancelRequired' = (cancelRequired \/ third)
    <3> HIDE DEF third
    <3> QED
      BY <2>3 DEF TypeOK
  <2> QED
    BY <1>1, <1>3, <2>1, <2>4, StandingOfMissed
    DEF Ladder!MissMonth, Ladder!IsNext, standingBar, repaidBar
<1>4. ASSUME standingBar' = standingBar, cancelRequired' = cancelRequired, repaidBar' = repaidBar
      PROVE  UNCHANGED Ladder!ladderVars
  BY <1>4 DEF Ladder!ladderVars, standingBar, repaidBar
<1>5. CASE PostReplenishment
  <2>1. /\ repaidBar \subseteq repaidBar'
        /\ standingBar' = standingBar /\ cancelRequired' = cancelRequired
    BY <1>5, RepaidStep DEF PostReplenishment, standingBar
  <2>2. CASE repaidBar' # repaidBar
    <3> DEFINE cleared == repaidBar' \ repaidBar
    <3>1. cleared \in SUBSET {m \in Month : standingBar[m] = "unpaid"}
      BY <1>5 DEF repaidBar, standingBar, Unpaid, PostReplenishment
    <3>2. cleared # {} /\ repaidBar' = repaidBar \cup cleared
      BY <2>1, <2>2
    <3>3. Ladder!Repay
      BY <2>1, <3>1, <3>2 DEF Ladder!Repay, standingBar, repaidBar
    <3> QED
      BY <3>3 DEF Ladder!LadderNext
  <2> QED
    BY <1>4, <2>1, <2>2
<1>6. ASSUME ~PostReplenishment
      PROVE  Ladder!LadderNext \/ UNCHANGED Ladder!ladderVars
  <2>1. repaidBar' = repaidBar
    BY <1>6, RepaidStep
  <2>2. ASSUME NEW c \in Callers, RecordAnswer(c)
        PROVE  Ladder!LadderNext \/ UNCHANGED Ladder!ladderVars
    <3>1. CASE month' = month
      BY <1>4, <2>1, <2>2, <3>1 DEF RecordAnswer, standingBar
    <3>2. CASE month' # month
      <4>1. PICK i \in Instruction, m \in Month : i = call[c].instruction /\ m = i[1]
        BY <2>2, CallType, InstructionMonth DEF RecordAnswer
      <4>2. /\ month[m] = "Open" /\ CanCloseChronologically(m)
            /\ month' = [month EXCEPT ![m] = "Paid"]
            /\ ~HasEarlierOutstandingTenantDebt(m)
            /\ payment[i] \in InFlight /\ cancelRequired' = cancelRequired
        BY <2>2, <3>2, <4>1 DEF RecordAnswer, AcceptsOutcome, InFlight
      <4>3. ~cancelRequired
        BY <4>2 DEF Sound, NothingInFlightOnceCancelled
      <4>4. Ladder!PayMonth(m)
        BY <1>2, <2>1, <4>2, <4>3
      <4> QED
        BY <4>4 DEF Ladder!LadderNext
    <3> QED
      BY <3>1, <3>2
  <2>3. ASSUME NEW t \in Taken, NEW latchSeen \in BOOLEAN, ClosesOn(t), ClosesAsPaid(t),
               cancelRequired' = cancelRequired
        PROVE  Ladder!LadderNext \/ UNCHANGED Ladder!ladderVars
    <3>1. t.month \in Month /\ month[t.month] \in {"Open", "Paid"}
      BY <2>3, AllPaidIsPaid DEF Taken, ClosesAsPaid
    <3>2. CASE month[t.month] = "Paid"
      <4>1. month' = month
        BY <2>3, <3>1, <3>2 DEF ClosesAsPaid, TypeOK
      <4> QED
        BY <1>4, <2>1, <2>3, <4>1 DEF standingBar
    <3>3. CASE month[t.month] = "Open"
      <4>1. ~cancelRequired
        BY <2>3, <3>3, PaidFindsNoLatch DEF ClosesAsPaid
      <4>2. Ladder!PayMonth(t.month)
        BY <1>2, <2>1, <2>3, <3>1, <3>3, <4>1 DEF ClosesAsPaid
      <4> QED
        BY <3>1, <4>2 DEF Ladder!LadderNext
    <3> QED
      BY <3>1, <3>2, <3>3
  <2>4. ASSUME NEW t \in Taken, NEW latchSeen \in BOOLEAN, ClosesOn(t), ClosesAsMissed(t, latchSeen)
        PROVE  Ladder!LadderNext \/ UNCHANGED Ladder!ladderVars
    <3>1. CASE month[t.month] = "Open"
      <4>1. Ladder!MissMonth(t.month) /\ t.month \in Month
        BY <1>3, <2>1, <2>4, <3>1 DEF Taken
      <4> QED
        BY <4>1 DEF Ladder!LadderNext
    <3>2. CASE month[t.month] # "Open"
      <4>1. month' = month
        BY <2>4, <3>2, MissOnClosedIsIdle DEF Sound
      <4>2. cancelRequired' = cancelRequired
        BY <2>4, <3>2, <4>1, SameMonthsSameLatch
      <4> QED
        BY <1>4, <2>1, <4>1, <4>2 DEF standingBar
    <3> QED
      BY <3>1, <3>2
  <2>5. ASSUME NEW m \in Month, FinalizeCoverage(m)
        PROVE  UNCHANGED Ladder!ladderVars
    <3>1. standingBar' = standingBar /\ cancelRequired' = cancelRequired
      BY <2>5 DEF FinalizeCoverage, standingBar, TypeOK
    <3> QED
      BY <1>4, <2>1, <3>1
  <2>6. ASSUME UNCHANGED <<month, cancelRequired>>
        PROVE  UNCHANGED Ladder!ladderVars
    BY <1>4, <2>1, <2>6 DEF standingBar
  <2>7. ASSUME NEW t \in Taken, NEW latchSeen \in BOOLEAN, ClosingStep(t, latchSeen)
        PROVE  \/ UNCHANGED <<month, cancelRequired>>
               \/ ClosesAsPaid(t) /\ cancelRequired' = cancelRequired
               \/ ClosesAsMissed(t, latchSeen)
    BY <2>7 DEF ClosingStep, BlocksOnly, ClosesAsPaid, RefusesMiss
  <2> QED
    BY <1>6, <2>2, <2>3, <2>4, <2>5, <2>6, <2>7, StepCases
    DEF rows, StartReconcile, ProviderAnswers, CrashCaller, ProviderDecides, CoverageConfirmed
<1> QED
  BY <1>5, <1>6

\* Until a covered month is set back, the months, seen as paid, unpaid and
\* repaid, follow RentLadder: a month is paid only over repaid debt, and the
\* third miss in a row cancels.
THEOREM RentCycleImplementsLadder == Spec => ImplementsLadder
<1>1. Init => Ladder!LadderInit
  BY DEF Init, Ladder!LadderInit, Ladder!LadderMonth, Month, Unpaid
<1>2. /\ TypeOK /\ TypeOK' /\ (setBack \/ Sound) /\ (setBack \/ Sound)' /\ [Next]_vars
      => [~setBack' => [Ladder!LadderNext]_(Ladder!ladderVars)]_vars
  BY LadderStep, SetBackStays
<1> QED
  BY <1>1, <1>2, TypeCorrect, SoundUntilSetBack, PTL DEF Spec, ImplementsLadder

=============================================================================
