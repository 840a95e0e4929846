--------------------- MODULE CancellationSettlementProofs ---------------------
(***************************************************************************)
(* Proofs that a cancelled contract is settled completely, once and in the *)
(* documented order, for any number of months, components, amounts and     *)
(* workers.  The steps of coverage are those of TenantCoverageProofs.      *)
(***************************************************************************)
EXTENDS CancellationSettlement, TenantCoverageProofs

-----------------------------------------------------------------------------
(* Type correctness. *)

Types == RowTypes /\ SettlementTypeOK

\* A call under way is about one transfer.
LEMMA CallType ==
  ASSUME Types, NEW w \in Workers, call[w] # Idle
  PROVE  /\ call[w] \in Call
         /\ call[w].leg \in Leg
         /\ call[w].response \in Response \cup {"none"}
  BY DEF Types, SettlementTypeOK, Call

\* The statuses an answer can give.
LEMMA PayoutStatusType ==
  ASSUME NEW response
  PROVE  /\ OwnerStatusFor(response) \in {"Unknown", "Succeeded", "Failed"}
         /\ BankStatusFor(response) \in {"Unknown", "Succeeded", "Failed"}
  BY DEF OwnerStatusFor, BankStatusFor

\* A question about a transfer is a call.
LEMMA AskingType ==
  ASSUME NEW leg \in Leg
  PROVE  Asking(leg) \in Call /\ Asking(leg).leg = leg /\ Asking(leg).response = "none"
  BY DEF Asking, Call

\* Completion writes only states the columns may hold.
LEMMA CompletionType ==
  ASSUME Types, CompleteCancellation
  PROVE  /\ settlement' = "Completed"
         /\ contract' = "Cancelled"
         /\ exposure' \in [Instruction -> {"none", "open", "final"}]
  BY DEF Types, RowTypes, CompleteCancellation

\* One step keeps every row in the states its column may hold.
LEMMA SettlementTypeStep ==
  ASSUME Types, Next
  PROVE  Types'
<1>1. ASSUME CoverageNext, UNCHANGED settlementVars
      PROVE  Types'
  BY <1>1, CoverageTypeStep DEF Types, SettlementTypeOK, settlementVars
<1>2. ASSUME NEW w \in Workers, BeginSettlement(w)
      PROVE  Types'
  <2>1. CASE Residual = 0
    BY <1>2, <2>1, CompletionType DEF Types, RowTypes, SettlementTypeOK, BeginSettlement
  <2>2. CASE Residual # 0
    <3>1. "owner" \in Leg /\ Asking("owner") \in Call
      BY AskingType DEF Leg
    <3> QED
      BY <1>2, <2>2, <3>1 DEF Types, RowTypes, SettlementTypeOK, BeginSettlement
  <2> QED
    BY <2>1, <2>2
<1>3. ASSUME NEW w \in Workers, AskForPayout(w)
      PROVE  Types'
  <2>1. PICK outcome \in Outcomes(payout[call[w].leg]), response \in Response :
          /\ payout' = [payout EXCEPT ![call[w].leg] = outcome]
          /\ call' = [call EXCEPT ![w].response = response]
    BY <1>3 DEF AskForPayout
  <2>2. call[w] \in Call /\ call[w].leg \in Leg
    BY <1>3, CallType DEF AskForPayout
  <2>3. outcome \in {"none", "started", "moved", "rejected"}
    BY <2>1, <2>2 DEF Types, SettlementTypeOK, Outcomes
  <2>4. [call[w] EXCEPT !.response = response] \in Call
    BY <2>1, <2>2 DEF Call
  <2> QED
    BY <1>3, <2>1, <2>2, <2>3, <2>4
    DEF Types, RowTypes, SettlementTypeOK, AskForPayout, coverageVars
<1>4. ASSUME NEW w \in Workers, RecordSettlement(w)
      PROVE  Types'
  <2> DEFINE status == OwnerStatusFor(call[w].response)
  <2>0. status \in {"Unknown", "Succeeded", "Failed"}
    BY PayoutStatusType
  <2>1. /\ call' \in [Workers -> Call \cup {Idle}]
        /\ order' \in [Leg -> {"none", "Pending", "Unknown", "Succeeded", "Failed"}]
    BY <1>4, <2>0 DEF Types, SettlementTypeOK, RecordSettlement
  <2>2. CASE CompleteCancellation
    BY <1>4, <2>1, <2>2, CompletionType DEF Types, RowTypes, SettlementTypeOK, RecordSettlement
  <2>3. CASE UNCHANGED <<contract, exposure>>
    <3>1. \/ settlement' \in {settlement, "Completed"}
          \/ settlement' = status /\ status # "Succeeded"
      BY <1>4 DEF RecordSettlement, CompleteCancellation
    <3>2. settlement' \in {"none", "Pending", "Unknown", "Completed", "Failed"}
      BY <2>0, <3>1 DEF Types, SettlementTypeOK
    <3> QED
      BY <1>4, <2>1, <2>3, <3>2 DEF Types, RowTypes, SettlementTypeOK, RecordSettlement
  <2> QED
    BY <1>4, <2>2, <2>3 DEF RecordSettlement
<1>5. ASSUME NEW w \in Workers, BeginPrincipalReturn(w)
      PROVE  Types'
  <2>1. "bank" \in Leg /\ Asking("bank") \in Call
    BY AskingType DEF Leg
  <2> QED
    BY <1>5, <2>1 DEF Types, RowTypes, SettlementTypeOK, BeginPrincipalReturn, coverageVars
<1>6. ASSUME NEW w \in Workers, RecordPrincipalReturn(w)
      PROVE  Types'
  <2>1. BankStatusFor(call[w].response) \in {"Unknown", "Succeeded", "Failed"}
    BY PayoutStatusType
  <2>2. /\ order' \in [Leg -> {"none", "Pending", "Unknown", "Succeeded", "Failed"}]
        /\ call' \in [Workers -> Call \cup {Idle}]
        /\ journals' \subseteq {"recognition", "return"}
    BY <1>6, <2>1 DEF Types, SettlementTypeOK, RecordPrincipalReturn
  <2> QED
    BY <1>6, <2>2 DEF Types, RowTypes, SettlementTypeOK, RecordPrincipalReturn, coverageVars
<1>7. ASSUME NEW w \in Workers, CrashCall(w)
      PROVE  Types'
  BY <1>7 DEF Types, RowTypes, SettlementTypeOK, CrashCall, coverageVars
<1>8. CASE ConfirmRepayment
  <2>1. [items |-> OpenItems, at |-> now] \in Repayment
    BY DEF Types, RowTypes, OpenItems, Repayment
  <2> QED
    BY <1>8, <2>1 DEF Types, RowTypes, SettlementTypeOK, ConfirmRepayment, coverageVars
<1>9. CASE PostRepayment
  <2>1. exposure' \in [Instruction -> {"none", "open", "final"}]
    BY <1>9 DEF PostRepayment, Types, RowTypes
  <2> QED
    BY <1>9, <2>1 DEF Types, RowTypes, SettlementTypeOK, PostRepayment
<1> QED
  BY <1>1, <1>2, <1>3, <1>4, <1>5, <1>6, <1>7, <1>8, <1>9 DEF Next, CoverageNext

\* The books begin in the initial states of their columns.
LEMMA SettlementTypeInit == Init => Types
  BY CoverageTypeInit DEF Init, SettlementInit, Types, TypeOK, SettlementTypeOK, Leg

\* Every row keeps the states its column may hold.
THEOREM SettlementTypeCorrect == Spec => []SettlementTypeOK
<1>1. Types /\ UNCHANGED vars => Types'
  BY DEF Types, RowTypes, SettlementTypeOK, vars, coverageVars, settlementVars
<1>2. Types => SettlementTypeOK
  BY DEF Types
<1> QED
  BY <1>1, <1>2, SettlementTypeInit, SettlementTypeStep, PTL DEF Spec

-----------------------------------------------------------------------------
(* Coverage of an ended contract. *)

\* The months whose turn it is on a latched contract follow two that were not
\* paid; on an active contract no third one was missed.
LatchHistory ==
    /\ contract # "Active" => \A m \in Month : InTurn(m) => ThirdMiss(m)
    /\ contract = "Active" => \A m \in Month : month[m] \in {"Missed", "Covered"} => ~ThirdMiss(m)

\* A step that closes nothing and covers no month.
LEMMA HistoryKept ==
  ASSUME RowTypes, LatchHistory,
         month' \in [Month -> {"Open", "Paid", "Missed", "Covered"}],
         contract' = contract \/ (contract # "Active" /\ contract' # "Active"),
         \A m \in Month : \/ month'[m] = month[m]
                          \/ month[m] = "Missed" /\ month'[m] = "Covered"
  PROVE  LatchHistory'
<1>1. \A m \in Month : /\ month'[m] = "Open" <=> month[m] = "Open"
                       /\ month'[m] \in {"Missed", "Covered"} <=> month[m] \in {"Missed", "Covered"}
  OBVIOUS
<1>2. ASSUME NEW m \in Month
      PROVE  (InTurn(m))' <=> InTurn(m)
  BY <1>1 DEF InTurn
<1>3. ASSUME NEW m \in Month
      PROVE  (ThirdMiss(m))' <=> ThirdMiss(m)
  <2>1. CASE m > 2
    <3>1. m - 1 \in Month /\ m - 2 \in Month
      BY <2>1, ContributionAssumption DEF Month
    <3> QED
      BY <1>1, <2>1, <3>1 DEF ThirdMiss
  <2>2. CASE ~(m > 2)
    BY <2>2 DEF ThirdMiss
  <2> QED
    BY <2>1, <2>2
<1> QED
  BY <1>1, <1>2, <1>3 DEF LatchHistory

\* A closing as missed is the third, or leaves the contract as it was.
LEMMA MissKeepsHistory ==
  ASSUME RowTypes, LatchHistory, NEW w \in Workers, CloseAsMissed(w)
  PROVE  LatchHistory'
<1>1. PICK m \in Month : /\ m = due[w]
                         /\ InTurn(m)
                         /\ month' = [month EXCEPT ![m] = "Missed"]
  BY DEF CloseAsMissed, RowTypes
<1>2. \A n \in Month : month'[n] = IF n = m THEN "Missed" ELSE month[n]
  BY <1>1 DEF RowTypes
<1>3. \A n \in Month : n > m => month'[n] = "Open"
  BY <1>1, <1>2 DEF InTurn, Month
<1>4. CASE ThirdMiss(m)
  <2>1. contract' = "CancellationPending"
    BY <1>1, <1>4 DEF CloseAsMissed
  <2> SUFFICES ASSUME NEW n \in Month, InTurn(n)'
               PROVE  ThirdMiss(n)'
    BY <2>1 DEF LatchHistory
  <2>2. m \in Int /\ n \in Int /\ 1 <= m /\ 1 <= n /\ m > 2
    BY <1>4, ContributionAssumption DEF Month, ThirdMiss
  <2>3. ~(n < m)
    BY <1>2, <2>2 DEF InTurn
  <2>4. ~(n > m + 1)
    <3> SUFFICES ASSUME n > m + 1
                 PROVE  FALSE
      OBVIOUS
    <3>1. m + 1 \in Month /\ m + 1 < n
      BY <2>2, ContributionAssumption DEF Month
    <3> QED
      BY <1>3, <2>2, <3>1 DEF InTurn
  <2>5. m - 1 \in Month /\ m - 2 \in Month
    BY <2>2, ContributionAssumption DEF Month
  <2>6. {month'[m - 1], month'[m - 2]} \subseteq {"Missed", "Covered"}
    BY <1>2, <1>4, <2>2, <2>5 DEF ThirdMiss
  <2>7. CASE n = m
    BY <2>2, <2>6, <2>7 DEF ThirdMiss
  <2>8. CASE n = m + 1
    <3>1. n - 1 = m /\ n - 2 = m - 1
      BY <2>2, <2>8
    <3> QED
      BY <1>2, <2>2, <2>6, <2>8, <3>1 DEF ThirdMiss
  <2> QED
    BY <2>2, <2>3, <2>4, <2>7, <2>8
<1>5. CASE ~ThirdMiss(m)
  <2>1. contract = "Active" /\ contract' = "Active"
    BY <1>1, <1>5 DEF CloseAsMissed, LatchHistory
  <2> SUFFICES ASSUME NEW n \in Month, month'[n] \in {"Missed", "Covered"}, ThirdMiss(n)'
               PROVE  FALSE
    BY <2>1 DEF LatchHistory
  <2>2. m \in Int /\ n \in Int /\ n > 2 /\ n <= m
    BY <1>3, ContributionAssumption DEF Month, ThirdMiss
  <2>3. n - 1 \in Month /\ n - 2 \in Month /\ n - 1 # m /\ n - 2 # m
    BY <2>2, ContributionAssumption DEF Month
  <2>4. ThirdMiss(n)
    BY <1>2, <2>2, <2>3 DEF ThirdMiss
  <2> QED
    BY <1>2, <1>5, <2>1, <2>4 DEF LatchHistory
<1> QED
  BY <1>4, <1>5

\* Only a third miss latches the contract, and it stays the newest closing.
LEMMA HistoryStep ==
  ASSUME RowTypes, LatchHistory, CoverageNext
  PROVE  LatchHistory'
<1>1. RowTypes'
  BY CoverageTypeStep
<1>2. ASSUME NEW w \in Workers, CloseAsPaid(w)
      PROVE  LatchHistory'
  <2>1. PICK m \in Month : /\ month[m] \in {"Open", "Paid"}
                           /\ month' = [month EXCEPT ![m] = "Paid"]
    BY <1>2 DEF CloseAsPaid, RowTypes
  <2>2. contract = "Active" /\ contract' = "Active"
    BY <1>2 DEF CloseAsPaid
  <2> SUFFICES ASSUME NEW n \in Month, month'[n] \in {"Missed", "Covered"}, ThirdMiss(n)'
               PROVE  FALSE
    BY <2>2 DEF LatchHistory
  <2>3. n \in Int /\ n > 2 /\ n - 1 \in Month /\ n - 2 \in Month
    BY ContributionAssumption DEF Month, ThirdMiss
  <2>4. \A e \in Month : month'[e] \in {"Missed", "Covered"} => month[e] = month'[e]
    BY <2>1 DEF RowTypes
  <2>5. ThirdMiss(n)
    BY <2>3, <2>4 DEF ThirdMiss
  <2> QED
    BY <2>2, <2>4, <2>5 DEF LatchHistory
<1>3. ASSUME NEW w \in Workers, FinalizeCoverage(w)
      PROVE  LatchHistory'
  <2>1. contract' = contract
    BY <1>3 DEF FinalizeCoverage
  <2>2. \A m \in Month : month'[m] = month[m] \/ (month[m] = "Missed" /\ month'[m] = "Covered")
    BY <1>3 DEF FinalizeCoverage, RowTypes
  <2> QED
    BY <1>1, <2>1, <2>2, HistoryKept DEF RowTypes
<1>4. CASE UNCHANGED <<contract, month>>
  BY <1>1, <1>4, HistoryKept DEF RowTypes
<1> QED
  BY <1>2, <1>3, <1>4, MissKeepsHistory
  DEF CoverageNext, WorkerStep, StartPass, TakeMonth, LeaveMonth, Reserve, AskProvider,
      SkipSettled, RecordTransfer, CrashWorker, Tick

\* What a closing that comes after the end of the contract leaves alone.
LateClosing ==
    /\ ClosedByLatePass
    /\ unpaid \subseteq unpaid'
    /\ UNCHANGED <<coverage, coveredAt, exposure, replenished>>

\* A month is closed as missed on an ended contract only by a pass that
\* remembers it as Active, and the closing takes the cutoff away.
LEMMA LateClosingStep ==
  ASSUME RowTypes, LatchHistory, contract # "Active", NEW w \in Workers, CloseAsMissed(w)
  PROVE  LateClosing
<1>1. due[w] \in Month /\ w \in unlatched /\ ThirdMiss(due[w])
  BY DEF CloseAsMissed, LatchUnseen, LatchHistory, RowTypes
<1>2. contract' = "CancellationPending" /\ cutoff' = Never
  BY <1>1 DEF CloseAsMissed
<1>3. due[w] # Nothing /\ due'[w] = Nothing
  BY DEF CloseAsMissed, RowTypes
<1>4. unpaid \subseteq unpaid'
  BY DEF CloseAsMissed
<1> QED
  BY <1>1, <1>2, <1>3, <1>4 DEF CloseAsMissed, LateClosing, ClosedByLatePass

\* Nothing else closes a month of an ended contract.
LEMMA EndedContractStep ==
  ASSUME RowTypes, LatchHistory, CoverageNext, contract # "Active"
  PROVE  UNCHANGED <<contract, cutoff, unpaid>> \/ LateClosing
  BY ZenonT(30), LateClosingStep
  DEF CoverageNext, WorkerStep, StartPass, TakeMonth, CloseAsPaid, LeaveMonth, Reserve,
      AskProvider, SkipSettled, RecordTransfer, FinalizeCoverage, CrashWorker, Tick

\* Once everything is covered as well, the slowest worker changes nothing else.
LEMMA SettledCoverageStep ==
  ASSUME RowTypes, LatchHistory, CoverageNext, contract # "Active", ~CoverageUnsettled
  PROVE  \/ UNCHANGED <<contract, cutoff, unpaid, month, coverage, coveredAt, exposure, replenished>>
         \/ LateClosing
<1>1. ASSUME NEW w \in Workers, RecordTransfer(w)
      PROVE  UNCHANGED <<month, coverage, coveredAt, exposure, replenished>>
  <2>1. job[w].asked \in Instruction
    BY <1>1, JobType DEF RecordTransfer
  <2>2. ~AwaitsTransfer(job[w].asked)
    BY <2>1 DEF CoverageUnsettled, Reserved, AwaitsTransfer
  <2> QED
    BY <1>1, <2>2 DEF RecordTransfer
<1>2. ASSUME NEW w \in Workers, FinalizeCoverage(w)
      PROVE  UNCHANGED <<month, coverage, coveredAt, exposure, replenished>>
  <2>1. month[job[w].month] # "Missed"
    BY <1>2, JobType DEF FinalizeCoverage, CoverageUnsettled
  <2> QED
    BY <1>2, <2>1 DEF FinalizeCoverage
<1>3. ASSUME NEW w \in Workers, NEW m \in Month, Reserve(w, m)
      PROVE  FALSE
  BY <1>3 DEF Reserve, CoverageUnsettled
<1> QED
  BY <1>1, <1>2, <1>3, EndedContractStep, LateClosingStep
  DEF CoverageNext, WorkerStep, StartPass, TakeMonth, CloseAsPaid, LeaveMonth, AskProvider,
      SkipSettled, CrashWorker, Tick

\* What the amounts of the split are computed from determines them.
LEMMA SplitIsAFunction ==
  ASSUME UNCHANGED <<cutoff, coverage, coveredAt, exposure, replenished>>
  PROVE  /\ OpenItems' = OpenItems
         /\ PostedBalance' = PostedBalance
         /\ LostReturn' = LostReturn
         /\ Residual' = Residual
         /\ SplitIsDefined' = SplitIsDefined
<1>1. OpenItems' = OpenItems /\ Covered' = Covered
  BY DEF OpenItems, Covered
<1>2. PostedBalance' = PostedBalance /\ LostReturn' = LostReturn
  BY <1>1 DEF PostedBalance, LostReturn
<1>3. ReturnIsDefined' = ReturnIsDefined
  BY <1>1 DEF ReturnIsDefined
<1> QED
  BY <1>1, <1>2, <1>3 DEF Residual, SplitIsDefined

-----------------------------------------------------------------------------
(* The debt a late repayment does not know of. *)

\* Coverage is only ever for an unpaid component of a closed month, and every
\* debit has its exposure.
CoveredRows ==
    \A i \in Instruction :
        /\ coverage[i] # "none" => i \in unpaid
        /\ i \in unpaid => month[i[1]] \in {"Missed", "Covered"}
        /\ coverage[i] = "Succeeded" <=> exposure[i] # "none"

\* Debt that arose after the repayment under way was confirmed; once covered it
\* stays open. After the completion nothing is open, and the components of the
\* repayment itself are final.
DebtSince ==
    {i \in unpaid : /\ i \notin repayment.items
                    /\ coverage[i] = "Succeeded" => exposure[i] = "open"}

RepaymentIsOld ==
    repayment # Nobody =>
        /\ repayment.items # {}
        /\ repayment.items \subseteq Covered
        /\ contract = "CancellationPending" =>
             DebtSince # {} \/ \E i \in repayment.items : exposure[i] = "final"

Debts == MonthsAreTrue /\ CoveredRows /\ LatchHistory /\ RepaymentIsOld

\* One step of coverage gives every new debit an open exposure.
LEMMA CoverageOpensExposures ==
  ASSUME RowTypes, CoverageNext, NEW i \in Instruction
  PROVE  \/ /\ coverage[i] # "Succeeded" /\ coverage'[i] # "Succeeded"
            /\ exposure'[i] = exposure[i]
         \/ coverage'[i] = coverage[i] /\ exposure'[i] = exposure[i]
         \/ /\ coverage[i] # "Succeeded"
            /\ coverage'[i] = "Succeeded" /\ exposure'[i] = "open"
<1>1. CASE UNCHANGED <<coverage, exposure>>
  BY <1>1
<1>2. ASSUME NEW w \in Workers, NEW m \in Month, Reserve(w, m)
      PROVE  /\ exposure'[i] = exposure[i]
             /\ \/ coverage'[i] = coverage[i]
                \/ coverage[i] = "none" /\ coverage'[i] = "Pending"
  BY <1>2 DEF Reserve, RowTypes
<1>3. ASSUME NEW w \in Workers, RecordTransfer(w), job[w].asked = i, AwaitsTransfer(i)
      PROVE  /\ coverage[i] # "Succeeded"
             /\ \/ coverage'[i] # "Succeeded" /\ exposure'[i] = exposure[i]
                \/ coverage'[i] = "Succeeded" /\ exposure'[i] = "open"
  <2> DEFINE status == CoverageStatusFor(job[w].response, Amount[i] <= PostedBalance)
  <2>1. /\ coverage' = [coverage EXCEPT ![i] = status]
        /\ IF status = "Succeeded" THEN exposure' = [exposure EXCEPT ![i] = "open"]
                                   ELSE exposure' = exposure
    BY <1>3 DEF RecordTransfer
  <2> HIDE DEF status
  <2> QED
    BY <1>3, <2>1 DEF RowTypes, AwaitsTransfer
<1>4. ASSUME NEW w \in Workers, RecordTransfer(w), ~(job[w].asked = i /\ AwaitsTransfer(i))
      PROVE  coverage'[i] = coverage[i] /\ exposure'[i] = exposure[i]
  BY <1>4 DEF RecordTransfer, RowTypes
<1>5. \/ UNCHANGED <<coverage, exposure>>
      \/ \E w \in Workers : RecordTransfer(w) \/ \E m \in Month : Reserve(w, m)
  BY DEF CoverageNext, WorkerStep, StartPass, TakeMonth, CloseAsPaid, CloseAsMissed, LeaveMonth,
         AskProvider, SkipSettled, FinalizeCoverage, CrashWorker, Tick
<1> QED
  BY <1>1, <1>2, <1>3, <1>4, <1>5

\* One step of coverage covers only what a closed month has left unpaid.
LEMMA CoveredRowsStep ==
  ASSUME RowTypes, CoveredRows, CoverageNext
  PROVE  CoveredRows'
<1>1. ASSUME NEW i \in Instruction
      PROVE  (coverage[i] = "Succeeded" <=> exposure[i] # "none")'
  BY CoverageOpensExposures DEF CoveredRows
<1>2. ASSUME NEW i \in Instruction
      PROVE  (coverage[i] # "none" => i \in unpaid)'
  <2>1. ASSUME NEW w \in Workers, NEW m \in Month, Reserve(w, m)
        PROVE  coverage'[i] # "none" => i \in unpaid'
    BY <2>1 DEF Reserve, UnpaidOf, RowTypes, CoveredRows
  <2>2. ASSUME NEW w \in Workers, CloseAsMissed(w)
        PROVE  coverage'[i] # "none" => i \in unpaid'
    BY <2>2 DEF CloseAsMissed, CoveredRows
  <2>3. ASSUME NEW w \in Workers, RecordTransfer(w)
        PROVE  coverage'[i] # "none" => i \in unpaid'
    BY <2>3 DEF RecordTransfer, AwaitsTransfer, RowTypes, CoveredRows
  <2> QED
    BY <2>1, <2>2, <2>3
    DEF CoveredRows, CoverageNext, WorkerStep, StartPass, TakeMonth, CloseAsPaid, LeaveMonth,
        AskProvider, SkipSettled, FinalizeCoverage, CrashWorker, Tick
<1>3. ASSUME NEW i \in Instruction
      PROVE  (i \in unpaid => month[i[1]] \in {"Missed", "Covered"})'
  <2>0. i[1] \in Month
    BY DEF Instruction
  <2>1. ASSUME NEW w \in Workers, CloseAsMissed(w)
        PROVE  i \in unpaid' => month'[i[1]] \in {"Missed", "Covered"}
    <3>1. PICK m \in Month : m = due[w] /\ month' = [month EXCEPT ![m] = "Missed"]
      BY <2>1 DEF CloseAsMissed, RowTypes
    <3>2. i \in unpaid' => i \in unpaid \/ i[1] = m
      BY <2>1, <3>1 DEF CloseAsMissed
    <3> QED
      BY <2>0, <3>1, <3>2 DEF CoveredRows, RowTypes
  <2>2. ASSUME NEW w \in Workers, CloseAsPaid(w)
        PROVE  i \in unpaid' => month'[i[1]] \in {"Missed", "Covered"}
    BY <2>0, <2>2 DEF CloseAsPaid, CoveredRows, RowTypes
  <2>3. ASSUME NEW w \in Workers, FinalizeCoverage(w)
        PROVE  i \in unpaid' => month'[i[1]] \in {"Missed", "Covered"}
    BY <2>0, <2>3 DEF FinalizeCoverage, CoveredRows, RowTypes
  <2> QED
    BY <2>1, <2>2, <2>3
    DEF CoveredRows, CoverageNext, WorkerStep, StartPass, TakeMonth, LeaveMonth, Reserve,
        AskProvider, SkipSettled, RecordTransfer, CrashWorker, Tick
<1> QED
  BY <1>1, <1>2, <1>3 DEF CoveredRows

\* The closing that ends the contract, like every later debit, leaves debt that
\* a repayment confirmed before does not hold.
LEMMA RepaymentStaysOld ==
  ASSUME RowTypes, CoveredRows, LatchHistory, RepaymentIsOld,
         contract = "Cancelled" => OpenItems = {}, CoverageNext, UNCHANGED repayment
  PROVE  RepaymentIsOld'
<1> SUFFICES ASSUME repayment # Nobody
             PROVE  /\ repayment.items # {}
                    /\ repayment.items \subseteq Covered'
                    /\ contract' = "CancellationPending" =>
                         DebtSince' # {} \/ \E i \in repayment.items : exposure'[i] = "final"
  BY DEF RepaymentIsOld
<1>1. repayment.items # {} /\ repayment.items \subseteq Covered
  BY DEF RepaymentIsOld
<1>2. Covered \subseteq Covered'
  BY CoverageFinalStep DEF Covered
<1>3. \A i \in Covered : exposure'[i] = exposure[i]
  BY CoverageOpensExposures DEF Covered
<1>4. CASE contract # "Active" /\ \E i \in repayment.items : exposure[i] = "final"
  BY <1>1, <1>2, <1>3, <1>4
<1>5. CASE contract = "CancellationPending" /\ DebtSince # {}
  <2>1. PICK i \in DebtSince : TRUE
    BY <1>5
  <2>2. i \in Instruction /\ i \in unpaid' /\ i \notin repayment.items
    BY <1>5, <2>1, EndedContractStep DEF DebtSince, RowTypes, LateClosing
  <2>3. coverage'[i] = "Succeeded" => exposure'[i] = "open"
    BY <2>1, <2>2, CoverageOpensExposures DEF DebtSince
  <2>4. i \in DebtSince'
    BY <2>2, <2>3 DEF DebtSince
  <2> QED
    BY <1>1, <1>2, <2>4
<1>6. CASE contract = "Cancelled"
  <2>1. PICK i \in repayment.items : i \in Covered /\ i \in Instruction
    BY <1>1 DEF Covered
  <2>2. exposure[i] = "final"
    BY <1>6, <2>1 DEF Covered, CoveredRows, OpenItems, RowTypes
  <2> QED
    BY <1>4, <1>6, <2>2
<1>7. CASE contract = "Active" /\ contract' = "CancellationPending"
  <2>1. PICK w \in Workers : CloseAsMissed(w)
    BY <1>7
    DEF CoverageNext, WorkerStep, StartPass, TakeMonth, CloseAsPaid, LeaveMonth, Reserve,
        AskProvider, SkipSettled, RecordTransfer, FinalizeCoverage, CrashWorker, Tick
  <2>2. PICK m \in Month : m = due[w] /\ ThirdMiss(m)
    BY <1>7, <2>1 DEF CloseAsMissed, RowTypes
  <2>3. month[m] = "Open"
    BY <1>7, <2>1, <2>2 DEF CloseAsMissed, LatchHistory, RowTypes
  <2>4. PICK components \in (SUBSET Kinds) \ {{}} : unpaid' = unpaid \cup ({m} \X components)
    BY <2>1, <2>2, <2>3 DEF CloseAsMissed
  <2>5. PICK k \in components : TRUE
    BY <2>4
  <2>6. <<m, k>> \in Instruction /\ <<m, k>> \in unpaid' /\ <<m, k>>[1] = m
    BY <2>4, <2>5 DEF Instruction
  <2>7. coverage[<<m, k>>] = "none"
    BY <2>3, <2>6 DEF CoveredRows
  <2>8. <<m, k>> \notin repayment.items /\ coverage'[<<m, k>>] = "none"
    BY <1>1, <2>1, <2>7 DEF Covered, CloseAsMissed
  <2>9. <<m, k>> \in DebtSince'
    BY <2>6, <2>8 DEF DebtSince
  <2> QED
    BY <1>1, <1>2, <2>9
<1>8. CASE contract' # "CancellationPending"
  BY <1>1, <1>2, <1>8
<1> QED
  BY <1>4, <1>5, <1>6, <1>7, <1>8 DEF RowTypes, RepaymentIsOld

\* The other steps close no month and cover nothing.
LEMMA DebtsStep ==
  ASSUME Types, Debts, contract = "Cancelled" => OpenItems = {}, Next
  PROVE  Debts'
<1>1. ASSUME CoverageNext, UNCHANGED settlementVars
      PROVE  Debts'
  BY <1>1, MonthsStayTrue, CoveredRowsStep, HistoryStep, RepaymentStaysOld
  DEF Debts, Types, settlementVars
<1>2. ASSUME UNCHANGED <<month, unpaid, coverage>>,
             contract' = contract \/ (contract # "Active" /\ contract' # "Active")
      PROVE  MonthsAreTrue' /\ LatchHistory' /\ Covered' = Covered
  <2>1. LatchHistory'
    BY <1>2, HistoryKept DEF Debts, Types, RowTypes
  <2> QED
    BY <1>2, <2>1 DEF Debts, MonthsAreTrue, UnpaidOf, Covered
<1>3. ASSUME UNCHANGED <<contract, month, unpaid, coverage, exposure, repayment>>
      PROVE  Debts'
  BY <1>2, <1>3 DEF Debts, CoveredRows, RepaymentIsOld, DebtSince
<1>4. ASSUME contract = "CancellationPending", CompleteCancellation,
             UNCHANGED <<month, unpaid, coverage, repayment>>
      PROVE  Debts'
  <2>1. CoveredRows'
    BY <1>4 DEF Debts, CoveredRows, CompleteCancellation, OpenItems
  <2>2. contract' = "Cancelled"
    BY <1>4 DEF CompleteCancellation
  <2>3. RepaymentIsOld'
    BY <1>2, <1>4, <2>2 DEF Debts, RepaymentIsOld
  <2> QED
    BY <1>2, <1>4, <2>1, <2>2, <2>3 DEF Debts
<1>5. CASE ConfirmRepayment
  <2>1. OpenItems \subseteq Covered
    BY DEF OpenItems, Covered, Debts, CoveredRows
  <2>2. UNCHANGED <<contract, month, unpaid, coverage, exposure>>
    BY <1>5 DEF ConfirmRepayment, coverageVars
  <2>3. RepaymentIsOld'
    BY <1>2, <1>5, <2>1, <2>2 DEF RepaymentIsOld, ConfirmRepayment
  <2> QED
    BY <1>2, <2>2, <2>3 DEF Debts, CoveredRows
<1>6. CASE PostRepayment
  <2>1. UNCHANGED <<contract, month, unpaid, coverage>> /\ RepaymentIsOld'
    BY <1>6 DEF PostRepayment, RepaymentIsOld
  <2>2. CoveredRows'
    BY <1>6, <2>1 DEF PostRepayment, OpenItems, Debts, CoveredRows
  <2> QED
    BY <1>2, <2>1, <2>2 DEF Debts
<1>7. ASSUME NEW w \in Workers, BeginSettlement(w) \/ RecordSettlement(w)
      PROVE  Debts'
  BY <1>3, <1>4, <1>7 DEF BeginSettlement, RecordSettlement, Settleable
<1>8. ASSUME NEW w \in Workers,
             \/ AskForPayout(w) \/ BeginPrincipalReturn(w)
             \/ RecordPrincipalReturn(w) \/ CrashCall(w)
      PROVE  Debts'
  BY <1>3, <1>8
  DEF AskForPayout, BeginPrincipalReturn, RecordPrincipalReturn, CrashCall, coverageVars
<1> QED
  BY <1>1, <1>5, <1>6, <1>7, <1>8 DEF Next, CoverageNext

\* There is no debt at the beginning.
LEMMA DebtsInit == Init => Debts
  BY DEF Init, CoverageInit, SettlementInit, Debts, MonthsAreTrue, CoveredRows, LatchHistory,
         RepaymentIsOld

-----------------------------------------------------------------------------
(* The stages of the settlement. *)

\* A settlement begins when everything is covered, which only a late closing can
\* change, and a cancelled contract is a completed one.
Stages ==
    /\ contract = "Active" => settlement = "none"
    /\ settlement \in {"Pending", "Unknown"} /\ cutoff # Never => ~CoverageUnsettled
    /\ contract = "Cancelled" => settlement = "Completed" /\ ~CoverageUnsettled /\ OpenItems = {}

\* What the split of an ended contract is computed from.
bookVars == <<contract, cutoff, unpaid, month, coverage, coveredAt, exposure, replenished>>

\* A repayment that could still be posted no longer clears the debt.
LEMMA LateRepaymentFails ==
  ASSUME Types, Debts, Stages, repayment # Nobody, contract # "Active", ~CoverageUnsettled
  PROVE  ~RepaymentClears
<1>1. CASE contract = "CancellationPending" /\ DebtSince # {}
  <2>1. PICK i \in DebtSince : TRUE
    BY <1>1
  <2>2. i \in Instruction /\ i[1] \in Month /\ i \in UnpaidOf(i[1])
    BY <2>1 DEF DebtSince, UnpaidOf, Types, RowTypes, Instruction
  <2>3. month[i[1]] = "Covered"
    BY <2>1, <2>2 DEF DebtSince, Debts, CoveredRows, CoverageUnsettled
  <2>4. coverage[i] = "Succeeded"
    BY <2>2, <2>3 DEF Debts, MonthsAreTrue
  <2>5. i \in OpenItems
    BY <2>1, <2>2, <2>4 DEF DebtSince, OpenItems
  <2> QED
    BY <2>1, <2>5 DEF DebtSince, RepaymentClears
<1>2. CASE contract = "Cancelled"
  BY <1>2 DEF Debts, RepaymentIsOld, Stages, RepaymentClears
<1>3. CASE \E i \in repayment.items : exposure[i] = "final"
  BY <1>3 DEF RepaymentClears, OpenItems
<1> QED
  BY <1>1, <1>2, <1>3 DEF Types, RowTypes, Debts, RepaymentIsOld

\* Once an ended contract is covered, only its completion and a late closing
\* change its books.
LEMMA EndedBooksStep ==
  ASSUME Types, Debts, Stages, Next, contract # "Active", ~CoverageUnsettled
  PROVE  \/ UNCHANGED bookVars
         \/ /\ contract = "CancellationPending"
            /\ CompleteCancellation
            /\ UNCHANGED <<month, coverage, coveredAt, replenished>>
         \/ LateClosing /\ UNCHANGED settlementVars
<1>1. ASSUME CoverageNext
      PROVE  UNCHANGED bookVars \/ LateClosing
  BY <1>1, SettledCoverageStep DEF Types, Debts, bookVars
<1>2. CASE PostRepayment
  BY <1>2, LateRepaymentFails DEF PostRepayment, bookVars
<1>3. ASSUME NEW w \in Workers, BeginSettlement(w) \/ RecordSettlement(w)
      PROVE  \/ UNCHANGED bookVars
             \/ /\ contract = "CancellationPending"
                /\ CompleteCancellation
                /\ UNCHANGED <<month, coverage, coveredAt, replenished>>
  BY <1>3 DEF BeginSettlement, RecordSettlement, Settleable, bookVars
<1>4. ASSUME NEW w \in Workers,
             \/ AskForPayout(w) \/ BeginPrincipalReturn(w)
             \/ RecordPrincipalReturn(w) \/ CrashCall(w)
      PROVE  UNCHANGED bookVars
  BY <1>4
  DEF AskForPayout, BeginPrincipalReturn, RecordPrincipalReturn, CrashCall, coverageVars, bookVars
<1>5. CASE ConfirmRepayment
  BY <1>5 DEF ConfirmRepayment, coverageVars, bookVars
<1> QED
  BY <1>1, <1>2, <1>3, <1>4, <1>5 DEF Next, CoverageNext

-----------------------------------------------------------------------------
(* Calls and payouts. *)

\* A call under way is about a transfer that was ordered.
CallsAreOrdered ==
    \A w \in Workers : call[w] # Idle =>
        /\ order[call[w].leg] # "none"
        /\ call[w].leg = "owner" => settlement # "none"
        /\ call[w].leg = "bank" => settlement = "Completed"

\* The order of the owner's transfer mirrors the settlement while it is open.
OrderMirrorsSettlement ==
    /\ settlement = "none" => order["owner"] = "none"
    /\ settlement \in {"Pending", "Unknown"} => order["owner"] \in {"Pending", "Unknown"}

\* An answer in flight is true.
AnswersOfPayoutsAreTrue ==
    \A w \in Workers : call[w] # Idle =>
        /\ call[w].response = "Confirmed" => payout[call[w].leg] = "moved"
        /\ call[w].response = "Failed" => payout[call[w].leg] = "rejected"

\* An order settles only as its transfer ended, and nothing is transferred
\* before its order is committed.
OrdersAreTrue ==
    \A l \in Leg :
        /\ order[l] = "Succeeded" => payout[l] = "moved"
        /\ order[l] = "Failed" => payout[l] = "rejected"
        /\ order[l] = "none" => payout[l] = "none"

PayoutTruth ==
    CallsAreOrdered /\ OrderMirrorsSettlement /\ AnswersOfPayoutsAreTrue /\ OrdersAreTrue

\* The first transaction of either settlement commits the order before the call.
LEMMA BeginningKeepsTruth ==
  ASSUME Types, Stages, PayoutTruth, NEW w \in Workers,
         BeginSettlement(w) \/ BeginPrincipalReturn(w)
  PROVE  PayoutTruth'
<1>1. CASE BeginSettlement(w) /\ Residual = 0
  <2>1. UNCHANGED <<order, call, payout>> /\ settlement' = "Completed" /\ contract' = "Cancelled"
    BY <1>1 DEF BeginSettlement, CompleteCancellation
  <2> QED
    BY <2>1 DEF PayoutTruth, CallsAreOrdered, OrderMirrorsSettlement, AnswersOfPayoutsAreTrue,
                OrdersAreTrue
<1>2. CASE BeginSettlement(w) /\ Residual # 0
  <2>1. /\ settlement \in {"none", "Pending", "Unknown"}
        /\ settlement' \in {"Pending", "Unknown"}
        /\ order' = [order EXCEPT !["owner"] = IF @ = "none" THEN "Pending" ELSE @]
        /\ call' = [call EXCEPT ![w] = Asking("owner")]
        /\ UNCHANGED <<contract, payout>>
    BY <1>2 DEF BeginSettlement, Settleable, Types, SettlementTypeOK
  <2>2. Asking("owner").leg = "owner" /\ Asking("owner").response = "none"
    BY AskingType DEF Leg
  <2>3. /\ "owner" \in Leg
        /\ \A l \in Leg : order[l] # "none" => order'[l] = order[l]
        /\ \A l \in Leg : order'[l] \in {order[l], "Pending"}
        /\ order'["owner"] # "none"
    BY <2>1 DEF Types, SettlementTypeOK, Leg
  <2>4. CallsAreOrdered'
    <3> SUFFICES ASSUME NEW v \in Workers, call'[v] # Idle
                 PROVE  /\ order'[call'[v].leg] # "none"
                        /\ call'[v].leg = "owner" => settlement' # "none"
                        /\ call'[v].leg = "bank" => settlement' = "Completed"
      BY DEF CallsAreOrdered
    <3>1. CASE v = w
      BY <2>1, <2>2, <2>3, <3>1 DEF Types, SettlementTypeOK
    <3>2. CASE v # w
      <4>1. call'[v] = call[v] /\ call[v].leg \in Leg
        BY <2>1, <3>2, CallType DEF Types, SettlementTypeOK
      <4> QED
        BY <2>1, <2>3, <4>1 DEF PayoutTruth, CallsAreOrdered
    <3> QED
      BY <3>1, <3>2
  <2>5. OrderMirrorsSettlement'
    BY <2>1, <2>3 DEF PayoutTruth, OrderMirrorsSettlement, Types, SettlementTypeOK, Settleable,
                      Stages
  <2>6. AnswersOfPayoutsAreTrue'
    BY <2>1, <2>2 DEF PayoutTruth, AnswersOfPayoutsAreTrue, Types, SettlementTypeOK
  <2>7. OrdersAreTrue'
    BY <2>1, <2>3 DEF PayoutTruth, OrdersAreTrue
  <2> QED
    BY <2>4, <2>5, <2>6, <2>7 DEF PayoutTruth
<1>3. CASE BeginPrincipalReturn(w)
  <2>1. /\ settlement = "Completed"
        /\ order' = [order EXCEPT !["bank"] = IF @ = "none" THEN "Pending" ELSE @]
        /\ call' = [call EXCEPT ![w] = Asking("bank")]
        /\ UNCHANGED <<contract, settlement, payout>>
    BY <1>3 DEF BeginPrincipalReturn, PrincipalReturnable, coverageVars
  <2>2. Asking("bank").leg = "bank" /\ Asking("bank").response = "none"
    BY AskingType DEF Leg
  <2>3. /\ "bank" \in Leg
        /\ \A l \in Leg : order[l] # "none" => order'[l] = order[l]
        /\ \A l \in Leg : order'[l] \in {order[l], "Pending"}
        /\ order'["bank"] # "none" /\ order'["owner"] = order["owner"]
    BY <2>1 DEF Types, SettlementTypeOK, Leg
  <2>4. CallsAreOrdered'
    <3> SUFFICES ASSUME NEW v \in Workers, call'[v] # Idle
                 PROVE  /\ order'[call'[v].leg] # "none"
                        /\ call'[v].leg = "owner" => settlement' # "none"
                        /\ call'[v].leg = "bank" => settlement' = "Completed"
      BY DEF CallsAreOrdered
    <3>1. CASE v = w
      BY <2>1, <2>2, <2>3, <3>1 DEF Types, SettlementTypeOK
    <3>2. CASE v # w
      <4>1. call'[v] = call[v] /\ call[v].leg \in Leg
        BY <2>1, <3>2, CallType DEF Types, SettlementTypeOK
      <4> QED
        BY <2>1, <2>3, <4>1 DEF PayoutTruth, CallsAreOrdered
    <3> QED
      BY <3>1, <3>2
  <2>5. OrderMirrorsSettlement' /\ OrdersAreTrue'
    BY <2>1, <2>3 DEF PayoutTruth, OrderMirrorsSettlement, OrdersAreTrue
  <2>6. AnswersOfPayoutsAreTrue'
    BY <2>1, <2>2 DEF PayoutTruth, AnswersOfPayoutsAreTrue, Types, SettlementTypeOK
  <2> QED
    BY <2>4, <2>5, <2>6 DEF PayoutTruth
<1> QED
  BY <1>1, <1>2, <1>3

\* The provider does not take back what it did, and answers truly.
LEMMA AskingKeepsTruth ==
  ASSUME Types, PayoutTruth, NEW w \in Workers, AskForPayout(w)
  PROVE  PayoutTruth'
<1> DEFINE l == call[w].leg
<1>1. l \in Leg /\ call[w] \in Call /\ order[l] # "none"
  BY CallType DEF AskForPayout, PayoutTruth, CallsAreOrdered
<1>2. PICK outcome \in Outcomes(payout[l]), response \in Response :
        /\ response \in Answers(outcome)
        /\ payout' = [payout EXCEPT ![l] = outcome]
        /\ call' = [call EXCEPT ![w].response = response]
  BY DEF AskForPayout
<1>3. UNCHANGED <<contract, settlement, order>>
  BY DEF AskForPayout, coverageVars
<1>4. \A k \in Leg : payout[k] \in {"moved", "rejected"} => payout'[k] = payout[k]
  BY <1>1, <1>2 DEF Types, SettlementTypeOK, Outcomes
<1>5. \A v \in Workers : /\ call'[v] # Idle => call[v] # Idle /\ call'[v].leg = call[v].leg
                         /\ v # w => call'[v] = call[v]
  <2>1. call[w] # Idle
    BY DEF AskForPayout
  <2>2. \A v \in Workers : v # w => call'[v] = call[v]
    BY <1>2 DEF Types, SettlementTypeOK
  <2>3. call'[w] = [call[w] EXCEPT !.response = response]
    BY <1>2 DEF Types, SettlementTypeOK
  <2>4. call'[w].leg = call[w].leg
    BY <1>1, <2>3 DEF Call
  <2> QED
    BY <2>1, <2>2, <2>4
<1>6. CallsAreOrdered' /\ OrderMirrorsSettlement'
  BY <1>3, <1>5 DEF PayoutTruth, CallsAreOrdered, OrderMirrorsSettlement
<1>7. OrdersAreTrue'
  <2> SUFFICES ASSUME NEW k \in Leg
               PROVE  /\ order[k] = "Succeeded" => payout'[k] = "moved"
                      /\ order[k] = "Failed" => payout'[k] = "rejected"
                      /\ order[k] = "none" => payout'[k] = "none"
    BY <1>3 DEF OrdersAreTrue
  <2>1. CASE k = l
    BY <1>1, <1>4, <2>1 DEF PayoutTruth, OrdersAreTrue
  <2>2. CASE k # l
    BY <1>1, <1>2, <2>2 DEF PayoutTruth, OrdersAreTrue, Types, SettlementTypeOK
  <2> QED
    BY <2>1, <2>2
<1>8. AnswersOfPayoutsAreTrue'
  <2> SUFFICES ASSUME NEW v \in Workers, call'[v] # Idle
               PROVE  /\ call'[v].response = "Confirmed" => payout'[call'[v].leg] = "moved"
                      /\ call'[v].response = "Failed" => payout'[call'[v].leg] = "rejected"
    BY DEF AnswersOfPayoutsAreTrue
  <2>1. CASE v = w
    <3>1. call'[w].response = response /\ call'[w].leg = l /\ payout'[l] = outcome
      BY <1>1, <1>2, <1>5, <2>1 DEF Types, SettlementTypeOK, Call
    <3>2. /\ response = "Confirmed" => outcome = "moved"
          /\ response = "Failed" => outcome = "rejected"
      BY <1>2 DEF Answers
    <3> QED
      BY <2>1, <3>1, <3>2
  <2>2. CASE v # w
    <3>1. call'[v] = call[v] /\ call[v].leg \in Leg
      BY <1>5, <2>2, CallType
    <3> QED
      BY <1>4, <3>1 DEF PayoutTruth, AnswersOfPayoutsAreTrue
  <2> QED
    BY <2>1, <2>2
<1> QED
  BY <1>6, <1>7, <1>8 DEF PayoutTruth

\* A status is recorded only on the strength of a true answer.
LEMMA RecordingPayoutKeepsTruth ==
  ASSUME Types, PayoutTruth, NEW w \in Workers,
         RecordSettlement(w) \/ RecordPrincipalReturn(w)
  PROVE  PayoutTruth'
<1>1. /\ \A v \in Workers : call'[v] # Idle => call'[v] = call[v]
      /\ UNCHANGED payout
      /\ call[w] # Idle
  BY DEF RecordSettlement, RecordPrincipalReturn, Answered, Types, SettlementTypeOK
<1>2. AnswersOfPayoutsAreTrue'
  BY <1>1 DEF PayoutTruth, AnswersOfPayoutsAreTrue
<1>3. settlement = "Completed" => settlement' = "Completed"
  BY DEF RecordSettlement, RecordPrincipalReturn, CompleteCancellation
<1>4. CASE RecordSettlement(w)
  <2> DEFINE status == OwnerStatusFor(call[w].response)
  <2>1. call[w].leg = "owner" /\ settlement # "none" /\ "owner" \in Leg
    BY <1>1, <1>4 DEF PayoutTruth, CallsAreOrdered, RecordSettlement, Answered, Leg
  <2>2. /\ status = "Succeeded" => payout["owner"] = "moved"
        /\ status = "Failed" => payout["owner"] = "rejected"
        /\ status \in {"Unknown", "Succeeded", "Failed"}
    BY <1>1, <2>1 DEF PayoutTruth, AnswersOfPayoutsAreTrue, OwnerStatusFor
  <2>3. \/ UNCHANGED <<settlement, order>>
        \/ /\ order' = [order EXCEPT !["owner"] = status]
           /\ IF status = "Succeeded" THEN settlement' = "Completed" ELSE settlement' = status
    BY <1>4 DEF RecordSettlement, CompleteCancellation
  <2> HIDE DEF status
  <2>4. CallsAreOrdered'
    BY <1>1, <1>3, <2>1, <2>2, <2>3, CallType DEF PayoutTruth, CallsAreOrdered, Types, SettlementTypeOK
  <2>5. OrderMirrorsSettlement'
    BY <2>1, <2>2, <2>3 DEF PayoutTruth, OrderMirrorsSettlement, Types, SettlementTypeOK
  <2>6. OrdersAreTrue'
    BY <1>1, <2>1, <2>2, <2>3 DEF PayoutTruth, OrdersAreTrue, Types, SettlementTypeOK
  <2> QED
    BY <1>2, <2>4, <2>5, <2>6 DEF PayoutTruth
<1>5. CASE RecordPrincipalReturn(w)
  <2> DEFINE status == BankStatusFor(call[w].response)
  <2>1. call[w].leg = "bank" /\ "bank" \in Leg
    BY <1>5 DEF RecordPrincipalReturn, Answered, Leg
  <2>2. /\ status = "Succeeded" => payout["bank"] = "moved"
        /\ status = "Failed" => payout["bank"] = "rejected"
        /\ status \in {"Unknown", "Succeeded", "Failed"}
    BY <1>1, <2>1 DEF PayoutTruth, AnswersOfPayoutsAreTrue, BankStatusFor
  <2>3. /\ UNCHANGED settlement
        /\ order' = order \/ order' = [order EXCEPT !["bank"] = status]
    BY <1>5 DEF RecordPrincipalReturn
  <2> HIDE DEF status
  <2>4. CallsAreOrdered'
    <3>1. \A l \in Leg : order[l] # "none" => order'[l] # "none"
      BY <2>1, <2>2, <2>3 DEF Types, SettlementTypeOK
    <3> QED
      BY <1>1, <1>3, <2>3, <3>1, CallType DEF PayoutTruth, CallsAreOrdered
  <2>5. OrderMirrorsSettlement'
    BY <2>2, <2>3 DEF PayoutTruth, OrderMirrorsSettlement, Types, SettlementTypeOK, Leg
  <2>6. OrdersAreTrue'
    BY <1>1, <2>1, <2>2, <2>3 DEF PayoutTruth, OrdersAreTrue, Types, SettlementTypeOK
  <2> QED
    BY <1>2, <2>4, <2>5, <2>6 DEF PayoutTruth
<1> QED
  BY <1>4, <1>5

\* The other steps order, send and settle nothing.
LEMMA PayoutTruthStep ==
  ASSUME Types, Stages, PayoutTruth, Next
  PROVE  PayoutTruth'
<1>1. ASSUME UNCHANGED <<settlement, order, call, payout>>
      PROVE  PayoutTruth'
  BY <1>1
  DEF PayoutTruth, CallsAreOrdered, OrderMirrorsSettlement, AnswersOfPayoutsAreTrue, OrdersAreTrue
<1>2. ASSUME CoverageNext, UNCHANGED settlementVars
      PROVE  PayoutTruth'
  BY <1>1, <1>2 DEF settlementVars
<1>3. ASSUME NEW w \in Workers, CrashCall(w)
      PROVE  PayoutTruth'
  <2>1. /\ \A v \in Workers : call'[v] # Idle => call'[v] = call[v]
        /\ UNCHANGED <<settlement, order, payout>>
    BY <1>3 DEF CrashCall, Types, SettlementTypeOK
  <2> QED
    BY <2>1
    DEF PayoutTruth, CallsAreOrdered, OrderMirrorsSettlement, AnswersOfPayoutsAreTrue,
        OrdersAreTrue
<1>4. CASE ConfirmRepayment \/ PostRepayment
  BY <1>1, <1>4 DEF ConfirmRepayment, PostRepayment, coverageVars
<1> QED
  BY <1>2, <1>3, <1>4, BeginningKeepsTruth, AskingKeepsTruth, RecordingPayoutKeepsTruth
  DEF Next, CoverageNext

\* No transfer is ordered at the beginning.
LEMMA PayoutTruthInit == Init => PayoutTruth
  BY DEF Init, SettlementInit, PayoutTruth, CallsAreOrdered, OrderMirrorsSettlement,
         AnswersOfPayoutsAreTrue, OrdersAreTrue, Leg

-----------------------------------------------------------------------------
(* What a step may do to the settlement. *)

Untouched ==
    /\ UNCHANGED <<settlement, residual, retained>>
    /\ contract' \in {contract, "CancellationPending"}

Begins ==
    /\ Settleable
    /\ residual' = Residual
    /\ settlement' \in {"Pending", "Unknown"}
    /\ UNCHANGED bookVars /\ UNCHANGED retained

Resolves ==
    /\ contract = "CancellationPending" /\ ~CoverageUnsettled
    /\ settlement \in {"Pending", "Unknown"} /\ settlement' \in {"Unknown", "Failed"}
    /\ UNCHANGED bookVars /\ UNCHANGED <<residual, retained>>

Completes ==
    /\ contract = "CancellationPending" /\ ~CoverageUnsettled
    /\ settlement # "Completed"
    /\ CompleteCancellation
    /\ residual' = Residual
    /\ residual' = 0 \/ payout["owner"] = "moved"
    /\ UNCHANGED <<month, coverage, coveredAt, replenished>> /\ UNCHANGED payout

\* These are the only ways a step may touch it.
LEMMA SettlementMoves ==
  ASSUME Types, PayoutTruth, Next
  PROVE  Untouched \/ Begins \/ Resolves \/ Completes
<1>1. ASSUME CoverageNext, UNCHANGED settlementVars
      PROVE  Untouched
  <2>1. contract' \in {contract, "CancellationPending"}
    BY <1>1
    DEF CoverageNext, WorkerStep, StartPass, TakeMonth, CloseAsPaid, CloseAsMissed, LeaveMonth,
        Reserve, AskProvider, SkipSettled, RecordTransfer, FinalizeCoverage, CrashWorker, Tick
  <2> QED
    BY <1>1, <2>1 DEF Untouched, settlementVars
<1>2. ASSUME NEW w \in Workers, BeginSettlement(w)
      PROVE  Begins \/ Completes
  <2>1. settlement \in {"none", "Pending", "Unknown"}
    BY <1>2 DEF BeginSettlement, Settleable, Types, SettlementTypeOK
  <2>2. CASE Residual = 0
    BY <1>2, <2>2 DEF BeginSettlement, Settleable, Completes
  <2>3. CASE Residual # 0
    BY <1>2, <2>1, <2>3 DEF BeginSettlement, Begins, bookVars
  <2> QED
    BY <2>2, <2>3
<1>3. ASSUME NEW w \in Workers, RecordSettlement(w)
      PROVE  Untouched \/ Resolves \/ Completes
  <2> DEFINE status == OwnerStatusFor(call[w].response)
  <2>1. call[w].leg = "owner" /\ settlement # "none" /\ call[w] # Idle
    BY <1>3 DEF PayoutTruth, CallsAreOrdered, RecordSettlement, Answered
  <2>2. status = "Succeeded" => Residual = residual /\ payout["owner"] = "moved"
    BY <2>1 DEF PayoutTruth, AnswersOfPayoutsAreTrue, OwnerStatusFor
  <2>3. status \in {"Unknown", "Succeeded", "Failed"}
    BY PayoutStatusType
  <2>4. \/ UNCHANGED <<contract, exposure, settlement, retained>>
        \/ /\ settlement \notin {"Completed", "Failed"}
           /\ contract = "CancellationPending" /\ ~CoverageUnsettled
           /\ IF status = "Succeeded"
              THEN CompleteCancellation
              ELSE settlement' = status /\ UNCHANGED <<contract, exposure, retained>>
    BY <1>3 DEF RecordSettlement
  <2>5. /\ UNCHANGED <<month, coverage, coveredAt, replenished, residual, payout>>
        /\ UNCHANGED <<cutoff, unpaid>>
    BY <1>3 DEF RecordSettlement
  <2> HIDE DEF status
  <2> QED
    BY <2>1, <2>2, <2>3, <2>4, <2>5
    DEF Untouched, Resolves, Completes, bookVars, Types, SettlementTypeOK
<1>4. ASSUME NEW w \in Workers,
             \/ AskForPayout(w) \/ BeginPrincipalReturn(w)
             \/ RecordPrincipalReturn(w) \/ CrashCall(w)
      PROVE  Untouched
  BY <1>4
  DEF AskForPayout, BeginPrincipalReturn, RecordPrincipalReturn, CrashCall, coverageVars, Untouched
<1>5. CASE ConfirmRepayment \/ PostRepayment
  BY <1>5 DEF ConfirmRepayment, PostRepayment, coverageVars, Untouched
<1> QED
  BY <1>1, <1>2, <1>3, <1>4, <1>5 DEF Next, CoverageNext

\* A cutoff, once written, is only ever taken away.
LEMMA CutoffStep ==
  ASSUME Types, Debts, Next, contract # "Active"
  PROVE  cutoff' \in {cutoff, Never}
<1>1. ASSUME CoverageNext
      PROVE  cutoff' \in {cutoff, Never}
  BY <1>1, EndedContractStep DEF Types, Debts, LateClosing, ClosedByLatePass
<1> QED
  BY <1>1
  DEF Next, CoverageNext, BeginSettlement, AskForPayout, RecordSettlement, BeginPrincipalReturn,
      RecordPrincipalReturn, CrashCall, ConfirmRepayment, PostRepayment, coverageVars

\* The stages follow each other in order, and the books stay closed.
LEMMA StagesStep ==
  ASSUME Types, Debts, Stages, PayoutTruth, Next
  PROVE  Stages'
<1>1. UNCHANGED <<month, coverage>> => CoverageUnsettled' = CoverageUnsettled
  BY DEF CoverageUnsettled, Reserved
<1>2. CASE Begins \/ Resolves
  BY <1>1, <1>2 DEF Begins, Resolves, Settleable, Stages, bookVars
<1>3. CASE Completes
  <2>1. OpenItems' = {}
    BY <1>3 DEF Completes, CompleteCancellation, OpenItems
  <2> QED
    BY <1>1, <1>3, <2>1 DEF Completes, CompleteCancellation, Stages
<1>4. CASE Untouched
  <2>1. CASE contract # "Active" /\ ~CoverageUnsettled /\ UNCHANGED bookVars
    <3>1. OpenItems' = OpenItems
      BY <2>1 DEF OpenItems, bookVars
    <3> QED
      BY <1>1, <1>4, <2>1, <3>1 DEF Untouched, Stages, bookVars
  <2>2. CASE contract # "Active" /\ ~CoverageUnsettled /\ LateClosing
    BY <2>2 DEF LateClosing, ClosedByLatePass, Stages
  <2>3. CASE contract # "Active" /\ CoverageUnsettled
    <3>1. settlement' \in {"Pending", "Unknown"} => cutoff' = Never
      BY <1>4, <2>3, CutoffStep DEF Untouched, Stages
    <3>2. contract' = "CancellationPending"
      BY <1>4, <2>3 DEF Untouched, Stages, Types, RowTypes
    <3> QED
      BY <3>1, <3>2 DEF Stages
  <2>4. CASE contract = "Active"
    BY <1>4, <2>4 DEF Untouched, Stages
  <2>5. contract # "Active" /\ ~CoverageUnsettled => UNCHANGED bookVars \/ LateClosing
    BY <1>4, EndedBooksStep DEF Untouched, CompleteCancellation, Stages
  <2> QED
    BY <2>1, <2>2, <2>3, <2>4, <2>5 DEF Stages
<1> QED
  BY <1>2, <1>3, <1>4, SettlementMoves DEF Stages

\* The settlement begins with nothing done.
LEMMA StagesInit == Init => Stages
  BY DEF Init, CoverageInit, SettlementInit, Stages

\* What a provider has done stays done.
LEMMA PayoutsAreFinal ==
  ASSUME Types, Next, NEW l \in Leg, payout[l] \in {"moved", "rejected"}
  PROVE  payout'[l] = payout[l]
<1>1. ASSUME NEW w \in Workers, AskForPayout(w)
      PROVE  payout'[l] = payout[l]
  <2>1. PICK outcome \in Outcomes(payout[call[w].leg]) :
          payout' = [payout EXCEPT ![call[w].leg] = outcome]
    BY <1>1 DEF AskForPayout
  <2> QED
    BY <2>1 DEF Types, SettlementTypeOK, Outcomes
<1> QED
  BY <1>1
  DEF Next, settlementVars, BeginSettlement, RecordSettlement, BeginPrincipalReturn,
      RecordPrincipalReturn, CrashCall, ConfirmRepayment, PostRepayment

-----------------------------------------------------------------------------
(* The properties. *)

IInv == Types /\ Debts /\ Stages /\ PayoutTruth

\* Nothing has been decided or paid out at the start.
LEMMA IInvInit == Init => IInv
  BY SettlementTypeInit, DebtsInit, StagesInit, PayoutTruthInit DEF IInv

\* Every step of a settlement or of a repayment keeps the invariant.
LEMMA IInvStep == IInv /\ [Next]_vars => IInv'
<1>1. ASSUME IInv, Next
      PROVE  IInv'
  BY <1>1, SettlementTypeStep, DebtsStep, StagesStep, PayoutTruthStep DEF IInv, Stages
<1>2. ASSUME IInv, UNCHANGED vars
      PROVE  IInv'
  <2>1. UNCHANGED coverageVars /\ UNCHANGED settlementVars
    BY <1>2 DEF vars
  <2>2. Types'
    BY <1>2, <2>1 DEF IInv, Types, RowTypes, SettlementTypeOK, coverageVars, settlementVars
  <2>3. Debts'
    BY <1>2, <2>1
    DEF IInv, Debts, MonthsAreTrue, UnpaidOf, CoveredRows, LatchHistory, InTurn, ThirdMiss,
        RepaymentIsOld, DebtSince, Covered, coverageVars, settlementVars
  <2>4. Stages'
    BY <1>2, <2>1
    DEF IInv, Stages, CoverageUnsettled, Reserved, OpenItems, coverageVars, settlementVars
  <2>5. PayoutTruth'
    BY <1>2, <2>1
    DEF IInv, PayoutTruth, CallsAreOrdered, OrderMirrorsSettlement, AnswersOfPayoutsAreTrue,
        OrdersAreTrue, coverageVars, settlementVars
  <2> QED
    BY <2>2, <2>3, <2>4, <2>5 DEF IInv
<1> QED
  BY <1>1, <1>2

\* The inductive invariant.
THEOREM SettlementInvariant == Spec => []IInv
  BY IInvInit, IInvStep, PTL DEF Spec

\* The amount frozen for the owner stays what the split gives: no repayment,
\* coverage or second worker changes it before the answer is journaled.
THEOREM FrozenResidualIsStable == Spec => []FrozenResidualStands
<1>1. Init => FrozenResidualStands
  BY DEF Init, SettlementInit, FrozenResidualStands
<1>2. ASSUME IInv, FrozenResidualStands, Next
      PROVE  FrozenResidualStands'
  <2> SUFFICES ASSUME settlement' \in {"Pending", "Unknown"}, cutoff' # Never
               PROVE  SplitIsDefined' /\ residual' = Residual'
    BY DEF FrozenResidualStands
  <2>1. CASE Begins \/ Resolves
    <3>1. cutoff # Never
      BY <2>1 DEF Begins, Resolves, bookVars
    <3>2. SplitIsDefined /\ residual' = Residual
      BY <1>2, <2>1, <3>1 DEF Begins, Resolves, Settleable, FrozenResidualStands
    <3> QED
      BY <2>1, <3>2, SplitIsAFunction DEF Begins, Resolves, bookVars
  <2>2. CASE Untouched
    <3>1. settlement \in {"Pending", "Unknown"} /\ contract # "Active"
      BY <1>2, <2>2 DEF Untouched, IInv, Stages
    <3>2. cutoff # Never
      BY <1>2, <3>1, CutoffStep DEF IInv
    <3>3. SplitIsDefined /\ residual' = Residual /\ ~CoverageUnsettled
      BY <1>2, <2>2, <3>1, <3>2 DEF Untouched, FrozenResidualStands, IInv, Stages
    <3>4. UNCHANGED bookVars
      BY <1>2, <2>2, <3>1, <3>3, EndedBooksStep
      DEF IInv, Untouched, CompleteCancellation, LateClosing, ClosedByLatePass
    <3> QED
      BY <3>3, <3>4, SplitIsAFunction DEF bookVars
  <2>3. CASE Completes
    BY <2>3 DEF Completes, CompleteCancellation
  <2> QED
    BY <1>2, <2>1, <2>2, <2>3, SettlementMoves DEF IInv
<1>3. ASSUME FrozenResidualStands, UNCHANGED vars
      PROVE  FrozenResidualStands'
  BY <1>3, SplitIsAFunction DEF FrozenResidualStands, vars, coverageVars, settlementVars
<1> QED
  BY <1>1, <1>2, <1>3, SettlementInvariant, PTL DEF Spec

\* A cancelled contract leaves nothing behind.
THEOREM CancellationIsComplete == Spec => []CancelledContributionIsSpent
<1> DEFINE Spent == contract = "Cancelled" =>
                       /\ residual = PostedBalance - retained
                       /\ residual > 0 => payout["owner"] = "moved"
<1>1. Init => Spent
  BY DEF Init, CoverageInit
<1>2. ASSUME IInv, Spent, Next
      PROVE  Spent'
  <2> SUFFICES ASSUME contract' = "Cancelled"
               PROVE  /\ residual' = PostedBalance' - retained'
                      /\ residual' > 0 => payout'["owner"] = "moved"
    OBVIOUS
  <2>1. CASE Begins \/ Resolves
    BY <2>1 DEF Begins, Resolves, Settleable, bookVars
  <2>2. CASE Untouched
    <3>1. contract = "Cancelled" /\ ~CoverageUnsettled
      BY <1>2, <2>2 DEF Untouched, IInv, Stages
    <3>2. UNCHANGED bookVars
      BY <1>2, <3>1, EndedBooksStep DEF IInv, LateClosing, ClosedByLatePass
    <3>3. PostedBalance' = PostedBalance
      BY <3>2, SplitIsAFunction DEF bookVars
    <3>4. payout["owner"] = "moved" => payout'["owner"] = "moved"
      BY <1>2, PayoutsAreFinal DEF IInv, Leg
    <3> QED
      BY <1>2, <2>2, <3>1, <3>3, <3>4 DEF Untouched
  <2>3. CASE Completes
    <3>1. PostedBalance' = PostedBalance
      <4>1. Covered' = Covered /\ UNCHANGED replenished
        BY <2>3 DEF Completes, Covered
      <4> QED
        BY <4>1 DEF PostedBalance
    <3>2. residual' = PostedBalance - LostReturn /\ retained' = LostReturn
      BY <2>3 DEF Completes, CompleteCancellation, Residual
    <3>3. residual' = 0 \/ payout'["owner"] = "moved"
      BY <2>3 DEF Completes
    <3> QED
      BY <3>1, <3>2, <3>3
  <2> QED
    BY <1>2, <2>1, <2>2, <2>3, SettlementMoves DEF IInv
<1>3. ASSUME Spent, UNCHANGED vars
      PROVE  Spent'
  <2>1. PostedBalance' = PostedBalance
    BY <1>3, SplitIsAFunction DEF vars, coverageVars
  <2> QED
    BY <1>3, <2>1 DEF vars, coverageVars, settlementVars
<1>4. Spec => []Spent
  BY <1>1, <1>2, <1>3, SettlementInvariant, PTL DEF Spec
<1>5. IInv /\ Spent => CancelledContributionIsSpent
  BY DEF IInv, Stages, CancelledContributionIsSpent
<1> QED
  BY <1>4, <1>5, SettlementInvariant, PTL

\* The books of a cancelled contract are closed; only a closing by a pass that
\* remembers the contract as Active moves its months.
THEOREM CancelledBooksStayClosed == Spec => CancelledBooksAreClosed
<1> DEFINE Closed ==
             /\ UNCHANGED <<coverage, exposure, coveredAt, replenished>>
             /\ UNCHANGED <<contract, cutoff, month, unpaid>> \/ ClosedByLatePass
           Divided == UNCHANGED <<settlement, residual, retained>>
<1>1. ASSUME IInv, Next, contract = "Cancelled"
      PROVE  Closed
  <2>1. UNCHANGED bookVars \/ LateClosing
    BY <1>1, EndedBooksStep DEF IInv, Stages, CompleteCancellation
  <2> QED
    BY <2>1 DEF bookVars, LateClosing
<1>2. ASSUME IInv, Next, settlement = "Completed"
      PROVE  Divided
  <2>1. ~Begins /\ ~Resolves /\ ~Completes
    BY <1>2 DEF Begins, Resolves, Completes, Settleable
  <2> QED
    BY <1>2, <2>1, SettlementMoves DEF IInv, Untouched
<1>3. IInv /\ [Next]_vars =>
        [/\ contract = "Cancelled" => Closed
         /\ settlement = "Completed" => Divided]_vars
  BY <1>1, <1>2
<1> QED
  BY <1>3, SettlementInvariant, PTL DEF Spec, CancelledBooksAreClosed

\* The bank's principal leaves only after the owner is settled, and its return
\* is journaled exactly when it is settled.
THEOREM BankComesLast == Spec => []BankFollowsOwner
<1>1. Init => BankFollowsOwner
  BY DEF Init, SettlementInit, BankFollowsOwner, Leg
<1>2. ASSUME IInv, BankFollowsOwner, Next
      PROVE  BankFollowsOwner'
  <2>1. settlement = "Completed" => settlement' = "Completed"
    BY <1>2, SettlementMoves
    DEF IInv, Untouched, Begins, Resolves, Completes, CompleteCancellation, Settleable
  <2>2. payout'["bank"] # "none" => settlement' = "Completed"
    <3>1. ASSUME NEW w \in Workers, AskForPayout(w)
          PROVE  payout'["bank"] # "none" => settlement = "Completed"
      <4>1. PICK outcome : payout' = [payout EXCEPT ![call[w].leg] = outcome]
        BY <3>1 DEF AskForPayout
      <4>2. CASE call[w].leg = "bank"
        BY <1>2, <3>1, <4>2 DEF AskForPayout, IInv, PayoutTruth, CallsAreOrdered
      <4>3. CASE call[w].leg # "bank"
        BY <1>2, <4>1, <4>3 DEF BankFollowsOwner, IInv, Types, SettlementTypeOK, Leg
      <4> QED
        BY <4>2, <4>3
    <3>2. payout' = payout \/ \E w \in Workers : AskForPayout(w)
      BY <1>2
      DEF Next, settlementVars, BeginSettlement, RecordSettlement, BeginPrincipalReturn,
          RecordPrincipalReturn, CrashCall, ConfirmRepayment, PostRepayment
    <3> QED
      BY <1>2, <2>1, <3>1, <3>2 DEF BankFollowsOwner
  <2>3. (order["bank"] = "Succeeded" <=> "return" \in journals)'
    <3>1. ASSUME NEW w \in Workers, RecordPrincipalReturn(w)
          PROVE  order'["bank"] = "Succeeded" <=> "return" \in journals'
      BY <1>2, <3>1
      DEF RecordPrincipalReturn, PrincipalAwaited, BankFollowsOwner, IInv, Types, SettlementTypeOK, Leg
    <3>2. ASSUME NEW w \in Workers, BeginPrincipalReturn(w)
          PROVE  order'["bank"] = "Succeeded" <=> "return" \in journals'
      BY <1>2, <3>2
      DEF BeginPrincipalReturn, PrincipalAwaited, BankFollowsOwner, IInv, Types, SettlementTypeOK, Leg
    <3>3. ASSUME NEW w \in Workers, BeginSettlement(w) \/ RecordSettlement(w)
          PROVE  UNCHANGED journals /\ order'["bank"] = order["bank"]
      BY <1>2, <3>3 DEF BeginSettlement, RecordSettlement, IInv, Types, SettlementTypeOK, Leg
    <3>4. \/ UNCHANGED <<order, journals>>
          \/ \E w \in Workers : \/ BeginSettlement(w) \/ RecordSettlement(w)
                               \/ BeginPrincipalReturn(w) \/ RecordPrincipalReturn(w)
      BY <1>2 DEF Next, settlementVars, AskForPayout, CrashCall, ConfirmRepayment, PostRepayment
    <3> QED
      BY <1>2, <3>1, <3>2, <3>3, <3>4 DEF BankFollowsOwner
  <2> QED
    BY <2>2, <2>3 DEF BankFollowsOwner
<1>3. ASSUME BankFollowsOwner, UNCHANGED vars
      PROVE  BankFollowsOwner'
  BY <1>3 DEF BankFollowsOwner, vars, coverageVars, settlementVars
<1> QED
  BY <1>1, <1>2, <1>3, SettlementInvariant, PTL DEF Spec

\* Both transfers keep the promise of ResumableTransfer.
THEOREM PayoutsResume == Spec => PayoutsAreResumable
<1>1. Init => Payouts!TransferInit
  BY DEF Init, SettlementInit, Payouts!TransferInit
<1>2. ASSUME IInv, Next
      PROVE  Payouts!TransferNext \/ UNCHANGED <<order, payout>>
  <2>1. ASSUME NEW l \in Leg, order' = [order EXCEPT ![l] = IF @ = "none" THEN "Pending" ELSE @],
               UNCHANGED payout
        PROVE  Payouts!TransferNext \/ UNCHANGED <<order, payout>>
    <3>1. CASE order[l] = "none"
      <4>1. Payouts!Order({l})
        BY <1>2, <2>1, <3>1 DEF Payouts!Order, IInv, Types, SettlementTypeOK
      <4> QED
        BY <4>1 DEF Payouts!TransferNext
    <3>2. CASE order[l] # "none"
      BY <1>2, <2>1, <3>2 DEF IInv, Types, SettlementTypeOK
    <3> QED
      BY <3>1, <3>2
  <2>2. ASSUME NEW w \in Workers, BeginSettlement(w) \/ BeginPrincipalReturn(w)
        PROVE  Payouts!TransferNext \/ UNCHANGED <<order, payout>>
    BY <2>1, <2>2 DEF BeginSettlement, BeginPrincipalReturn, Leg
  <2>3. ASSUME NEW w \in Workers, AskForPayout(w)
        PROVE  Payouts!TransferNext \/ UNCHANGED <<order, payout>>
    <3> DEFINE l == call[w].leg
    <3>1. l \in Leg /\ order[l] # "none"
      BY <1>2, <2>3, CallType DEF AskForPayout, IInv, PayoutTruth, CallsAreOrdered
    <3>2. PICK outcome \in Outcomes(payout[l]) : payout' = [payout EXCEPT ![l] = outcome]
      BY <2>3 DEF AskForPayout
    <3>3. UNCHANGED order
      BY <2>3 DEF AskForPayout
    <3>4. CASE payout[l] \in {"none", "started"}
      <4>1. order[l] \in {"Pending", "Unknown"}
        BY <1>2, <3>1, <3>4 DEF IInv, PayoutTruth, OrdersAreTrue, Types, SettlementTypeOK
      <4>2. Payouts!Provide(l)
        BY <3>2, <3>3, <3>4, <4>1 DEF Payouts!Provide, Payouts!Ordered, Outcomes
      <4> QED
        BY <3>1, <4>2 DEF Payouts!TransferNext
    <3>5. CASE payout[l] \notin {"none", "started"}
      BY <1>2, <3>1, <3>2, <3>3, <3>5 DEF Outcomes, IInv, Types, SettlementTypeOK
    <3> QED
      BY <3>4, <3>5
  <2>4. ASSUME NEW l \in Leg, NEW status \in {"Unknown", "Succeeded", "Failed"},
               order[l] \in {"Pending", "Unknown"},
               status = "Succeeded" => payout[l] = "moved",
               status = "Failed" => payout[l] = "rejected",
               order' = [order EXCEPT ![l] = status], UNCHANGED payout
        PROVE  Payouts!TransferNext
    <3>1. Payouts!Settle(l)
      BY <2>4 DEF Payouts!Settle, Payouts!Ordered
    <3> QED
      BY <3>1 DEF Payouts!TransferNext
  <2>5. ASSUME NEW w \in Workers, RecordSettlement(w)
        PROVE  Payouts!TransferNext \/ UNCHANGED <<order, payout>>
    <3> DEFINE status == OwnerStatusFor(call[w].response)
    <3>1. /\ call[w] # Idle /\ call[w].leg = "owner" /\ "owner" \in Leg
          /\ settlement # "none" /\ UNCHANGED payout
      BY <1>2, <2>5 DEF RecordSettlement, Answered, Leg, IInv, PayoutTruth, CallsAreOrdered
    <3>2. /\ status = "Succeeded" => payout["owner"] = "moved"
          /\ status = "Failed" => payout["owner"] = "rejected"
          /\ status \in {"Unknown", "Succeeded", "Failed"}
      BY <1>2, <3>1 DEF OwnerStatusFor, IInv, PayoutTruth, AnswersOfPayoutsAreTrue
    <3>3. CASE settlement \in {"Pending", "Unknown"} /\ order' = [order EXCEPT !["owner"] = status]
      <4>1. order["owner"] \in {"Pending", "Unknown"}
        BY <1>2, <3>3 DEF IInv, PayoutTruth, OrderMirrorsSettlement
      <4> HIDE DEF status
      <4> QED
        BY <2>4, <3>1, <3>2, <3>3, <4>1
    <3>4. \/ UNCHANGED order
          \/ settlement \in {"Pending", "Unknown"} /\ order' = [order EXCEPT !["owner"] = status]
      BY <1>2, <2>5, <3>1 DEF RecordSettlement, IInv, Types, SettlementTypeOK
    <3> QED
      BY <3>1, <3>3, <3>4
  <2>6. ASSUME NEW w \in Workers, RecordPrincipalReturn(w)
        PROVE  Payouts!TransferNext \/ UNCHANGED <<order, payout>>
    <3> DEFINE status == BankStatusFor(call[w].response)
    <3>1. /\ call[w] # Idle /\ call[w].leg = "bank" /\ "bank" \in Leg
          /\ order["bank"] # "none" /\ UNCHANGED payout
      BY <1>2, <2>6 DEF RecordPrincipalReturn, Answered, Leg, IInv, PayoutTruth, CallsAreOrdered
    <3>2. /\ status = "Succeeded" => payout["bank"] = "moved"
          /\ status = "Failed" => payout["bank"] = "rejected"
          /\ status \in {"Unknown", "Succeeded", "Failed"}
      BY <1>2, <3>1 DEF BankStatusFor, IInv, PayoutTruth, AnswersOfPayoutsAreTrue
    <3>3. CASE PrincipalAwaited /\ order' = [order EXCEPT !["bank"] = status]
      <4>1. order["bank"] \in {"Pending", "Unknown"}
        BY <1>2, <3>1, <3>3 DEF PrincipalAwaited, IInv, Types, SettlementTypeOK
      <4> HIDE DEF status
      <4> QED
        BY <2>4, <3>1, <3>2, <3>3, <4>1
    <3>4. \/ UNCHANGED order
          \/ PrincipalAwaited /\ order' = [order EXCEPT !["bank"] = status]
      BY <2>6 DEF RecordPrincipalReturn
    <3> QED
      BY <3>1, <3>3, <3>4
  <2>7. \/ UNCHANGED <<order, payout>>
        \/ \E w \in Workers : \/ BeginSettlement(w) \/ BeginPrincipalReturn(w) \/ AskForPayout(w)
                             \/ RecordSettlement(w) \/ RecordPrincipalReturn(w)
    BY <1>2 DEF Next, settlementVars, CrashCall, ConfirmRepayment, PostRepayment
  <2> QED
    BY <2>2, <2>3, <2>5, <2>6, <2>7
<1>3. IInv /\ [Next]_vars => [Payouts!TransferNext]_(Payouts!transferVars)
  BY <1>2 DEF vars, settlementVars, Payouts!transferVars
<1> QED
  BY <1>1, <1>3, SettlementInvariant, PTL DEF Spec, PayoutsAreResumable, Payouts!TransferSpec

-----------------------------------------------------------------------------
(* What coverage promises still holds while the contract is settled. *)

\* The contribution's balance and what the coverage rows say of the provider.
CoverageKept ==
    /\ replenished \in Nat
    /\ BalanceBearsReservations
    /\ TransferTruth

\* The steps of the settlement leave transfers, answers and coverage alone.
LEMMA SettlementLeavesCoverage ==
  ASSUME Next
  PROVE  \/ CoverageNext /\ replenished' = replenished
         \/ UNCHANGED <<coverage, transfer, coveredAt, job>>
<1>1. ASSUME NEW w \in Workers, WorkerStep(w)
      PROVE  CoverageNext /\ replenished' = replenished
  BY <1>1
  DEF CoverageNext, WorkerStep, StartPass, TakeMonth, CloseAsPaid, CloseAsMissed, LeaveMonth,
      Reserve, AskProvider, SkipSettled, RecordTransfer, FinalizeCoverage, CrashWorker, Tick
<1>2. ASSUME Tick
      PROVE  CoverageNext /\ replenished' = replenished
  BY <1>2 DEF CoverageNext, Tick
<1> QED
  BY <1>1, <1>2
  DEF Next, BeginSettlement, AskForPayout, RecordSettlement, BeginPrincipalReturn,
      RecordPrincipalReturn, CrashCall, ConfirmRepayment, PostRepayment, coverageVars

\* A settlement takes nothing back from the contribution; a repayment adds to it.
LEMMA ReplenishedGrows ==
  ASSUME Types, replenished \in Nat, Next
  PROVE  replenished' \in Nat /\ replenished' >= replenished
<1>1. ASSUME PostRepayment
      PROVE  replenished' \in Nat /\ replenished' >= replenished
  <2>1. repayment \in Repayment
    BY <1>1 DEF PostRepayment, Types, SettlementTypeOK
  <2>2. Total(repayment.items) \in Nat
    BY <2>1, TotalType DEF Repayment
  <2>3. replenished' = replenished + Total(repayment.items) \/ replenished' = replenished
    BY <1>1 DEF PostRepayment
  <2> QED
    BY <2>2, <2>3
<1>2. ASSUME replenished' = replenished
      PROVE  replenished' \in Nat /\ replenished' >= replenished
  BY <1>2
<1> QED
  BY <1>1, <1>2, SettlementLeavesCoverage
  DEF Next, WorkerStep, StartPass, TakeMonth, CloseAsPaid, CloseAsMissed, LeaveMonth, Reserve,
      AskProvider, SkipSettled, RecordTransfer, FinalizeCoverage, CrashWorker, Tick, BeginSettlement,
      AskForPayout, RecordSettlement, BeginPrincipalReturn, RecordPrincipalReturn, CrashCall,
      ConfirmRepayment, coverageVars

\* One step of the whole system keeps what coverage promises.
LEMMA CoverageKeptStep ==
  ASSUME Types, CoverageKept, Next
  PROVE  CoverageKept'
<1>1. replenished' \in Nat /\ replenished' >= replenished
  BY ReplenishedGrows DEF CoverageKept
<1>2. BalanceBearsReservations'
  BY <1>1, SettlementLeavesCoverage, BalanceStep, BalanceKept DEF Types, CoverageKept
<1>3. TransferTruth'
  <2>1. ASSUME UNCHANGED <<coverage, transfer, job>>
        PROVE  TransferTruth'
    BY <2>1 DEF CoverageKept, TransferTruth, AnswersAreTrue, RowsAreTrue
  <2> QED
    BY <2>1, SettlementLeavesCoverage, CoverageTruthStep DEF Types, CoverageKept
<1> QED
  BY <1>1, <1>2, <1>3 DEF CoverageKept

\* The promises hold at every state.
LEMMA CoverageKeptHolds == Spec => []CoverageKept
<1>1. Init => CoverageKept
  BY BalanceInit, CoverageTruthInit DEF Init, CoverageInit, CoverageKept
<1>2. IInv /\ CoverageKept /\ Next => CoverageKept'
  BY CoverageKeptStep DEF IInv
<1>3. IInv /\ CoverageKept /\ UNCHANGED vars => CoverageKept'
  <2>1. IInv /\ CoverageKept /\ UNCHANGED vars => BalanceBearsReservations'
    BY BalanceKept DEF IInv, Types, CoverageKept, vars, coverageVars
  <2> QED
    BY <2>1 DEF CoverageKept, TransferTruth, AnswersAreTrue, RowsAreTrue, vars, coverageVars
<1> QED
  BY <1>1, <1>2, <1>3, SettlementInvariant, PTL DEF Spec

\* Neither a settlement nor a repayment under way makes the contribution fall
\* short of what is debited and reserved.
THEOREM ContributionBearsSettlement == Spec => []BalanceBearsReservations
<1>1. CoverageKept => BalanceBearsReservations
  BY DEF CoverageKept
<1> QED
  BY <1>1, CoverageKeptHolds, PTL

\* Also on a contract being settled, moved money is accounted for and only
\* moved money covers a month.
THEOREM SettledCoverageIsReal == Spec => [](MovedMoneyIsAccountedFor /\ CoveredByRealTransfers)
<1>1. IInv /\ CoverageKept => MovedMoneyIsAccountedFor
  BY DEF IInv, Types, RowTypes, CoverageKept, TransferTruth, RowsAreTrue, MovedMoneyIsAccountedFor
<1>2. IInv /\ CoverageKept => CoveredByRealTransfers
  BY DEF IInv, Types, RowTypes, Debts, UnpaidOf, CoverageKept, TransferTruth, RowsAreTrue,
         MonthsAreTrue, CoveredByRealTransfers
<1> QED
  BY <1>1, <1>2, CoverageKeptHolds, SettlementInvariant, PTL

\* No step of a settlement settles a coverage payment again or moves its time.
THEOREM SettlementLeavesCoverageFinal == Spec => CoverageIsFinal
<1>1. IInv /\ [Next]_vars =>
        [\A i \in Instruction :
           coverage[i] \in {"Succeeded", "Failed"}
             => coverage'[i] = coverage[i] /\ coveredAt'[i] = coveredAt[i]]_coverageVars
  BY SettlementLeavesCoverage, CoverageFinalStep DEF IInv, Types, vars
<1> QED
  BY <1>1, SettlementInvariant, PTL DEF Spec, CoverageIsFinal

\* The whole system implements ResumableTransfer for the coverage payments too.
THEOREM SettledCoverageResumes == Spec => CoverageIsResumable
<1>1. Init => CoverageTransfers!TransferInit
  BY DEF Init, CoverageInit, CoverageTransfers!TransferInit
<1>2. IInv /\ CoverageKept /\ [Next]_vars =>
        [CoverageTransfers!TransferNext]_(CoverageTransfers!transferVars)
  BY SettlementLeavesCoverage, CoverageResumesStep
  DEF IInv, Types, CoverageKept, vars, coverageVars, CoverageTransfers!transferVars
<1> QED
  BY <1>1, <1>2, CoverageKeptHolds, SettlementInvariant, PTL
  DEF Spec, CoverageIsResumable, CoverageTransfers!TransferSpec

=============================================================================
