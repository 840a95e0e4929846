------------------------- MODULE TenantCoverageProofs -------------------------
(***************************************************************************)
(* Proofs that coverage settles every transfer as it really ended, for any *)
(* number of months, components, amounts and workers, and that it keeps    *)
(* the promise of ResumableTransfer.  The facts about one step are lemmas  *)
(* of their own, so that CancellationSettlementProofs can use them too.    *)
(***************************************************************************)
EXTENDS TenantCoverage, SumLemmas

-----------------------------------------------------------------------------
(* Type correctness. *)

\* A job under way has a month and holds instructions and a response.
LEMMA JobType ==
  ASSUME RowTypes, NEW w \in Workers, job[w] # Idle
  PROVE  /\ job[w] \in Job
         /\ job[w].month \in Month
         /\ job[w].rest \subseteq Instruction
         /\ job[w].asked \in Instruction \cup {Nothing}
         /\ job[w].response \in Response \cup {"none"}
  BY DEF RowTypes, Job

\* The statuses an answer can give.
LEMMA StatusType ==
  ASSUME NEW response, NEW affordable
  PROVE  CoverageStatusFor(response, affordable) \in {"Unknown", "Succeeded", "Failed"}
  BY DEF CoverageStatusFor

\* One step of coverage keeps every row in the states its column may hold.
LEMMA CoverageTypeStep ==
  ASSUME RowTypes, CoverageNext
  PROVE  RowTypes'
<1>1. ASSUME NEW w \in Workers, StartPass(w)
      PROVE  RowTypes'
  BY <1>1 DEF RowTypes, StartPass
<1>2. ASSUME NEW w \in Workers, NEW m \in Month, TakeMonth(w, m)
      PROVE  RowTypes'
  BY <1>2 DEF RowTypes, TakeMonth
<1>3. ASSUME NEW w \in Workers, CloseAsPaid(w)
      PROVE  RowTypes'
  BY <1>3 DEF RowTypes, CloseAsPaid
<1>11. ASSUME NEW w \in Workers, CloseAsMissed(w)
      PROVE  RowTypes'
  <2>1. due[w] \in Month
    BY <1>11 DEF RowTypes, CloseAsMissed
  <2>2. unpaid' \subseteq Instruction
    BY <1>11, <2>1 DEF RowTypes, CloseAsMissed, Instruction
  <2>3. contract' \in {"Active", "CancellationPending", "Cancelled"} /\ cutoff' \in Time \cup {Never}
    BY <1>11 DEF RowTypes, CloseAsMissed
  <2>4. month' \in [Month -> {"Open", "Paid", "Missed", "Covered"}] /\ unlatched' \subseteq Workers
    BY <1>11 DEF RowTypes, CloseAsMissed
  <2> QED
    BY <1>11, <2>2, <2>3, <2>4 DEF RowTypes, CloseAsMissed
<1>12. ASSUME NEW w \in Workers, LeaveMonth(w)
      PROVE  RowTypes'
  BY <1>12 DEF RowTypes, LeaveMonth
<1>4. ASSUME NEW w \in Workers, NEW m \in Month, Reserve(w, m)
      PROVE  RowTypes'
  <2>1. coverage' \in [Instruction -> {"none", "Pending", "Unknown", "Succeeded", "Failed"}]
    BY <1>4 DEF RowTypes, Reserve
  <2> DEFINE rest == {i \in UnpaidOf(m) : coverage'[i] \in {"Pending", "Unknown"}}
  <2>2. rest \subseteq Instruction
    BY DEF RowTypes, UnpaidOf
  <2>3. [month |-> m, rest |-> rest, asked |-> Nothing, response |-> "none"] \in Job
    BY <2>2 DEF Job
  <2>4. job' \in [Workers -> Job \cup {Idle}]
    BY <1>4, <2>3 DEF RowTypes, Reserve
  <2> QED
    BY <1>4, <2>1, <2>4 DEF RowTypes, Reserve
<1>5. ASSUME NEW w \in Workers, AskProvider(w)
      PROVE  RowTypes'
  <2>1. PICK i, outcome, response :
          /\ i \in job[w].rest
          /\ outcome \in Outcomes(transfer[i])
          /\ response \in Answers(outcome)
          /\ transfer' = [transfer EXCEPT ![i] = outcome]
          /\ job' = [job EXCEPT ![w].rest = @ \ {i}, ![w].asked = i, ![w].response = response]
    BY <1>5 DEF AskProvider
  <2>2. job[w] \in Job /\ i \in Instruction
    BY <1>5, <2>1, JobType DEF AskProvider
  <2>3. response \in Response
    BY <2>1 DEF Answers, Response
  <2>4. outcome \in {"none", "started", "moved", "rejected"}
    BY <2>1, <2>2 DEF Outcomes, RowTypes
  <2>5. [job[w] EXCEPT !.rest = @ \ {i}, !.asked = i, !.response = response] \in Job
    BY <2>2, <2>3 DEF Job
  <2>6. job' \in [Workers -> Job \cup {Idle}]
    BY <2>1, <2>5 DEF RowTypes
  <2> QED
    BY <1>5, <2>1, <2>2, <2>4, <2>6 DEF RowTypes, AskProvider
<1>6. ASSUME NEW w \in Workers, SkipSettled(w)
      PROVE  RowTypes'
  <2>1. PICK i \in job[w].rest : job' = [job EXCEPT ![w].rest = @ \ {i}]
    BY <1>6 DEF SkipSettled
  <2>2. [job[w] EXCEPT !.rest = @ \ {i}] \in Job
    BY <1>6, JobType DEF SkipSettled, Job
  <2> QED
    BY <1>6, <2>1, <2>2 DEF RowTypes, SkipSettled
<1>7. ASSUME NEW w \in Workers, RecordTransfer(w)
      PROVE  RowTypes'
  <2> DEFINE i == job[w].asked
             status == CoverageStatusFor(job[w].response, Amount[i] <= PostedBalance)
  <2>1. i \in Instruction /\ job[w] \in Job
    BY <1>7, JobType DEF RecordTransfer
  <2>2. status \in {"Unknown", "Succeeded", "Failed"}
    BY StatusType
  <2>3. [job[w] EXCEPT !.asked = Nothing, !.response = "none"] \in Job
    BY <2>1 DEF Job
  <2>4. job' \in [Workers -> Job \cup {Idle}]
    BY <1>7, <2>3 DEF RowTypes, RecordTransfer
  <2>5. coverage' \in [Instruction -> {"none", "Pending", "Unknown", "Succeeded", "Failed"}]
    BY <1>7, <2>1, <2>2 DEF RowTypes, RecordTransfer
  <2>6. coveredAt' \in [Instruction -> Time \cup {Never}]
    BY <1>7, <2>1 DEF RowTypes, RecordTransfer
  <2>7. exposure' \in [Instruction -> {"none", "open", "final"}]
    BY <1>7, <2>1 DEF RowTypes, RecordTransfer
  <2> QED
    BY <1>7, <2>4, <2>5, <2>6, <2>7 DEF RowTypes, RecordTransfer
<1>8. ASSUME NEW w \in Workers, FinalizeCoverage(w)
      PROVE  RowTypes'
  <2>1. month' \in [Month -> {"Open", "Paid", "Missed", "Covered"}]
    BY <1>8, JobType DEF RowTypes, FinalizeCoverage
  <2> QED
    BY <1>8, <2>1 DEF RowTypes, FinalizeCoverage
<1>9. ASSUME NEW w \in Workers, CrashWorker(w)
      PROVE  RowTypes'
  BY <1>9 DEF RowTypes, CrashWorker
<1>10. CASE Tick
  BY <1>10, ContributionAssumption DEF RowTypes, Tick, Time
<1> QED
  BY <1>1, <1>2, <1>3, <1>4, <1>5, <1>6, <1>7, <1>8, <1>9, <1>10, <1>11, <1>12
  DEF CoverageNext, WorkerStep

\* The contract begins with the columns in their initial states.
LEMMA CoverageTypeInit == CoverageInit => RowTypes
  BY ContributionAssumption DEF CoverageInit, RowTypes, Time

\* Every row keeps the states its column may hold.
LEMMA RowTypesHold == CoverageSpec => []RowTypes
<1>1. RowTypes /\ UNCHANGED coverageVars => RowTypes'
  BY DEF RowTypes, coverageVars
<1> QED
  BY <1>1, CoverageTypeInit, CoverageTypeStep, PTL DEF CoverageSpec

\* The same with the tenant's repayments, which coverage leaves alone.
THEOREM CoverageTypeCorrect == CoverageSpec => []TypeOK
<1>1. CoverageInit => replenished \in Nat
  BY DEF CoverageInit
<1>2. replenished \in Nat /\ [CoverageNext]_coverageVars => (replenished \in Nat)'
  BY DEF CoverageNext, WorkerStep, StartPass, TakeMonth, CloseAsPaid, CloseAsMissed, LeaveMonth,
         Reserve, AskProvider, SkipSettled, RecordTransfer, FinalizeCoverage, CrashWorker, Tick, coverageVars
<1>3. CoverageSpec => [](replenished \in Nat)
  BY <1>1, <1>2, PTL DEF CoverageSpec
<1>4. RowTypes /\ replenished \in Nat => TypeOK
  BY DEF TypeOK
<1> QED
  BY <1>3, <1>4, RowTypesHold, PTL

-----------------------------------------------------------------------------
(* What the rows say is what really happened. *)

\* An answer in flight is true: the provider does not take back what it did.
AnswersAreTrue ==
    \A w \in Workers :
        job[w] # Idle /\ job[w].asked # Nothing =>
            /\ job[w].response = "Confirmed" => transfer[job[w].asked] = "moved"
            /\ job[w].response = "Failed" => transfer[job[w].asked] = "rejected"

\* A row settles only as its transfer ended, and nothing is transferred before
\* its row is committed.
RowsAreTrue ==
    \A i \in Instruction :
        /\ coverage[i] = "Succeeded" => transfer[i] = "moved"
        /\ coverage[i] = "Failed" => transfer[i] = "rejected"
        /\ coverage[i] = "none" => transfer[i] = "none"

TransferTruth == AnswersAreTrue /\ RowsAreTrue

\* What a provider asked about i may do to the transfers and the answers.
LEMMA ProviderKeepsTruth ==
  ASSUME RowTypes, TransferTruth, NEW w \in Workers, AskProvider(w)
  PROVE  TransferTruth'
<1>1. PICK i, outcome, response :
        /\ i \in job[w].rest
        /\ AwaitsTransfer(i)
        /\ outcome \in Outcomes(transfer[i])
        /\ response \in Answers(outcome)
        /\ transfer' = [transfer EXCEPT ![i] = outcome]
        /\ job' = [job EXCEPT ![w].rest = @ \ {i}, ![w].asked = i, ![w].response = response]
  BY DEF AskProvider
<1>2. i \in Instruction /\ job[w] \in Job
  BY <1>1, JobType DEF AskProvider
<1>3. transfer' \in [Instruction -> {"none", "started", "moved", "rejected"}]
  BY <1>1, <1>2 DEF RowTypes, Outcomes
<1>4. \A j \in Instruction : transfer[j] \in {"moved", "rejected"} => transfer'[j] = transfer[j]
  BY <1>1, <1>2 DEF RowTypes, Outcomes
<1>5. RowsAreTrue'
  BY <1>1, <1>2, <1>4 DEF RowTypes, TransferTruth, RowsAreTrue, AskProvider, AwaitsTransfer
<1>6. AnswersAreTrue'
  <2> SUFFICES ASSUME NEW v \in Workers, job'[v] # Idle, job'[v].asked # Nothing
               PROVE  /\ job'[v].response = "Confirmed" => transfer'[job'[v].asked] = "moved"
                      /\ job'[v].response = "Failed" => transfer'[job'[v].asked] = "rejected"
    BY DEF AnswersAreTrue
  <2>1. CASE v = w
    <3>1. job'[w].asked = i /\ job'[w].response = response
      BY <1>1, <1>2 DEF RowTypes, Job
    <3>2. transfer'[i] = outcome
      BY <1>1, <1>2 DEF RowTypes
    <3> QED
      BY <2>1, <3>1, <3>2, <1>1 DEF Answers
  <2>2. CASE v # w
    <3>1. job'[v] = job[v]
      BY <1>1, <2>2 DEF RowTypes
    <3>2. job[v].asked \in Instruction
      BY <3>1, JobType
    <3> QED
      BY <1>4, <3>1, <3>2 DEF TransferTruth, AnswersAreTrue
  <2> QED
    BY <2>1, <2>2
<1> QED
  BY <1>5, <1>6 DEF TransferTruth

\* A status is recorded only on the strength of a true answer.
LEMMA RecordingKeepsTruth ==
  ASSUME RowTypes, TransferTruth, NEW w \in Workers, RecordTransfer(w)
  PROVE  TransferTruth'
<1> DEFINE i == job[w].asked
           status == CoverageStatusFor(job[w].response, Amount[i] <= PostedBalance)
<1>1. i \in Instruction /\ job[w] \in Job
  BY JobType DEF RecordTransfer
<1>2. /\ status = "Succeeded" => transfer[i] = "moved"
      /\ status = "Failed" => transfer[i] = "rejected"
      /\ status # "none"
  BY <1>1 DEF RecordTransfer, TransferTruth, AnswersAreTrue, CoverageStatusFor
<1>3. RowsAreTrue'
  BY <1>1, <1>2 DEF RowTypes, TransferTruth, RowsAreTrue, RecordTransfer
<1>4. \A v \in Workers : job'[v] # Idle /\ job'[v].asked # Nothing => job'[v] = job[v]
  BY <1>1 DEF RowTypes, RecordTransfer, Job
<1>5. AnswersAreTrue'
  BY <1>4 DEF TransferTruth, AnswersAreTrue, RecordTransfer
<1> QED
  BY <1>3, <1>5 DEF TransferTruth

\* The other steps send and settle nothing.
LEMMA CoverageTruthStep ==
  ASSUME RowTypes, TransferTruth, CoverageNext
  PROVE  TransferTruth'
<1>1. ASSUME NEW w \in Workers, NEW m \in Month, Reserve(w, m)
      PROVE  TransferTruth'
  <2>1. \A i \in Instruction : \/ coverage'[i] = coverage[i]
                               \/ coverage'[i] = "Pending"
    BY <1>1 DEF RowTypes, Reserve
  <2>2. RowsAreTrue'
    BY <1>1, <2>1 DEF TransferTruth, RowsAreTrue, Reserve
  <2>3. \A v \in Workers : job'[v] # Idle /\ job'[v].asked # Nothing => job'[v] = job[v]
    BY <1>1 DEF RowTypes, Reserve
  <2> QED
    BY <1>1, <2>2, <2>3 DEF TransferTruth, AnswersAreTrue, Reserve
<1>2. ASSUME NEW w \in Workers, SkipSettled(w)
      PROVE  TransferTruth'
  <2>1. \A v \in Workers : job'[v] # Idle /\ job'[v].asked # Nothing => job'[v] = job[v]
    BY <1>2, JobType DEF RowTypes, SkipSettled, Job
  <2> QED
    BY <1>2, <2>1 DEF TransferTruth, AnswersAreTrue, RowsAreTrue, SkipSettled
<1>3. ASSUME NEW w \in Workers, FinalizeCoverage(w) \/ CrashWorker(w)
      PROVE  TransferTruth'
  <2>1. \A v \in Workers : job'[v] # Idle => job'[v] = job[v]
    BY <1>3 DEF RowTypes, FinalizeCoverage, CrashWorker
  <2> QED
    BY <1>3, <2>1 DEF TransferTruth, AnswersAreTrue, RowsAreTrue, FinalizeCoverage, CrashWorker
<1>4. ASSUME UNCHANGED <<job, coverage, transfer>>
      PROVE  TransferTruth'
  BY <1>4 DEF TransferTruth, AnswersAreTrue, RowsAreTrue
<1> QED
  BY <1>1, <1>2, <1>3, <1>4, ProviderKeepsTruth, RecordingKeepsTruth
  DEF CoverageNext, WorkerStep, StartPass, TakeMonth, CloseAsPaid, CloseAsMissed, LeaveMonth, Tick

\* Nothing has been sent at the beginning.
LEMMA CoverageTruthInit == CoverageInit => TransferTruth
  BY DEF CoverageInit, TransferTruth, AnswersAreTrue, RowsAreTrue

\* The strengthening the properties about real money rest on.
LEMMA TransferTruthHolds == CoverageSpec => []TransferTruth
<1>1. RowTypes /\ TransferTruth /\ UNCHANGED coverageVars => TransferTruth'
  BY DEF TransferTruth, AnswersAreTrue, RowsAreTrue, coverageVars
<1> QED
  BY <1>1, CoverageTruthInit, CoverageTruthStep, RowTypesHold, PTL DEF CoverageSpec

\* Money the provider moved is never written off.
THEOREM MovedMoneyStaysAccounted == CoverageSpec => []MovedMoneyIsAccountedFor
<1>1. RowTypes /\ TransferTruth => MovedMoneyIsAccountedFor
  BY DEF RowTypes, TransferTruth, RowsAreTrue, MovedMoneyIsAccountedFor
<1> QED
  BY <1>1, TransferTruthHolds, RowTypesHold, PTL

-----------------------------------------------------------------------------
(* What is settled stays settled. *)

\* One step neither settles a settled transfer again nor moves its time.
LEMMA CoverageFinalStep ==
  ASSUME RowTypes, CoverageNext, NEW i \in Instruction, coverage[i] \in {"Succeeded", "Failed"}
  PROVE  coverage'[i] = coverage[i] /\ coveredAt'[i] = coveredAt[i]
<1>1. ASSUME NEW w \in Workers, NEW m \in Month, Reserve(w, m)
      PROVE  coverage'[i] = coverage[i] /\ coveredAt' = coveredAt
  BY <1>1 DEF RowTypes, Reserve
<1>2. ASSUME NEW w \in Workers, RecordTransfer(w)
      PROVE  coverage'[i] = coverage[i] /\ coveredAt'[i] = coveredAt[i]
  <2>1. CASE job[w].asked = i
    BY <1>2, <2>1 DEF RecordTransfer, AwaitsTransfer
  <2>2. CASE job[w].asked # i
    BY <1>2, <2>2 DEF RowTypes, RecordTransfer
  <2> QED
    BY <2>1, <2>2
<1> QED
  BY <1>1, <1>2
  DEF CoverageNext, WorkerStep, StartPass, TakeMonth, CloseAsPaid, CloseAsMissed, LeaveMonth,
      AskProvider, SkipSettled, FinalizeCoverage, CrashWorker, Tick

\* A settled transfer is not settled again by a slower worker.
THEOREM SettledCoverageIsFinal == CoverageSpec => CoverageIsFinal
<1>1. RowTypes /\ [CoverageNext]_coverageVars =>
        [\A i \in Instruction :
           coverage[i] \in {"Succeeded", "Failed"}
             => coverage'[i] = coverage[i] /\ coveredAt'[i] = coveredAt[i]]_coverageVars
  BY CoverageFinalStep
<1> QED
  BY <1>1, RowTypesHold, PTL DEF CoverageSpec, CoverageIsFinal

-----------------------------------------------------------------------------
(* Covered months. *)

\* A missed month has components to cover; a covered one has debits for all.
MonthsAreTrue ==
    \A m \in Month :
        /\ month[m] \in {"Missed", "Covered"} => UnpaidOf(m) # {}
        /\ month[m] = "Covered" => \A i \in UnpaidOf(m) : coverage[i] = "Succeeded"

\* Only the closing of a month adds to its unpaid components, and only
\* FinalizeCoverage declares it covered.
LEMMA MonthsStayTrue ==
  ASSUME RowTypes, MonthsAreTrue, CoverageNext
  PROVE  MonthsAreTrue'
<1>1. ASSUME NEW w \in Workers, CloseAsMissed(w)
      PROVE  MonthsAreTrue'
  <2>1. PICK m \in Month : /\ m = due[w]
                           /\ month' = [month EXCEPT ![m] = "Missed"]
                           /\ coverage' = coverage
    BY <1>1 DEF RowTypes, CloseAsMissed
  <2>2. CASE month[m] = "Open"
    <3>1. PICK components \in (SUBSET Kinds) \ {{}} : unpaid' = unpaid \cup ({m} \X components)
      BY <1>1, <2>1, <2>2 DEF CloseAsMissed
    <3>2. UnpaidOf(m)' # {}
      <4>1. PICK k \in components : TRUE
        BY <3>1
      <4>2. <<m, k>> \in unpaid' /\ <<m, k>>[1] = m
        BY <3>1, <4>1
      <4> QED
        BY <4>2 DEF UnpaidOf
    <3>3. \A e \in Month : e # m => UnpaidOf(e)' = UnpaidOf(e)
      BY <3>1 DEF UnpaidOf
    <3> QED
      BY <2>1, <3>2, <3>3 DEF RowTypes, MonthsAreTrue
  <2>3. CASE month[m] # "Open"
    <3>1. month[m] \in {"Missed", "Covered"}
      BY <1>1, <2>1, <2>3 DEF RowTypes, CloseAsMissed
    <3>2. \A e \in Month : UnpaidOf(e)' = UnpaidOf(e)
      BY <1>1, <2>1, <2>3 DEF UnpaidOf, CloseAsMissed
    <3> QED
      BY <2>1, <3>1, <3>2 DEF RowTypes, MonthsAreTrue
  <2> QED
    BY <2>2, <2>3
<1>2. ASSUME NEW w \in Workers, FinalizeCoverage(w)
      PROVE  MonthsAreTrue'
  <2>1. \A e \in Month : UnpaidOf(e)' = UnpaidOf(e)
    BY <1>2 DEF UnpaidOf, FinalizeCoverage
  <2>2. coverage' = coverage
    BY <1>2 DEF FinalizeCoverage
  <2>3. \A e \in Month : \/ month'[e] = month[e]
                         \/ /\ month[e] = "Missed"
                            /\ \A i \in UnpaidOf(e) : coverage[i] = "Succeeded"
    BY <1>2 DEF RowTypes, FinalizeCoverage
  <2> QED
    BY <2>1, <2>2, <2>3 DEF MonthsAreTrue
<1>3. ASSUME NEW w \in Workers, CloseAsPaid(w)
      PROVE  MonthsAreTrue'
  <2>1. \A e \in Month : UnpaidOf(e)' = UnpaidOf(e)
    BY <1>3 DEF UnpaidOf, CloseAsPaid
  <2>2. month' = [month EXCEPT ![due[w]] = "Paid"] /\ coverage' = coverage
    BY <1>3 DEF CloseAsPaid
  <2> QED
    BY <2>1, <2>2 DEF RowTypes, MonthsAreTrue
<1>4. ASSUME UNCHANGED <<month, unpaid>>
      PROVE  MonthsAreTrue'
  <2>1. \A e \in Month : UnpaidOf(e)' = UnpaidOf(e) /\ UnpaidOf(e) \subseteq Instruction
    BY <1>4 DEF RowTypes, UnpaidOf
  <2> QED
    BY <1>4, <2>1, CoverageFinalStep DEF MonthsAreTrue
<1> QED
  BY <1>1, <1>2, <1>3, <1>4
  DEF CoverageNext, WorkerStep, StartPass, TakeMonth, LeaveMonth, Reserve, AskProvider,
      SkipSettled, RecordTransfer, CrashWorker, Tick

\* A month counts as covered, and a debit is posted, only for money the
\* provider moved.
THEOREM CoverageIsReal == CoverageSpec => []CoveredByRealTransfers
<1>1. CoverageInit => MonthsAreTrue
  BY DEF CoverageInit, MonthsAreTrue
<1>2. RowTypes /\ MonthsAreTrue /\ UNCHANGED coverageVars => MonthsAreTrue'
  BY DEF MonthsAreTrue, UnpaidOf, coverageVars
<1>3. CoverageSpec => []MonthsAreTrue
  BY <1>1, <1>2, MonthsStayTrue, RowTypesHold, PTL DEF CoverageSpec
<1>4. RowTypes /\ TransferTruth /\ MonthsAreTrue => CoveredByRealTransfers
  BY DEF RowTypes, UnpaidOf, TransferTruth, RowsAreTrue, MonthsAreTrue, CoveredByRealTransfers
<1> QED
  BY <1>3, <1>4, TransferTruthHolds, RowTypesHold, PTL

-----------------------------------------------------------------------------
(* Coverage implements ResumableTransfer. *)

\* One step of coverage orders, provides or settles transfers, or leaves them
\* alone.
LEMMA CoverageResumesStep ==
  ASSUME RowTypes, TransferTruth, CoverageNext
  PROVE  [CoverageTransfers!TransferNext]_(CoverageTransfers!transferVars)
<1>1. ASSUME NEW w \in Workers, NEW m \in Month, Reserve(w, m)
      PROVE  CoverageTransfers!TransferNext
  <2> DEFINE new == {i \in UnpaidOf(m) : coverage[i] = "none"}
  <2>1. new \in SUBSET Instruction
    BY DEF RowTypes, UnpaidOf
  <2>2. CoverageTransfers!Order(new)
    BY <1>1 DEF Reserve, CoverageTransfers!Order
  <2> QED
    BY <2>1, <2>2 DEF CoverageTransfers!TransferNext
<1>2. ASSUME NEW w \in Workers, AskProvider(w)
      PROVE  CoverageTransfers!TransferNext \/ UNCHANGED <<coverage, transfer>>
  <2>1. PICK i, outcome :
          /\ i \in job[w].rest
          /\ AwaitsTransfer(i)
          /\ outcome \in Outcomes(transfer[i])
          /\ transfer' = [transfer EXCEPT ![i] = outcome]
    BY <1>2 DEF AskProvider
  <2>2. i \in Instruction
    BY <1>2, <2>1, JobType DEF AskProvider
  <2>3. CASE transfer[i] \in {"none", "started"}
    <3>1. CoverageTransfers!Provide(i)
      BY <1>2, <2>1, <2>3
      DEF AskProvider, Outcomes, AwaitsTransfer, CoverageTransfers!Provide,
          CoverageTransfers!Ordered
    <3> QED
      BY <2>2, <3>1 DEF CoverageTransfers!TransferNext
  <2>4. CASE transfer[i] \notin {"none", "started"}
    BY <1>2, <2>1, <2>2, <2>4 DEF RowTypes, AskProvider, Outcomes
  <2> QED
    BY <2>3, <2>4
<1>3. ASSUME NEW w \in Workers, RecordTransfer(w)
      PROVE  CoverageTransfers!TransferNext \/ UNCHANGED <<coverage, transfer>>
  <2> DEFINE i == job[w].asked
             status == CoverageStatusFor(job[w].response, Amount[i] <= PostedBalance)
  <2>1. i \in Instruction
    BY <1>3, JobType DEF RecordTransfer
  <2>2. CASE AwaitsTransfer(i)
    <3>1. /\ status = "Succeeded" => transfer[i] = "moved"
          /\ status = "Failed" => transfer[i] = "rejected"
          /\ status \in {"Unknown", "Succeeded", "Failed"}
      BY <1>3 DEF RecordTransfer, TransferTruth, AnswersAreTrue, CoverageStatusFor
    <3>2. coverage' = [coverage EXCEPT ![i] = status] /\ UNCHANGED transfer
      BY <1>3, <2>2 DEF RecordTransfer
    <3>3. CoverageTransfers!Settle(i)
      BY <2>2, <3>1, <3>2
      DEF AwaitsTransfer, CoverageTransfers!Settle, CoverageTransfers!Ordered
    <3> QED
      BY <2>1, <3>3 DEF CoverageTransfers!TransferNext
  <2>3. CASE ~AwaitsTransfer(i)
    BY <1>3, <2>3 DEF RecordTransfer
  <2> QED
    BY <2>2, <2>3
<1> QED
  BY <1>1, <1>2, <1>3
  DEF CoverageNext, WorkerStep, StartPass, TakeMonth, CloseAsPaid, CloseAsMissed, LeaveMonth, SkipSettled,
      FinalizeCoverage, CrashWorker, Tick, CoverageTransfers!transferVars

\* However many workers ask about it, a coverage payment is made at most once
\* and settled only as it really ended.
THEOREM CoverageResumes == CoverageSpec => CoverageIsResumable
<1>1. CoverageInit => CoverageTransfers!TransferInit
  BY DEF CoverageInit, CoverageTransfers!TransferInit
<1>2. UNCHANGED coverageVars =>
        [CoverageTransfers!TransferNext]_(CoverageTransfers!transferVars)
  BY DEF coverageVars, CoverageTransfers!transferVars
<1> QED
  BY <1>1, <1>2, CoverageResumesStep, TransferTruthHolds, RowTypesHold, PTL
  DEF CoverageSpec, CoverageIsResumable, CoverageTransfers!TransferSpec

-----------------------------------------------------------------------------
(* Sums of scheduled amounts. *)

\* A schedule has finitely many instructions.
LEMMA InstructionIsFinite == IsFiniteSet(Instruction)
<1>1. IsFiniteSet(Month)
  BY ContributionAssumption, FS_Interval DEF Month
<1> QED
  BY <1>1, ContributionAssumption, FS_Product DEF Instruction

\* Total is the sum of the scheduled amounts.
LEMMA TotalIsSum ==
  ASSUME NEW S
  PROVE  Total(S) = SumOver(Amount, S)
  BY DEF Total, SumOver

\* A set of instructions has finitely many, natural amounts.
LEMMA InstructionsAddUp ==
  ASSUME NEW S, S \subseteq Instruction
  PROVE  /\ IsFiniteSet(S)
         /\ \A i \in S : Amount[i] \in Nat
  BY InstructionIsFinite, FS_Subset, ContributionAssumption

\* A total is a natural number.
LEMMA TotalType ==
  ASSUME NEW S, S \subseteq Instruction
  PROVE  Total(S) \in Nat
  BY TotalIsSum, InstructionsAddUp, SumNat

\* Nothing costs nothing.
LEMMA TotalEmpty == Total({}) = 0
  BY TotalIsSum, SumEmpty

\* The total of two disjoint sets of instructions.
LEMMA TotalUnion ==
  ASSUME NEW S, NEW T, S \subseteq Instruction, T \subseteq Instruction, S \cap T = {}
  PROVE  Total(S \cup T) = Total(S) + Total(T)
<1>1. IsFiniteSet(S) /\ IsFiniteSet(T) /\ \A i \in S \cup T : Amount[i] \in Int
  BY InstructionsAddUp
<1> QED
  BY <1>1, TotalIsSum, SumUnion

\* The total without one instruction.
LEMMA TotalRemove ==
  ASSUME NEW S, S \subseteq Instruction, NEW i \in S
  PROVE  Total(S) = Amount[i] + Total(S \ {i})
<1>1. IsFiniteSet(S) /\ \A j \in S : Amount[j] \in Int
  BY InstructionsAddUp
<1> QED
  BY <1>1, TotalIsSum, SumRemove

\* The total with one more instruction.
LEMMA TotalAdd ==
  ASSUME NEW S, S \subseteq Instruction, NEW i \in Instruction, i \notin S
  PROVE  Total(S \cup {i}) = Total(S) + Amount[i]
<1>1. IsFiniteSet(S) /\ \A j \in S \cup {i} : Amount[j] \in Int
  BY InstructionsAddUp, ContributionAssumption
<1> QED
  BY <1>1, TotalIsSum, SumAdd

-----------------------------------------------------------------------------
(* The contribution bears what is debited and what is reserved. *)

\* Where the two totals stand after a step that neither reserves nor debits.
LEMMA BalanceKept ==
  ASSUME RowTypes, BalanceBearsReservations,
         replenished \in Nat, replenished' \in Nat, replenished' >= replenished,
         coverage' = coverage
  PROVE  BalanceBearsReservations'
<1>1. Reserved' = Reserved /\ Covered' = Covered
  BY DEF Reserved, Covered
<1>2. Total(Reserved)' = Total(Reserved) /\ Total(Covered)' = Total(Covered)
  BY <1>1
<1>3. Total(Reserved) \in Nat /\ Total(Covered) \in Nat
  BY TotalType DEF Reserved, Covered
<1> QED
  BY <1>2, <1>3, ContributionAssumption DEF BalanceBearsReservations, PostedBalance

\* A reservation asks for no more than what other reservations leave.
LEMMA ReserveKeepsBalance ==
  ASSUME RowTypes, replenished \in Nat, BalanceBearsReservations,
         NEW w \in Workers, NEW m \in Month, Reserve(w, m)
  PROVE  BalanceBearsReservations'
<1> DEFINE new == {i \in UnpaidOf(m) : coverage[i] = "none"}
<1>1. new \subseteq Instruction /\ new \cap Reserved = {} /\ Reserved \subseteq Instruction
  BY DEF RowTypes, UnpaidOf, Reserved
<1>2. Reserved' = Reserved \cup new /\ Covered' = Covered
  BY <1>1 DEF RowTypes, Reserve, Reserved, Covered
<1>3. Total(new) <= AvailableForCoverage /\ replenished' = replenished
  BY DEF Reserve
<1> HIDE DEF new
<1>4. Total(Reserved)' = Total(Reserved) + Total(new) /\ Total(Covered)' = Total(Covered)
  <2>1. Total(Reserved') = Total(Reserved) + Total(new)
    BY <1>1, <1>2, TotalUnion
  <2> QED
    BY <1>2, <2>1
<1>5. Total(Reserved) \in Nat /\ Total(Covered) \in Nat /\ Total(new) \in Nat
  BY <1>1, TotalType DEF Reserved, Covered
<1> QED
  BY <1>3, <1>4, <1>5, ContributionAssumption
  DEF BalanceBearsReservations, PostedBalance, AvailableForCoverage

\* A confirmed transfer moves its amount from the reserved to the debited, a
\* failed one gives it back.
LEMMA RecordingKeepsBalance ==
  ASSUME RowTypes, replenished \in Nat, BalanceBearsReservations,
         NEW w \in Workers, RecordTransfer(w)
  PROVE  BalanceBearsReservations'
<1> DEFINE i == job[w].asked
           status == CoverageStatusFor(job[w].response, Amount[i] <= PostedBalance)
<1>1. i \in Instruction
  BY JobType DEF RecordTransfer
<1>2. status \in {"Unknown", "Succeeded", "Failed"}
  BY StatusType
<1>3. replenished' = replenished
  BY DEF RecordTransfer
<1> HIDE DEF i, status
<1>4. CASE coverage' = coverage
  BY <1>3, <1>4, BalanceKept
<1>5. CASE i \in Reserved /\ coverage' = [coverage EXCEPT ![i] = status]
  <2>1. Reserved \subseteq Instruction /\ Covered \subseteq Instruction /\ i \notin Covered
    BY <1>5 DEF Reserved, Covered
  <2>2. Total(Reserved) = Amount[i] + Total(Reserved \ {i})
    BY <1>5, <2>1, TotalRemove
  <2>3. /\ Total(Reserved) \in Nat /\ Total(Reserved \ {i}) \in Nat
        /\ Total(Covered) \in Nat /\ Amount[i] \in Nat
    BY <1>1, <2>1, TotalType, ContributionAssumption
  <2>4. CASE status = "Succeeded"
    <3>1. Reserved' = Reserved \ {i} /\ Covered' = Covered \cup {i}
      BY <1>1, <1>5, <2>4 DEF RowTypes, Reserved, Covered
    <3>2. Total(Covered') = Total(Covered) + Amount[i]
      BY <1>1, <2>1, <3>1, TotalAdd
    <3>3. Total(Reserved)' = Total(Reserved \ {i}) /\ Total(Covered)' = Total(Covered) + Amount[i]
      BY <3>1, <3>2
    <3> QED
      BY <1>3, <2>2, <2>3, <3>3, ContributionAssumption
      DEF BalanceBearsReservations, PostedBalance
  <2>5. CASE status = "Failed"
    <3>1. Reserved' = Reserved \ {i} /\ Covered' = Covered
      BY <1>1, <1>5, <2>1, <2>5 DEF RowTypes, Reserved, Covered
    <3>2. Total(Reserved)' = Total(Reserved \ {i}) /\ Total(Covered)' = Total(Covered)
      BY <3>1
    <3> QED
      BY <1>3, <2>2, <2>3, <3>2, ContributionAssumption
      DEF BalanceBearsReservations, PostedBalance
  <2>6. CASE status = "Unknown"
    <3>1. Reserved' = Reserved /\ Covered' = Covered
      BY <1>1, <1>5, <2>1, <2>6 DEF RowTypes, Reserved, Covered
    <3>2. Total(Reserved)' = Total(Reserved) /\ Total(Covered)' = Total(Covered)
      BY <3>1
    <3> QED
      BY <1>3, <3>2 DEF BalanceBearsReservations, PostedBalance
  <2> QED
    BY <1>2, <2>4, <2>5, <2>6
<1> QED
  BY <1>1, <1>4, <1>5 DEF RecordTransfer, AwaitsTransfer, Reserved, i, status

\* The other steps of coverage neither reserve nor debit.
LEMMA BalanceStep ==
  ASSUME RowTypes, replenished \in Nat, BalanceBearsReservations, CoverageNext
  PROVE  BalanceBearsReservations'
<1>1. CASE replenished' = replenished /\ coverage' = coverage
  BY <1>1, BalanceKept
<1> QED
  BY <1>1, ReserveKeepsBalance, RecordingKeepsBalance
  DEF CoverageNext, WorkerStep, StartPass, TakeMonth, CloseAsPaid, CloseAsMissed, LeaveMonth,
      AskProvider, SkipSettled, FinalizeCoverage, CrashWorker, Tick

\* Nothing is reserved or debited at the beginning.
LEMMA BalanceInit == CoverageInit => BalanceBearsReservations
<1> SUFFICES ASSUME CoverageInit
             PROVE  BalanceBearsReservations
  OBVIOUS
<1>1. Reserved = {} /\ Covered = {} /\ replenished = 0
  BY DEF CoverageInit, Reserved, Covered
<1> QED
  BY <1>1, TotalEmpty, ContributionAssumption DEF BalanceBearsReservations, PostedBalance

\* However the coverage of several months interleaves, the contribution bears
\* all that is debited and all that is reserved.
THEOREM ContributionBearsCoverage == CoverageSpec => []BalanceBearsReservations
<1>1. TypeOK /\ BalanceBearsReservations /\ UNCHANGED coverageVars => BalanceBearsReservations'
  BY BalanceKept DEF TypeOK, coverageVars
<1>2. TypeOK /\ BalanceBearsReservations /\ CoverageNext => BalanceBearsReservations'
  BY BalanceStep DEF TypeOK
<1> QED
  BY <1>1, <1>2, BalanceInit, CoverageTypeCorrect, PTL DEF CoverageSpec

=============================================================================
