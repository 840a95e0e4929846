------------------------ MODULE ArrearsRepaymentProofs ------------------------
(***************************************************************************)
(* Proofs that a repayment restores exactly the principal of the debt that *)
(* still accrues a return, and only money the provider took, for any       *)
(* number of months, components, amounts, attempts and requests.           *)
(***************************************************************************)
EXTENDS ArrearsRepayment, TenantCoverageProofs

-----------------------------------------------------------------------------
(* The amounts of TenantArrearsPolicy. *)

\* The larger and the smaller of two integers.
LEMMA MaxOfTwo ==
  ASSUME NEW a \in Int, NEW b \in Int
  PROVE  Max({a, b}) = IF a >= b THEN a ELSE b
<1> DEFINE m == IF a >= b THEN a ELSE b
<1>1. m \in {a, b} /\ \A y \in {a, b} : m >= y
  OBVIOUS
<1>2. \A x \in {a, b} : (\A y \in {a, b} : x >= y) => x = m
  OBVIOUS
<1> HIDE DEF m
<1>3. Max({a, b}) = m
  BY <1>1, <1>2 DEF Max
<1> QED
  BY <1>3 DEF m

\* The smaller of two numbers is the minimum of their set.
LEMMA MinOfTwo ==
  ASSUME NEW a \in Int, NEW b \in Int
  PROVE  Min({a, b}) = IF a <= b THEN a ELSE b
<1> DEFINE m == IF a <= b THEN a ELSE b
<1>1. m \in {a, b} /\ \A y \in {a, b} : m <= y
  OBVIOUS
<1>2. \A x \in {a, b} : (\A y \in {a, b} : x <= y) => x = m
  OBVIOUS
<1> HIDE DEF m
<1>3. Min({a, b}) = m
  BY <1>1, <1>2 DEF Min
<1> QED
  BY <1>3 DEF m

\* What remains of an item is between nothing and the whole item.
LEMMA RemainingType ==
  ASSUME replenished \in Nat, NEW i \in Instruction
  PROVE  Remaining(i) \in 0..Amount[i]
<1> DEFINE left == replenished - Total({j \in Covered : Before(j, i)})
<1>1. left \in Int /\ Amount[i] \in Nat
  <2>1. {j \in Covered : Before(j, i)} \subseteq Instruction
    BY DEF Covered
  <2> QED
    BY <2>1, TotalType, ContributionAssumption
<1> HIDE DEF left
<1>2. Max({left, 0}) \in Nat
  BY <1>1, MaxOfTwo
<1>3. Min({Max({left, 0}), Amount[i]}) \in 0..Amount[i]
  BY <1>1, <1>2, MinOfTwo
<1> QED
  BY <1>1, <1>3 DEF Remaining, left

\* A return is a natural number.
LEMMA ReturnType ==
  ASSUME NEW amount \in Nat, NEW ticks \in Nat
  PROVE  PayableReturn(amount, ticks) \in Nat
<1>1. \A a, b \in Nat : a * b \in Nat
  OBVIOUS
<1>2. amount * 3 * 12 * ticks * TickDays \in Nat
  BY <1>1, TickAssumption
<1>3. \A n \in Nat : n \div (100 * 365) \in Nat
  OBVIOUS
<1> QED
  BY <1>2, <1>3 DEF PayableReturn

\* Two ways of writing a sum: the fold of an operator over a set is the sum of
\* the function with its values.
LEMMA PrincipalIsSum ==
  OutstandingPrincipal = SumOver([i \in Outstanding |-> Remaining(i)], Outstanding)
<1> DEFINE f == [i \in Outstanding |-> Remaining(i)]
           folds(g) == g = [s \in SUBSET Outstanding |->
                              IF s = {} THEN 0 ELSE Remaining(Pick(s)) + g[s \ {Pick(s)}]]
           g0 == CHOOSE g : folds(g)
<1>1. OutstandingPrincipal = g0[Outstanding]
  BY DEF OutstandingPrincipal, MapThenSumSet, MapThenFoldSet, Pick
<1>2. ASSUME NEW g
      PROVE  folds(g) <=> Sums(f, Outstanding, g)
  <2>1. \A s \in SUBSET Outstanding : s # {} => f[Pick(s)] = Remaining(Pick(s))
    BY PickedMember
  <2> HIDE DEF f
  <2> QED
    BY <2>1 DEF Sums
<1>3. IsFiniteSet(Outstanding)
  BY InstructionsAddUp DEF Outstanding, Covered
<1>4. PICK g : Sums(f, Outstanding, g)
  BY <1>3, SumsExist
<1> HIDE DEF f, folds
<1>5. folds(g0)
  BY <1>2, <1>4
<1> HIDE DEF g0
<1> QED
  BY <1>1, <1>2, <1>3, <1>5, SumsAreTheSum DEF f

\* The lost fund return quoted on top of the principal.
LostReturns(at) ==
    MapThenSumSet(LAMBDA i : PayableReturn(Amount[i], at - coveredAt[i]), Outstanding)

\* The lost fund return quoted is a sum over the outstanding items.
LEMMA ReturnsAreSum ==
  ASSUME NEW at
  PROVE  LostReturns(at) =
           SumOver([i \in Outstanding |-> PayableReturn(Amount[i], at - coveredAt[i])], Outstanding)
<1> DEFINE r(i) == PayableReturn(Amount[i], at - coveredAt[i])
           f == [i \in Outstanding |-> r(i)]
           folds(g) == g = [s \in SUBSET Outstanding |->
                              IF s = {} THEN 0 ELSE r(Pick(s)) + g[s \ {Pick(s)}]]
           g0 == CHOOSE g : folds(g)
<1>1. LostReturns(at) = g0[Outstanding]
  BY DEF LostReturns, MapThenSumSet, MapThenFoldSet, Pick
<1> HIDE DEF r
<1>2. ASSUME NEW g
      PROVE  folds(g) <=> Sums(f, Outstanding, g)
  <2>1. \A s \in SUBSET Outstanding : s # {} => f[Pick(s)] = r(Pick(s))
    BY PickedMember
  <2> HIDE DEF f
  <2> QED
    BY <2>1 DEF Sums
<1>3. IsFiniteSet(Outstanding)
  BY InstructionsAddUp DEF Outstanding, Covered
<1>4. PICK g : Sums(f, Outstanding, g)
  BY <1>3, SumsExist
<1> HIDE DEF f, folds
<1>5. folds(g0)
  BY <1>2, <1>4
<1> HIDE DEF g0
<1> QED
  BY <1>1, <1>2, <1>3, <1>5, SumsAreTheSum DEF f, r

\* The principal outstanding is a natural number, and that of the items
\* themselves while none of them is partly repaid.
LEMMA PrincipalType ==
  ASSUME replenished \in Nat
  PROVE  /\ OutstandingPrincipal \in Nat
         /\ (\A i \in Outstanding : Remaining(i) = Amount[i])
              => OutstandingPrincipal = Total(Outstanding)
<1> DEFINE f == [i \in Outstanding |-> Remaining(i)]
<1>1. Outstanding \subseteq Instruction /\ IsFiniteSet(Outstanding)
  BY InstructionsAddUp DEF Outstanding, Covered
<1>2. \A i \in Outstanding : f[i] = Remaining(i) /\ f[i] \in Nat /\ Amount[i] \in Nat
  BY <1>1, RemainingType, ContributionAssumption
<1> HIDE DEF f
<1>3. SumOver(f, Outstanding) \in Nat
  BY <1>1, <1>2, SumNat
<1>4. ASSUME \A i \in Outstanding : Remaining(i) = Amount[i]
      PROVE  SumOver(f, Outstanding) = Total(Outstanding)
  <2>1. SumOver(f, Outstanding) <= SumOver(Amount, Outstanding)
    BY <1>1, <1>2, <1>4, SumBound
  <2>2. SumOver(Amount, Outstanding) <= SumOver(f, Outstanding)
    BY <1>1, <1>2, <1>4, SumBound
  <2>3. SumOver(Amount, Outstanding) \in Nat
    BY <1>1, <1>2, SumNat
  <2> QED
    BY <1>3, <2>1, <2>2, <2>3, TotalIsSum
<1> QED
  BY <1>3, <1>4, PrincipalIsSum DEF f

-----------------------------------------------------------------------------
(* What the rows of a repayment are worth. *)

\* Every debit has its exposure, and the time from which its return accrues.
DebitsAreTraced ==
    \A i \in Instruction :
        /\ coverage[i] = "Succeeded" <=> exposure[i] # "none"
        /\ coverage[i] = "Succeeded" => coveredAt[i] \in Time

\* An attempt that was begun has the time of its last change, and a request is
\* about an attempt that was begun.
AttemptsAreBegun ==
    /\ \A x \in Attempts : attempt[x] # "none" => updatedAt[x] \in Time
    /\ \A r \in Requests : request[r] # Idle => attempt[request[r].attempt] # "none"

\* What counts as paid was paid, and a request that posts remembers exactly the
\* payment it has seen.
PaymentsAreReal ==
    /\ \A x \in Attempts : attempt[x] = "Succeeded" => bank[x].state = "paid"
    /\ \A r \in Requests :
         request[r] # Idle =>
             /\ request[r].stage \in {"Confirmed", "posting"}
                  => bank[request[r].attempt].state = "paid"
             /\ request[r].stage = "posting"
                  => /\ request[r].confirmed = bank[request[r].attempt].amount
                     /\ request[r].effective = bank[request[r].attempt].at

Types == RowTypes /\ replenished \in Nat /\ RepaymentTypeOK

IInv ==
    /\ Types
    /\ DebitsAreTraced
    /\ AttemptsAreBegun
    /\ PaymentsAreReal
    /\ PrincipalMatchesExposures

\* A request under way is about an attempt.
LEMMA RequestType ==
  ASSUME Types, NEW r \in Requests, request[r] # Idle
  PROVE  /\ request[r] \in RequestState
         /\ request[r].attempt \in Attempts
         /\ request[r].at \in Time
         /\ request[r].total \in Nat
         /\ request[r].effective \in Time \cup {Never}
         /\ request[r].confirmed \in Nat
  BY DEF Types, RepaymentTypeOK, RequestState

\* What the provider took has a time and an amount.
LEMMA BankType ==
  ASSUME Types, NEW x \in Attempts
  PROVE  /\ bank[x].at \in Time \cup {Never}
         /\ bank[x].amount \in Nat
         /\ bank[x].state = "paid" => bank[x].at \in Time
  BY DEF Types, RepaymentTypeOK, BankStates

\* A valid quote is a natural number and asks for at least the principal.
LEMMA QuoteType ==
  ASSUME Types, DebitsAreTraced, NEW at \in Time, QuoteIsValid(at)
  PROVE  QuoteTotal(at) \in Nat /\ QuoteTotal(at) >= OutstandingPrincipal
<1> DEFINE f == [i \in Outstanding |-> PayableReturn(Amount[i], at - coveredAt[i])]
<1>1. Outstanding \subseteq Covered /\ Outstanding \subseteq Instruction /\ IsFiniteSet(Outstanding)
  BY InstructionsAddUp DEF Outstanding, Covered
<1>2. \A i \in Outstanding : f[i] \in Nat
  <2> SUFFICES ASSUME NEW i \in Outstanding
               PROVE  f[i] \in Nat
    OBVIOUS
  <2>1. coveredAt[i] \in Time /\ coveredAt[i] <= at
    BY <1>1 DEF DebitsAreTraced, Covered, QuoteIsValid
  <2>2. at - coveredAt[i] \in Nat
    BY <2>1, ContributionAssumption DEF Time
  <2>3. Amount[i] \in Nat
    BY <1>1, ContributionAssumption
  <2> QED
    BY <2>2, <2>3, ReturnType
<1> HIDE DEF f
<1>3. SumOver(f, Outstanding) \in Nat
  BY <1>1, <1>2, SumNat
<1>4. LostReturns(at) \in Nat
  BY <1>3, ReturnsAreSum DEF f
<1>5. OutstandingPrincipal \in Nat
  BY PrincipalType DEF Types
<1>6. QuoteTotal(at) = OutstandingPrincipal + LostReturns(at)
  BY DEF QuoteTotal, LostReturns
<1> QED
  BY <1>4, <1>5, <1>6

-----------------------------------------------------------------------------
(* Types. *)

\* The initial columns.
LEMMA RepaymentTypeInit == Init => Types
  BY CoverageTypeInit
  DEF Init, CoverageInit, RepaymentInit, Types, RepaymentTypeOK, BankStates, Undecided

\* Coverage leaves the repayments alone.
LEMMA CoverageLeavesRepayments ==
  ASSUME CoverageNext
  PROVE  replenished' = replenished
  BY DEF CoverageNext, WorkerStep, StartPass, TakeMonth, CloseAsPaid, CloseAsMissed, LeaveMonth,
         Reserve, AskProvider, SkipSettled, RecordTransfer, FinalizeCoverage, CrashWorker, Tick

\* A posting adds a natural number to the contribution and only finalizes.
LEMMA PostType ==
  ASSUME Types, NEW x \in Attempts, Post(x)
  PROVE  RowTypes' /\ replenished' \in Nat /\ posted' \subseteq Attempts
<1>1. OutstandingPrincipal \in Nat
  BY PrincipalType DEF Types
<1>2. replenished' \in Nat /\ posted' \subseteq Attempts
  BY <1>1 DEF Types, RepaymentTypeOK, Post
<1>3. exposure' \in [Instruction -> {"none", "open", "final"}]
  BY DEF Types, RowTypes, Post
<1> QED
  BY <1>2, <1>3 DEF Types, RowTypes, Post

\* One step keeps every column in the values it may hold.
LEMMA RepaymentTypeStep ==
  ASSUME Types, DebitsAreTraced, Next
  PROVE  Types'
<1>1. CASE CoverageNext /\ UNCHANGED repaymentVars
  BY <1>1, CoverageTypeStep, CoverageLeavesRepayments
  DEF Types, RepaymentTypeOK, repaymentVars
<1>2. ASSUME NEW r \in Requests, NEW x \in Attempts, BeginRepayment(r, x)
      PROVE  Types'
  <2>1. now \in Time /\ QuoteTotal(now) \in Nat
    BY <1>2, QuoteType DEF Types, RowTypes, BeginRepayment
  <2>2. [attempt |-> x, at |-> now, total |-> QuoteTotal(now), stage |-> "asking",
         effective |-> Never, confirmed |-> 0] \in RequestState
    BY <2>1 DEF RequestState
  <2> DEFINE total == QuoteTotal(now)
  <2>3. /\ attempt' \in [Attempts -> {"none", "Pending", "Unknown", "Succeeded", "Failed"}]
        /\ createdAt' \in [Attempts -> Time \cup {Never}]
        /\ updatedAt' \in [Attempts -> Time \cup {Never}]
    BY <1>2, <2>1 DEF Types, RepaymentTypeOK, BeginRepayment
  <2>4. fingerprint' \in [Attempts -> SUBSET Instruction]
    <3>1. Outstanding \in SUBSET Instruction
      BY DEF Outstanding, Covered
    <3> QED
      BY <1>2, <3>1 DEF Types, RepaymentTypeOK, BeginRepayment
  <2>5. owed' \in [Attempts -> Nat]
    BY <1>2, <2>1 DEF Types, RepaymentTypeOK, BeginRepayment
  <2>6. request' \in [Requests -> RequestState \cup {Idle}]
    BY <1>2, <2>2 DEF Types, RepaymentTypeOK, BeginRepayment
  <2> QED
    BY <1>2, <2>3, <2>4, <2>5, <2>6
    DEF Types, RowTypes, RepaymentTypeOK, BeginRepayment, coverageVars
<1>3. ASSUME NEW r \in Requests, BankAnswers(r)
      PROVE  Types'
  <2>1. PICK answer \in Response : request' = [request EXCEPT ![r].stage = answer]
    BY <1>3 DEF BankAnswers
  <2>2. [request[r] EXCEPT !.stage = answer] \in RequestState
    BY <1>3, RequestType DEF BankAnswers, RequestState, Response
  <2>3. request' \in [Requests -> RequestState \cup {Idle}]
    BY <2>1, <2>2 DEF Types, RepaymentTypeOK
  <2> QED
    BY <1>3, <2>3 DEF Types, RowTypes, RepaymentTypeOK, BankAnswers, coverageVars
<1>4. ASSUME NEW r \in Requests, RecordProof(r)
      PROVE  Types'
  <2> DEFINE x == request[r].attempt
  <2>1. x \in Attempts /\ bank[x].at \in Time \cup {Never} /\ bank[x].amount \in Nat
    BY <1>4, RequestType, BankType DEF RecordProof
  <2>2. /\ attempt' = [attempt EXCEPT ![x] = "Succeeded"]
        /\ owed' = [owed EXCEPT ![x] = IF bank[x].amount = request[r].total THEN @ ELSE bank[x].amount]
        /\ updatedAt' = [updatedAt EXCEPT ![x] = IF bank[x].at = request[r].at THEN @ ELSE bank[x].at]
        /\ request' = [request EXCEPT ![r] = [@ EXCEPT !.stage = "posting", !.effective = bank[x].at,
                                                       !.confirmed = bank[x].amount]]
    BY <1>4, RequestType DEF RecordProof, Types, RepaymentTypeOK, RequestState
  <2>3. [request[r] EXCEPT !.stage = "posting", !.effective = bank[x].at,
                           !.confirmed = bank[x].amount] \in RequestState
    BY <1>4, <2>1, RequestType DEF RecordProof, RequestState
  <2>4. request' \in [Requests -> RequestState \cup {Idle}]
    BY <2>2, <2>3 DEF Types, RepaymentTypeOK
  <2>5. attempt' \in [Attempts -> {"none", "Pending", "Unknown", "Succeeded", "Failed"}]
    BY <2>1, <2>2 DEF Types, RepaymentTypeOK
  <2>6. owed' \in [Attempts -> Nat]
    BY <2>1, <2>2 DEF Types, RepaymentTypeOK
  <2>7. updatedAt' \in [Attempts -> Time \cup {Never}]
    BY <2>1, <2>2 DEF Types, RepaymentTypeOK
  <2> QED
    BY <1>4, <2>4, <2>5, <2>6, <2>7
    DEF Types, RowTypes, RepaymentTypeOK, RecordProof, coverageVars
<1>5. ASSUME NEW r \in Requests, RecordNoProof(r)
      PROVE  Types'
  BY <1>5 DEF Types, RowTypes, RepaymentTypeOK, RecordNoProof, StatusWithoutProof, coverageVars
<1>6. ASSUME NEW r \in Requests, PostByRequest(r)
      PROVE  Types'
  <2>1. request[r].attempt \in Attempts
    BY <1>6, RequestType DEF PostByRequest
  <2>2. RowTypes' /\ replenished' \in Nat /\ posted' \subseteq Attempts
    <3>1. CASE Post(request[r].attempt)
      BY <2>1, <3>1, PostType
    <3>2. CASE UNCHANGED <<coverageVars, posted>>
      BY <3>2 DEF Types, RowTypes, RepaymentTypeOK, coverageVars
    <3> QED
      BY <1>6, <3>1, <3>2 DEF PostByRequest
  <2> QED
    BY <1>6, <2>2 DEF Types, RepaymentTypeOK, PostByRequest
<1>7. ASSUME NEW r \in Requests, CrashRequest(r)
      PROVE  Types'
  BY <1>7 DEF Types, RowTypes, RepaymentTypeOK, CrashRequest, coverageVars
<1>8. ASSUME NEW x \in Attempts, BankDecides(x)
      PROVE  Types'
  <2>1. bank' \in [Attempts -> BankStates]
    BY <1>8 DEF Types, RowTypes, RepaymentTypeOK, BankDecides, BankStates, Undecided
  <2> QED
    BY <1>8, <2>1 DEF Types, RowTypes, RepaymentTypeOK, BankDecides, coverageVars
<1>9. ASSUME NEW x \in Attempts, PostByWorker(x)
      PROVE  Types'
  BY <1>9, PostType DEF Types, RepaymentTypeOK, PostByWorker
<1> QED
  BY <1>1, <1>2, <1>3, <1>4, <1>5, <1>6, <1>7, <1>8, <1>9 DEF Next, Repayments

-----------------------------------------------------------------------------
(* Debits and exposures. *)

\* How one step of coverage changes the debits: it leaves them alone, or opens
\* the exposure of one item that had none.
LEMMA CoverageDebits ==
  ASSUME RowTypes, CoverageNext
  PROVE  \/ Covered' = Covered /\ UNCHANGED <<coveredAt, exposure>>
         \/ \E i \in Instruction \ Covered :
              /\ Covered' = Covered \cup {i}
              /\ exposure' = [exposure EXCEPT ![i] = "open"]
              /\ \E t \in Time : coveredAt' = [coveredAt EXCEPT ![i] = t]
<1> DEFINE Same == Covered' = Covered /\ UNCHANGED <<coveredAt, exposure>>
           One == \E i \in Instruction \ Covered :
                    /\ Covered' = Covered \cup {i}
                    /\ exposure' = [exposure EXCEPT ![i] = "open"]
                    /\ \E t \in Time : coveredAt' = [coveredAt EXCEPT ![i] = t]
<1>1. ASSUME NEW w \in Workers, NEW m \in Month, Reserve(w, m)
      PROVE  Same
  BY <1>1 DEF RowTypes, Reserve, Covered
<1>2. ASSUME NEW w \in Workers, RecordTransfer(w)
      PROVE  Same \/ One
  <2> DEFINE i == job[w].asked
             status == CoverageStatusFor(job[w].response, Amount[i] <= PostedBalance)
  <2>1. i \in Instruction /\ pass[w] \in Time
    BY <1>2, JobType DEF RecordTransfer, RowTypes
  <2>2. status \in {"Unknown", "Succeeded", "Failed"}
    BY StatusType
  <2>3. CASE ~AwaitsTransfer(i)
    BY <1>2, <2>3 DEF RecordTransfer, Covered
  <2>4. CASE AwaitsTransfer(i) /\ status = "Succeeded"
    <3>1. /\ coverage' = [coverage EXCEPT ![i] = "Succeeded"]
          /\ coveredAt' = [coveredAt EXCEPT ![i] = pass[w]]
          /\ exposure' = [exposure EXCEPT ![i] = "open"]
      BY <1>2, <2>4 DEF RecordTransfer
    <3>2. Covered' = Covered \cup {i} /\ i \notin Covered
      BY <2>1, <2>4, <3>1 DEF RowTypes, Covered, AwaitsTransfer
    <3> HIDE DEF i, status
    <3> QED
      BY <2>1, <3>1, <3>2
  <2>5. CASE AwaitsTransfer(i) /\ status # "Succeeded"
    <3>1. coverage' = [coverage EXCEPT ![i] = status] /\ UNCHANGED <<coveredAt, exposure>>
      BY <1>2, <2>5 DEF RecordTransfer
    <3>2. Covered' = Covered
      BY <2>1, <2>5, <3>1 DEF RowTypes, Covered, AwaitsTransfer
    <3> QED
      BY <3>1, <3>2
  <2> QED
    BY <2>3, <2>4, <2>5
<1>3. ASSUME UNCHANGED <<coverage, coveredAt, exposure>>
      PROVE  Same
  BY <1>3 DEF Covered
<1> HIDE DEF Same, One
<1>4. Same \/ One
  BY <1>1, <1>2, <1>3
  DEF CoverageNext, WorkerStep, StartPass, TakeMonth, CloseAsPaid, CloseAsMissed, LeaveMonth,
      AskProvider, SkipSettled, FinalizeCoverage, CrashWorker, Tick
<1> QED
  BY <1>4 DEF Same, One

\* A posting finalizes the exposures of debits only.
LEMMA PostKeepsDebits ==
  ASSUME Types, DebitsAreTraced, NEW x \in Attempts, Post(x)
  PROVE  DebitsAreTraced'
<1>1. Outstanding \subseteq Covered
  BY DEF Outstanding
<1>2. \A i \in Instruction : exposure'[i] # "none" <=> exposure[i] # "none"
  BY <1>1 DEF Types, RowTypes, Post, DebitsAreTraced, Covered
<1> QED
  BY <1>2 DEF Post, DebitsAreTraced

\* One step keeps every debit traced.
LEMMA DebitsStep ==
  ASSUME Types, DebitsAreTraced, Next
  PROVE  DebitsAreTraced'
<1>1. CASE CoverageNext
  <2>1. DebitsAreTraced <=>
          /\ \A i \in Instruction : i \in Covered <=> exposure[i] # "none"
          /\ \A i \in Covered : coveredAt[i] \in Time
    BY DEF DebitsAreTraced, Covered
  <2>2. DebitsAreTraced' <=>
          /\ \A i \in Instruction : i \in Covered' <=> exposure'[i] # "none"
          /\ \A i \in Covered' : coveredAt'[i] \in Time
    BY DEF DebitsAreTraced, Covered
  <2>3. Covered \subseteq Instruction
    BY DEF Covered
  <2> QED
    BY <1>1, <2>1, <2>2, <2>3, CoverageDebits DEF Types, RowTypes
<1>2. ASSUME NEW r \in Requests, PostByRequest(r)
      PROVE  DebitsAreTraced'
  <2>1. CASE Post(request[r].attempt)
    BY <1>2, <2>1, RequestType, PostKeepsDebits DEF PostByRequest
  <2>2. CASE UNCHANGED coverageVars
    BY <2>2 DEF DebitsAreTraced, coverageVars
  <2> QED
    BY <1>2, <2>1, <2>2 DEF PostByRequest
<1>3. ASSUME NEW x \in Attempts, PostByWorker(x)
      PROVE  DebitsAreTraced'
  BY <1>3, PostKeepsDebits DEF PostByWorker
<1>4. CASE UNCHANGED coverageVars
  BY <1>4 DEF DebitsAreTraced, coverageVars
<1> QED
  BY <1>1, <1>2, <1>3, <1>4
  DEF Next, Repayments, BeginRepayment, BankAnswers, RecordProof, RecordNoProof, CrashRequest,
      BankDecides

-----------------------------------------------------------------------------
(* Attempts and payments. *)

\* One step begins an attempt before anything is known about it.
LEMMA AttemptsStep ==
  ASSUME Types, AttemptsAreBegun, PaymentsAreReal, Next
  PROVE  AttemptsAreBegun'
<1>1. ASSUME NEW r \in Requests, NEW x \in Attempts, BeginRepayment(r, x)
      PROVE  AttemptsAreBegun'
  <2>1. now \in Time
    BY DEF Types, RowTypes
  <2>2. /\ attempt' = [attempt EXCEPT ![x] = "Pending"]
        /\ updatedAt' = [updatedAt EXCEPT ![x] = now]
        /\ \A q \in Requests : request'[q] # Idle /\ q # r => request'[q] = request[q]
        /\ request'[r].attempt = x
    BY <1>1 DEF BeginRepayment, Types, RepaymentTypeOK
  <2> QED
    BY <2>1, <2>2 DEF AttemptsAreBegun, Types, RepaymentTypeOK
<1>2. ASSUME NEW r \in Requests, RecordProof(r)
      PROVE  AttemptsAreBegun'
  <2> DEFINE x == request[r].attempt
  <2>1. x \in Attempts /\ attempt[x] # "none" /\ bank[x].at \in Time /\ updatedAt[x] \in Time
    BY <1>2, RequestType, BankType DEF RecordProof, ProvesRepayment, AttemptsAreBegun, PaymentsAreReal
  <2>2. attempt' = [attempt EXCEPT ![x] = "Succeeded"]
    BY <1>2 DEF RecordProof
  <2>3. updatedAt'[x] \in Time /\ \A y \in Attempts : y # x => updatedAt'[y] = updatedAt[y]
    BY <1>2, <2>1 DEF RecordProof, Types, RepaymentTypeOK
  <2>4. \A q \in Requests : request'[q] # Idle =>
          request[q] # Idle /\ request'[q].attempt = request[q].attempt
    BY <1>2, RequestType DEF RecordProof, Types, RepaymentTypeOK, RequestState
  <2> QED
    BY <2>1, <2>2, <2>3, <2>4 DEF AttemptsAreBegun, Types, RepaymentTypeOK
<1>3. ASSUME NEW r \in Requests, RecordNoProof(r)
      PROVE  AttemptsAreBegun'
  <2>1. request[r].attempt \in Attempts /\ attempt[request[r].attempt] # "none"
    BY <1>3, RequestType DEF RecordNoProof, AttemptsAreBegun
  <2>2. /\ attempt' = [attempt EXCEPT ![request[r].attempt] = StatusWithoutProof(request[r].stage)]
        /\ StatusWithoutProof(request[r].stage) # "none"
        /\ \A q \in Requests : request'[q] # Idle => request'[q] = request[q]
        /\ updatedAt' = updatedAt
    BY <1>3 DEF RecordNoProof, StatusWithoutProof, Types, RepaymentTypeOK
  <2> QED
    BY <2>1, <2>2 DEF AttemptsAreBegun, Types, RepaymentTypeOK
<1>4. ASSUME NEW r \in Requests, BankAnswers(r)
      PROVE  AttemptsAreBegun'
  <2>1. \A q \in Requests : request'[q] # Idle =>
          request[q] # Idle /\ request'[q].attempt = request[q].attempt
    BY <1>4, RequestType DEF BankAnswers, Types, RepaymentTypeOK, RequestState
  <2> QED
    BY <1>4, <2>1 DEF AttemptsAreBegun, BankAnswers
<1>5. ASSUME NEW r \in Requests, PostByRequest(r) \/ CrashRequest(r)
      PROVE  AttemptsAreBegun'
  <2>1. \A q \in Requests : request'[q] # Idle => request'[q] = request[q]
    BY <1>5 DEF PostByRequest, CrashRequest, Types, RepaymentTypeOK
  <2> QED
    BY <1>5, <2>1 DEF AttemptsAreBegun, PostByRequest, CrashRequest
<1>6. CASE UNCHANGED <<attempt, updatedAt, request>>
  BY <1>6 DEF AttemptsAreBegun
<1> QED
  BY <1>1, <1>2, <1>3, <1>4, <1>5, <1>6
  DEF Next, Repayments, BankDecides, PostByWorker, repaymentVars

\* What the provider took it never takes back, so nothing that was paid stops
\* being so, and only a proof makes an attempt succeed.
LEMMA PaymentsStep ==
  ASSUME Types, PaymentsAreReal, Next
  PROVE  PaymentsAreReal'
<1>1. ASSUME NEW r \in Requests, NEW x \in Attempts, BeginRepayment(r, x)
      PROVE  PaymentsAreReal'
  <2>1. /\ attempt' = [attempt EXCEPT ![x] = "Pending"]
        /\ bank' = bank
        /\ \A q \in Requests : request'[q] # Idle /\ q # r => request'[q] = request[q]
        /\ request'[r].stage = "asking"
    BY <1>1 DEF BeginRepayment, Types, RepaymentTypeOK
  <2> QED
    BY <2>1 DEF PaymentsAreReal, Types, RepaymentTypeOK
<1>2. ASSUME NEW r \in Requests, RecordProof(r)
      PROVE  PaymentsAreReal'
  <2> DEFINE x == request[r].attempt
  <2>1. x \in Attempts /\ bank[x].state = "paid"
    BY <1>2, RequestType DEF RecordProof, ProvesRepayment, PaymentsAreReal
  <2>2. /\ attempt' = [attempt EXCEPT ![x] = "Succeeded"]
        /\ bank' = bank
        /\ \A q \in Requests : request'[q] # Idle /\ q # r => request'[q] = request[q]
        /\ request'[r].attempt = x
        /\ request'[r].confirmed = bank[x].amount
        /\ request'[r].effective = bank[x].at
    BY <1>2, RequestType DEF RecordProof, Types, RepaymentTypeOK, RequestState
  <2> QED
    BY <2>1, <2>2 DEF PaymentsAreReal, Types, RepaymentTypeOK
<1>3. ASSUME NEW r \in Requests, RecordNoProof(r)
      PROVE  PaymentsAreReal'
  <2>1. /\ \A y \in Attempts : attempt'[y] = "Succeeded" => attempt[y] = "Succeeded"
        /\ bank' = bank
        /\ \A q \in Requests : request'[q] # Idle => request'[q] = request[q]
    BY <1>3, RequestType DEF RecordNoProof, StatusWithoutProof, Types, RepaymentTypeOK
  <2> QED
    BY <2>1 DEF PaymentsAreReal
<1>4. ASSUME NEW r \in Requests, BankAnswers(r)
      PROVE  PaymentsAreReal'
  <2>1. PICK answer \in Response :
          /\ answer = "Confirmed" => bank[request[r].attempt].state = "paid"
          /\ request' = [request EXCEPT ![r].stage = answer]
    BY <1>4 DEF BankAnswers
  <2>2. /\ attempt' = attempt /\ bank' = bank
        /\ \A q \in Requests : request'[q] # Idle /\ q # r => request'[q] = request[q]
        /\ request'[r].attempt = request[r].attempt
        /\ request'[r].stage = answer
    BY <1>4, <2>1, RequestType DEF BankAnswers, Types, RepaymentTypeOK, RequestState
  <2> QED
    BY <2>1, <2>2 DEF PaymentsAreReal, Response
<1>5. ASSUME NEW r \in Requests, PostByRequest(r) \/ CrashRequest(r)
      PROVE  PaymentsAreReal'
  <2>1. \A q \in Requests : request'[q] # Idle => request'[q] = request[q]
    BY <1>5 DEF PostByRequest, CrashRequest, Types, RepaymentTypeOK
  <2> QED
    BY <1>5, <2>1 DEF PaymentsAreReal, PostByRequest, CrashRequest
<1>6. ASSUME NEW x \in Attempts, BankDecides(x)
      PROVE  PaymentsAreReal'
  <2>1. \A y \in Attempts : bank[y].state = "paid" => bank'[y] = bank[y]
    BY <1>6 DEF BankDecides, Undecided, Types, RepaymentTypeOK
  <2> QED
    BY <1>6, <2>1, RequestType DEF PaymentsAreReal, BankDecides
<1>7. CASE UNCHANGED <<attempt, bank, request>>
  BY <1>7 DEF PaymentsAreReal
<1> QED
  BY <1>1, <1>2, <1>3, <1>4, <1>5, <1>6, <1>7 DEF Next, Repayments, PostByWorker, repaymentVars

-----------------------------------------------------------------------------
(* The two accounts of the debt. *)

OpenItems == {i \in Instruction : exposure[i] = "open"}

\* The balance of the two accounts, in the form the steps change it.
LEMMA PrincipalMatchesIff ==
  /\ PrincipalMatchesExposures <=> Total(Covered) - replenished = Total(OpenItems)
  /\ PrincipalMatchesExposures'
       <=> Total(Covered)' - replenished' = Total(OpenItems)'
  BY DEF PrincipalMatchesExposures, OpenItems

\* A debit adds its amount to both accounts.
LEMMA CoverageKeepsAccounts ==
  ASSUME Types, DebitsAreTraced, PrincipalMatchesExposures, CoverageNext
  PROVE  PrincipalMatchesExposures'
<1>1. replenished' = replenished
  BY CoverageLeavesRepayments
<1>2. Covered \subseteq Instruction /\ OpenItems \subseteq Instruction /\ OpenItems \subseteq Covered
  BY DEF Covered, OpenItems, DebitsAreTraced
<1>3. Total(Covered) \in Nat /\ Total(OpenItems) \in Nat /\ replenished \in Nat
  BY <1>2, TotalType DEF Types
<1>4. CASE Covered' = Covered /\ exposure' = exposure
  <2>1. OpenItems' = OpenItems
    BY <1>4 DEF OpenItems
  <2>2. Total(Covered)' = Total(Covered) /\ Total(OpenItems)' = Total(OpenItems)
    BY <1>4, <2>1
  <2> QED
    BY <1>1, <2>2, PrincipalMatchesIff
<1>5. ASSUME NEW i \in Instruction \ Covered,
             Covered' = Covered \cup {i}, exposure' = [exposure EXCEPT ![i] = "open"]
      PROVE  PrincipalMatchesExposures'
  <2>1. OpenItems' = OpenItems \cup {i} /\ i \notin OpenItems
    BY <1>2, <1>5 DEF OpenItems, Types, RowTypes
  <2>2. /\ Total(Covered \cup {i}) = Total(Covered) + Amount[i]
        /\ Total(OpenItems \cup {i}) = Total(OpenItems) + Amount[i]
    BY <1>2, <2>1, TotalAdd
  <2>3. /\ Total(Covered)' = Total(Covered) + Amount[i]
        /\ Total(OpenItems)' = Total(OpenItems) + Amount[i]
    BY <1>5, <2>1, <2>2
  <2>4. Amount[i] \in Nat
    BY ContributionAssumption
  <2> QED
    BY <1>1, <1>3, <2>3, <2>4, PrincipalMatchesIff
<1> QED
  BY <1>4, <1>5, CoverageDebits DEF Types

\* A posting clears both accounts: all the evidence is final but that of the
\* items it pays, each of them whole.
LEMMA PostKeepsAccounts ==
  ASSUME Types, DebitsAreTraced, PrincipalMatchesExposures,
         NEW x \in Attempts, NEW amount, NEW effective, Clears(amount, effective), Post(x)
  PROVE  PrincipalMatchesExposures'
<1>1. Outstanding \subseteq Covered /\ Covered \subseteq Instruction /\ OpenItems \subseteq Covered
  BY DEF Outstanding, Covered, OpenItems, DebitsAreTraced
<1>2. OpenItems = Outstanding
  BY <1>1 DEF Clears, QuoteIsValid, EvidenceIsComplete, OpenItems, Covered
<1>3. OutstandingPrincipal = Total(OpenItems) /\ OutstandingPrincipal \in Nat
  BY <1>2, PrincipalType DEF Types, Clears, QuoteIsValid
<1>4. OpenItems' = {} /\ Covered' = Covered
  BY <1>1, <1>2 DEF Post, OpenItems, Covered
<1>5. Total(OpenItems)' = 0 /\ Total(Covered)' = Total(Covered)
  BY <1>4, TotalEmpty
<1>6. replenished' = replenished + OutstandingPrincipal
  BY DEF Post
<1>7. Total(Covered) \in Nat /\ replenished \in Nat
  BY <1>1, TotalType DEF Types
<1> QED
  BY <1>3, <1>5, <1>6, <1>7, PrincipalMatchesIff

\* The accounts of an unchanged debt.
LEMMA AccountsKept ==
  ASSUME PrincipalMatchesExposures, UNCHANGED coverageVars
  PROVE  PrincipalMatchesExposures'
<1>1. Covered' = Covered /\ OpenItems' = OpenItems /\ replenished' = replenished
  BY DEF coverageVars, Covered, OpenItems
<1>2. Total(Covered)' = Total(Covered) /\ Total(OpenItems)' = Total(OpenItems)
  BY <1>1
<1> QED
  BY <1>1, <1>2, PrincipalMatchesIff

\* One step keeps the two accounts equal.
LEMMA AccountsStep ==
  ASSUME Types, DebitsAreTraced, PrincipalMatchesExposures, Next
  PROVE  PrincipalMatchesExposures'
<1>1. ASSUME NEW r \in Requests, PostByRequest(r)
      PROVE  PrincipalMatchesExposures'
  <2>1. request[r].attempt \in Attempts
    BY <1>1, RequestType DEF PostByRequest
  <2>2. CASE /\ Clears(request[r].confirmed, request[r].effective)
             /\ Post(request[r].attempt)
    BY <2>1, <2>2, PostKeepsAccounts
  <2>3. CASE UNCHANGED coverageVars
    BY <2>3, AccountsKept
  <2> QED
    BY <1>1, <2>2, <2>3 DEF PostByRequest
<1>2. ASSUME NEW x \in Attempts, PostByWorker(x)
      PROVE  PrincipalMatchesExposures'
  BY <1>2, PostKeepsAccounts DEF PostByWorker
<1>3. CASE UNCHANGED coverageVars
  BY <1>3, AccountsKept
<1> QED
  BY <1>1, <1>2, <1>3, CoverageKeepsAccounts
  DEF Next, Repayments, BeginRepayment, BankAnswers, RecordProof, RecordNoProof, CrashRequest,
      BankDecides

-----------------------------------------------------------------------------
(* The theorems. *)

\* Nothing has been covered, quoted or posted at the start.
LEMMA IInvInit == Init => IInv
<1> SUFFICES ASSUME Init
             PROVE  IInv
  OBVIOUS
<1>1. DebitsAreTraced /\ AttemptsAreBegun /\ PaymentsAreReal
  BY DEF Init, CoverageInit, RepaymentInit, DebitsAreTraced, AttemptsAreBegun, PaymentsAreReal
<1>2. Covered = {} /\ OpenItems = {} /\ replenished = 0
  BY DEF Init, CoverageInit, Covered, OpenItems
<1>3. PrincipalMatchesExposures
  BY <1>2, TotalEmpty, PrincipalMatchesIff
<1> QED
  BY <1>1, <1>3, RepaymentTypeInit DEF IInv

\* Every step of a coverage or of a repayment keeps the invariant.
LEMMA IInvStep == IInv /\ [Next]_vars => IInv'
<1>1. ASSUME IInv, Next
      PROVE  IInv'
  BY <1>1, RepaymentTypeStep, DebitsStep, AttemptsStep, PaymentsStep, AccountsStep DEF IInv
<1>2. ASSUME IInv, UNCHANGED vars
      PROVE  IInv'
  <2>1. UNCHANGED coverageVars /\ UNCHANGED repaymentVars
    BY <1>2 DEF vars
  <2>2. Types' /\ DebitsAreTraced'
    BY <1>2, <2>1
    DEF IInv, Types, RowTypes, RepaymentTypeOK, DebitsAreTraced, coverageVars, repaymentVars
  <2>3. AttemptsAreBegun' /\ PaymentsAreReal'
    BY <1>2, <2>1 DEF IInv, AttemptsAreBegun, PaymentsAreReal, repaymentVars
  <2> QED
    BY <1>2, <2>1, <2>2, <2>3, AccountsKept DEF IInv
<1> QED
  BY <1>1, <1>2

\* The inductive invariant.
THEOREM RepaymentInvariant == Spec => []IInv
  BY IInvInit, IInvStep, PTL DEF Spec

\* Every row of a repayment keeps the values its columns may hold: a quote is
\* always a natural number of rial.
THEOREM RepaymentTypeCorrect == Spec => []RepaymentTypeOK
<1>1. IInv => RepaymentTypeOK
  BY DEF IInv, Types
<1> QED
  BY <1>1, RepaymentInvariant, PTL

\* The principal that replenishments leave unpaid is always the principal of
\* the exposures that still accrue a return.
THEOREM AccountsAgree == Spec => []PrincipalMatchesExposures
<1>1. IInv => PrincipalMatchesExposures
  BY DEF IInv
<1> QED
  BY <1>1, RepaymentInvariant, PTL

\* What a posting restores belongs to one new payment that was really made.
LEMMA PostIsPaid ==
  ASSUME IInv, NEW x \in Attempts \ posted, NEW amount, NEW effective \in Time,
         Clears(amount, effective), Post(x), bank[x].state = "paid",
         amount = bank[x].amount \/ amount = owed[x]
  PROVE  \E y \in Attempts \ posted :
             /\ posted' = posted \cup {y}
             /\ bank[y].state = "paid"
             /\ owed[y] = bank[y].amount => replenished' - replenished <= bank[y].amount
<1>1. QuoteTotal(effective) \in Nat /\ QuoteTotal(effective) >= OutstandingPrincipal
  BY QuoteType DEF IInv, Clears
<1>2. OutstandingPrincipal \in Nat /\ replenished \in Nat
  BY PrincipalType DEF IInv, Types
<1>3. replenished' - replenished = OutstandingPrincipal /\ posted' = posted \cup {x}
  BY <1>2 DEF Post
<1>4. amount = QuoteTotal(effective)
  BY DEF Clears
<1> QED
  BY <1>1, <1>2, <1>3, <1>4

\* However many requests and workers race to post a repayment, each posting
\* belongs to a payment that was made and never posted before, and restores no
\* more than was paid unless the row was overwritten.
THEOREM ReplenishmentsAreReal == Spec => ReplenishedByRealPayments
<1> DEFINE Real == \E y \in Attempts \ posted :
                       /\ posted' = posted \cup {y}
                       /\ bank[y].state = "paid"
                       /\ owed[y] = bank[y].amount => replenished' - replenished <= bank[y].amount
<1>1. ASSUME IInv, NEW r \in Requests, PostByRequest(r), replenished' # replenished
      PROVE  Real
  <2>1. /\ request[r].attempt \in Attempts \ posted
        /\ Clears(request[r].confirmed, request[r].effective)
        /\ Post(request[r].attempt)
    BY <1>1, RequestType DEF IInv, PostByRequest, coverageVars
  <2>2. /\ bank[request[r].attempt].state = "paid"
        /\ request[r].confirmed = bank[request[r].attempt].amount
        /\ request[r].effective \in Time
    BY <1>1, <2>1, BankType DEF IInv, PostByRequest, PaymentsAreReal
  <2> QED
    BY <1>1, <2>1, <2>2, PostIsPaid
<1>2. ASSUME IInv, NEW x \in Attempts, PostByWorker(x)
      PROVE  Real
  <2>1. bank[x].state = "paid" /\ updatedAt[x] \in Time
    BY <1>2 DEF IInv, PostByWorker, PaymentsAreReal, AttemptsAreBegun
  <2> QED
    BY <1>2, <2>1, PostIsPaid DEF PostByWorker
<1> HIDE DEF Real
<1>3. IInv /\ [Next]_vars /\ replenished' # replenished => Real
  BY <1>1, <1>2, CoverageLeavesRepayments
  DEF Next, Repayments, BeginRepayment, BankAnswers, RecordProof, RecordNoProof, CrashRequest,
      BankDecides, coverageVars, vars
<1>4. IInv /\ [Next]_vars =>
        [replenished' # replenished =>
           \E x \in Attempts \ posted :
               /\ posted' = posted \cup {x}
               /\ bank[x].state = "paid"
               /\ owed[x] = bank[x].amount => replenished' - replenished <= bank[x].amount]_vars
  BY <1>3 DEF Real
<1> QED
  BY <1>4, RepaymentInvariant, PTL DEF Spec, ReplenishedByRealPayments

\* Neither do repayments make the contribution fall short of what coverage has
\* debited and reserved.
THEOREM ContributionBearsRepayments == Spec => []BalanceBearsReservations
<1>1. Init => BalanceBearsReservations
  BY BalanceInit DEF Init
<1>2. ASSUME IInv, IInv', BalanceBearsReservations, [Next]_vars
      PROVE  BalanceBearsReservations'
  <2>1. CASE CoverageNext
    BY <1>2, <2>1, BalanceStep DEF IInv, Types
  <2>2. CASE coverage' = coverage /\ replenished' >= replenished
    BY <1>2, <2>2, BalanceKept DEF IInv, Types
  <2>3. ASSUME NEW x \in Attempts, Post(x)
        PROVE  coverage' = coverage /\ replenished' >= replenished
    BY <1>2, <2>3, PrincipalType DEF IInv, Types, Post
  <2>4. CASE UNCHANGED coverageVars
    BY <1>2, <2>2, <2>4 DEF IInv, Types, coverageVars
  <2>5. ASSUME NEW r \in Requests, PostByRequest(r)
        PROVE  coverage' = coverage /\ replenished' >= replenished
    BY <1>2, <2>3, <2>5, RequestType DEF IInv, Types, PostByRequest, coverageVars
  <2> QED
    BY <1>2, <2>1, <2>2, <2>3, <2>4, <2>5
    DEF Next, Repayments, BeginRepayment, BankAnswers, RecordProof, RecordNoProof, CrashRequest,
        BankDecides, PostByWorker, vars
<1> QED
  BY <1>1, <1>2, RepaymentInvariant, PTL DEF Spec

=============================================================================
