-------------------------- MODULE FundingCaseProofs --------------------------
(***************************************************************************)
(* What holds of a credit application for every set of overlapping requests. *)
(* The application's status is of no help in these proofs: a request that    *)
(* knows an old status writes it over. What does carry them is that a        *)
(* provider's decision stands, and that each request remembers what was true *)
(* when it asked (RequestsAreBacked).                                        *)
(***************************************************************************)
EXTENDS FundingCase, TLAPS

\* An answer that decides is the provider's verdict.
AnswerIsVerdict(r) ==
  LET q == request[r].question IN
  request[r].at = "record" /\ request[r].answer \in Final(q) =>
    verdict[q] = request[r].answer

\* What a request relies on after the transaction that has checked it.
RequestIsBacked(r) ==
  /\ request[r].at \in {"capture", "finalize"} =>
       verdict["PropertyContract"] = "Confirmed"
  /\ request[r].at \in {"ask", "record"} /\ request[r].question = "BankApproval" =>
       file.planned /\ file.terms /\ verdict["CreditEligibility"] = "Valid"
  /\ request[r].at = "freeze" => file.allocation
  /\ request[r].at \in {"ask", "record"} /\ request[r].question = "PrincipalFreeze" =>
       file.allocation
  /\ request[r].at \in {"ask", "record"} /\ request[r].question = "TenantContribution" =>
       file.principal

RequestsAreBacked == \A r \in Requests : AnswerIsVerdict(r) /\ RequestIsBacked(r)

\* What the stored rows say was decided.
RowsAreBacked ==
  /\ status = "PlanSelectionPending" => verdict["Identity"] = "Verified"
  /\ file.planned => verdict["Identity"] = "Verified"
  /\ file.terms => verdict["PropertyContract"] = "Confirmed"
  /\ file.grade = "Valid" => verdict["CreditEligibility"] = "Valid"
  /\ file.contribution => file.deposit = "Succeeded"

FundingInv ==
  /\ FundingTypeOK
  /\ RequestsAreBacked /\ RowsAreBacked
  /\ EveryGateWasPassed /\ ActiveLeaseIsFunded

-----------------------------------------------------------------------------
(* Type correctness. *)

\* What a provider may answer.
LEMMA AnswersTo ==
  ASSUME NEW q \in Questions
  PROVE  Final(q) \subseteq Answers /\ Tentative(q) \subseteq Answers
  BY DEF Answers

\* The answers the services compare with or write themselves.
LEMMA NamedAnswers ==
  {"Verified", "NeedsDocuments", "Confirmed", "Indeterminate", "Valid", "Unknown",
   "Approved", "Declined"} \subseteq Answers
<1>1. {"Verified", "NeedsDocuments"} \subseteq Answers
  BY AnswersTo, "Identity" \in Questions DEF Final, Questions
<1>2. {"Valid", "Unknown"} \subseteq Answers
  BY AnswersTo, "CreditEligibility" \in Questions DEF Final, Tentative, Questions
<1>3. {"Approved", "Declined", "Indeterminate"} \subseteq Answers
  BY AnswersTo, "BankApproval" \in Questions DEF Final, Tentative, Questions
<1>4. "Confirmed" \in Answers
  BY AnswersTo, "PropertyContract" \in Questions DEF Final, Questions
<1> QED
  BY <1>1, <1>2, <1>3, <1>4

\* Where a request stands when it begins to ask, and when it has ended.
LEMMA AskedType ==
  ASSUME FundingTypeOK, NEW r \in Requests, NEW q \in Questions, NEW s \in Statuses,
         NEW row \in Answers \cup {"none", "Pending", "PendingSnapshot"}, Asks(r, q, s, row)
  PROVE  request' \in [Requests -> RequestStates]
  BY DEF FundingTypeOK, Asks, RequestStates

\* A request that has ended is idle.
LEMMA EndedType ==
  ASSUME FundingTypeOK, NEW r \in Requests, Ends(r)
  PROVE  request' \in [Requests -> RequestStates]
  BY DEF FundingTypeOK, Ends, Idle, RequestStates, Questions, Statuses

\* A step of one request keeps every column in the values it may hold.
LEMMA TypeStepOfRequest ==
  ASSUME FundingTypeOK, NEW r \in Requests, RequestStep(r)
  PROVE  FundingTypeOK'
<1> USE NamedAnswers
<1>0. /\ status \in Statuses /\ file \in Files
      /\ verdict \in [Questions -> Answers \cup {"open"}]
      /\ request \in [Requests -> RequestStates] /\ request[r] \in RequestStates
  BY DEF FundingTypeOK
<1>1. CASE IdentityBegins(r)
  <2>1. file' \in Files
    BY <1>0, <1>1 DEF IdentityBegins, IfNone, Files
  <2>2. request' \in [Requests -> RequestStates]
    BY <1>0, <1>1, AskedType DEF IdentityBegins, IfNone, Files, Questions
  <2> QED
    BY <1>0, <1>1, <2>1, <2>2 DEF IdentityBegins, FundingTypeOK
<1>2. CASE IdentityRecorded(r)
  <2>1. file' \in Files
    BY <1>0, <1>2 DEF IdentityRecorded, Written, Files, RequestStates
  <2>2. request' \in [Requests -> RequestStates]
    BY <1>2, EndedType DEF IdentityRecorded
  <2>3. status' \in Statuses
    BY <1>0, <1>2 DEF IdentityRecorded, Statuses
  <2> QED
    BY <1>0, <1>2, <2>1, <2>2, <2>3 DEF IdentityRecorded, FundingTypeOK
<1>3. CASE PropertyContractBegins(r)
  <2>1. file' \in Files
    BY <1>0, <1>3 DEF PropertyContractBegins, IfNone, Files
  <2>2. request' \in [Requests -> RequestStates]
    BY <1>0, <1>3, AskedType DEF PropertyContractBegins, IfNone, Files, Questions
  <2> QED
    BY <1>0, <1>3, <2>1, <2>2 DEF PropertyContractBegins, FundingTypeOK
<1>4. CASE EvidenceNotConfirmed(r)
  <2>1. file' \in Files
    BY <1>0, <1>4 DEF EvidenceNotConfirmed, Written, Files, RequestStates
  <2>2. request' \in [Requests -> RequestStates]
    BY <1>4, EndedType DEF EvidenceNotConfirmed
  <2>3. status' \in Statuses
    BY <1>0, <1>4 DEF EvidenceNotConfirmed, Statuses
  <2> QED
    BY <1>0, <1>4, <2>1, <2>2, <2>3 DEF EvidenceNotConfirmed, FundingTypeOK
<1>5. CASE LeaseDrafted(r)
  <2>1. file' \in Files
    BY ZenonT(30), <1>0, <1>5 DEF LeaseDrafted, Written, Files, RequestStates
  <2>2. request' \in [Requests -> RequestStates]
    BY <1>0, <1>5 DEF LeaseDrafted, RequestStates, Statuses
  <2>3. status' \in Statuses
    BY <1>0, <1>5 DEF LeaseDrafted, Statuses
  <2> QED
    BY <1>0, <1>5, <2>1, <2>2, <2>3 DEF LeaseDrafted, FundingTypeOK
<1>6. CASE LeaseInTheWay(r)
  BY <1>0, <1>6, EndedType DEF LeaseInTheWay, FundingTypeOK
<1>7. CASE TermsCaptured(r)
  <2>1. file' \in Files
    BY <1>0, <1>7 DEF TermsCaptured, Written, Files, RequestStates
  <2>2. request' \in [Requests -> RequestStates]
    BY <1>0, <1>7 DEF TermsCaptured, RequestStates, Statuses
  <2>3. status' \in Statuses
    BY <1>0, <1>7 DEF TermsCaptured, Statuses
  <2> QED
    BY <1>0, <1>7, <2>1, <2>2, <2>3 DEF TermsCaptured, FundingTypeOK
<1>8. CASE RegistrationFinalized(r)
  <2>1. file' \in Files
    BY <1>0, <1>8 DEF RegistrationFinalized, Written, Files, RequestStates
  <2>2. request' \in [Requests -> RequestStates]
    BY <1>8, EndedType DEF RegistrationFinalized
  <2>3. status' \in Statuses
    BY <1>0, <1>8 DEF RegistrationFinalized, Statuses
  <2> QED
    BY <1>0, <1>8, <2>1, <2>2, <2>3 DEF RegistrationFinalized, FundingTypeOK
<1>9. CASE CreditEligibilityBegins(r)
  <2>1. file' \in Files
    BY <1>0, <1>9 DEF CreditEligibilityBegins, IfNone, Files
  <2>2. request' \in [Requests -> RequestStates]
    BY <1>0, <1>9, AskedType DEF CreditEligibilityBegins, IfNone, Files, Questions
  <2> QED
    BY <1>0, <1>9, <2>1, <2>2 DEF CreditEligibilityBegins, FundingTypeOK
<1>10. CASE CreditEligibilityRecorded(r)
  <2>1. file' \in Files
    BY <1>0, <1>10 DEF CreditEligibilityRecorded, Written, Files, RequestStates
  <2>2. request' \in [Requests -> RequestStates]
    BY <1>10, EndedType DEF CreditEligibilityRecorded
  <2>3. status' \in Statuses
    BY <1>0, <1>10 DEF CreditEligibilityRecorded, Statuses
  <2> QED
    BY <1>0, <1>10, <2>1, <2>2, <2>3 DEF CreditEligibilityRecorded, FundingTypeOK
<1>11. CASE BankFundingBegins(r)
  <2>1. file' \in Files
    BY <1>0, <1>11 DEF BankFundingBegins, IfNone, Files
  <2>2. Resumed \in Statuses
    BY <1>0 DEF Resumed, Statuses
  <2>3. IfNone(file.approval, "Indeterminate") \in Answers
    BY <1>0 DEF IfNone, Files
  <2>4. request' \in [Requests -> RequestStates]
    BY <1>0, <1>11, <2>2, <2>3 DEF BankFundingBegins, RequestStates, Questions
  <2> QED
    BY <1>0, <1>11, <2>1, <2>2, <2>4 DEF BankFundingBegins, FundingTypeOK
<1>12. CASE BankDeclines(r)
  <2>1. file' \in Files
    BY <1>0, <1>12 DEF BankDeclines, Written, Files, RequestStates
  <2>2. request' \in [Requests -> RequestStates]
    BY <1>12, EndedType DEF BankDeclines
  <2>3. status' \in Statuses
    BY <1>0, <1>12 DEF BankDeclines, Statuses
  <2> QED
    BY <1>0, <1>12, <2>1, <2>2, <2>3 DEF BankDeclines, FundingTypeOK
<1>13. CASE BankUndecided(r)
  <2>1. file' \in Files
    BY <1>0, <1>13 DEF BankUndecided, Written, Files, RequestStates
  <2>2. request' \in [Requests -> RequestStates]
    BY <1>13, EndedType DEF BankUndecided
  <2>3. status' \in Statuses
    BY <1>0, <1>13 DEF BankUndecided, Statuses
  <2> QED
    BY <1>0, <1>13, <2>1, <2>2, <2>3 DEF BankUndecided, FundingTypeOK
<1>14. CASE BankApproves(r)
  <2>1. file' \in Files
    BY <1>0, <1>14 DEF BankApproves, Written, Files, RequestStates
  <2>2. request' \in [Requests -> RequestStates]
    BY <1>0, <1>14 DEF BankApproves, RequestStates, Statuses
  <2>3. status' \in Statuses
    BY <1>0, <1>14 DEF BankApproves, Statuses
  <2> QED
    BY <1>0, <1>14, <2>1, <2>2, <2>3 DEF BankApproves, FundingTypeOK
<1>15. CASE AllocatedMeanwhile(r)
  BY <1>0, <1>15, EndedType DEF AllocatedMeanwhile, FundingTypeOK
<1>16. CASE FreezeBegins(r)
  <2>1. file' \in Files
    BY <1>0, <1>16 DEF FreezeBegins, IfNone, Files
  <2>2. request' \in [Requests -> RequestStates]
    BY <1>0, <1>16, AskedType DEF FreezeBegins, IfNone, Files, Questions, Statuses
  <2> QED
    BY <1>0, <1>16, <2>1, <2>2 DEF FreezeBegins, FundingTypeOK
<1>17. CASE FreezeRefused(r)
  BY <1>0, <1>17, EndedType DEF FreezeRefused, FundingTypeOK
<1>18. CASE FreezeConfirmed(r)
  <2>1. file' \in Files
    BY <1>0, <1>18 DEF FreezeConfirmed, Written, Files, RequestStates
  <2>2. request' \in [Requests -> RequestStates]
    BY <1>18, EndedType DEF FreezeConfirmed
  <2>3. status' \in Statuses
    BY <1>0, <1>18 DEF FreezeConfirmed, Statuses
  <2> QED
    BY <1>0, <1>18, <2>1, <2>2, <2>3 DEF FreezeConfirmed, FundingTypeOK
<1>19. CASE FreezeUndecided(r)
  <2>1. file' \in Files
    BY <1>0, <1>19 DEF FreezeUndecided, Written, Files, RequestStates
  <2>2. request' \in [Requests -> RequestStates]
    BY <1>19, EndedType DEF FreezeUndecided
  <2>3. status' \in Statuses
    BY <1>0, <1>19 DEF FreezeUndecided, Statuses
  <2> QED
    BY <1>0, <1>19, <2>1, <2>2, <2>3 DEF FreezeUndecided, FundingTypeOK
<1>20. CASE TenantContributionBegins(r)
  <2>1. file' \in Files
    BY <1>0, <1>20 DEF TenantContributionBegins, IfNone, Files
  <2>2. request' \in [Requests -> RequestStates]
    BY <1>0, <1>20, AskedType DEF TenantContributionBegins, IfNone, Files, Questions
  <2> QED
    BY <1>0, <1>20, <2>1, <2>2 DEF TenantContributionBegins, FundingTypeOK
<1>21. CASE ContributionPosted(r)
  <2>1. file' \in Files
    BY <1>0, <1>21 DEF ContributionPosted, Written, Files, RequestStates
  <2>2. request' \in [Requests -> RequestStates]
    BY <1>21, EndedType DEF ContributionPosted
  <2>3. status' \in Statuses
    BY <1>0, <1>21 DEF ContributionPosted, Statuses
  <2> QED
    BY <1>0, <1>21, <2>1, <2>2, <2>3 DEF ContributionPosted, FundingTypeOK
<1>22. CASE ContributionNotConfirmed(r)
  <2>1. file' \in Files
    BY <1>0, <1>22 DEF ContributionNotConfirmed, Written, Files, RequestStates
  <2>2. request' \in [Requests -> RequestStates]
    BY <1>22, EndedType DEF ContributionNotConfirmed
  <2>3. status' \in Statuses
    BY <1>0, <1>22 DEF ContributionNotConfirmed, Statuses
  <2> QED
    BY <1>0, <1>22, <2>1, <2>2, <2>3 DEF ContributionNotConfirmed, FundingTypeOK
<1>23. CASE AlreadyReconciled(r)
  BY <1>0, <1>23, EndedType DEF AlreadyReconciled, FundingTypeOK
<1>24. CASE ProviderAnswers(r)
  <2> DEFINE q == request[r].question
  <2>1. q \in Questions
    BY <1>0 DEF RequestStates
  <2>2. PICK a \in Tentative(q) \cup IF verdict[q] = "open" THEN Final(q) ELSE {verdict[q]} :
          /\ request' = [request EXCEPT ![r] = [@ EXCEPT !.at = "record", !.answer = a]]
          /\ verdict' = [verdict EXCEPT ![q] = IF a \in Final(q) THEN a ELSE @]
    BY <1>24 DEF ProviderAnswers
  <2>3. a \in Answers
    BY <1>0, <2>1, <2>2, AnswersTo
  <2>4. request' \in [Requests -> RequestStates]
    BY <1>0, <2>2, <2>3 DEF RequestStates
  <2>5. verdict' \in [Questions -> Answers \cup {"open"}]
    BY <1>0, <2>2, <2>3
  <2> QED
    BY <1>0, <1>24, <2>4, <2>5 DEF ProviderAnswers, FundingTypeOK
<1>25. CASE Dies(r)
  BY <1>0, <1>25, EndedType DEF Dies, FundingTypeOK
<1> QED
  BY <1>1, <1>2, <1>3, <1>4, <1>5, <1>6, <1>7, <1>8, <1>9, <1>10, <1>11, <1>12, <1>13,
     <1>14, <1>15, <1>16, <1>17, <1>18, <1>19, <1>20, <1>21, <1>22, <1>23, <1>24, <1>25
     DEF RequestStep

\* Every step keeps every column in the values it may hold.
LEMMA TypeStep ==
  ASSUME FundingTypeOK, [CaseStep]_caseVars
  PROVE  FundingTypeOK'
<1>1. CASE Submit
  BY <1>1 DEF Submit, FundingTypeOK, Statuses
<1>2. CASE SelectPlan
  BY <1>2 DEF SelectPlan, FundingTypeOK, Statuses, Files
<1>3. CASE LeaseAwaitsFunding
  BY <1>3 DEF LeaseAwaitsFunding, FundingTypeOK, Files
<1>4. CASE LeaseAwaitsCompletion
  BY <1>4 DEF LeaseAwaitsCompletion, FundingTypeOK, Files
<1>5. CASE LeaseActivates
  BY <1>5 DEF LeaseActivates, FundingTypeOK, Files
<1>6. CASE UNCHANGED caseVars
  BY <1>6 DEF caseVars, FundingTypeOK
<1> QED
  BY <1>1, <1>2, <1>3, <1>4, <1>5, <1>6, TypeStepOfRequest DEF CaseStep

\* However requests overlap and die, the application, its rows and its requests stay in
\* the states their columns may hold.
THEOREM CaseTypes == FundingSpec => []FundingTypeOK
<1>1. Init => FundingTypeOK
  BY DEF Init, FundingTypeOK, NewFile, Files, Idle, RequestStates, Statuses, Questions
<1>2. FundingTypeOK /\ [CaseStep]_caseVars => FundingTypeOK'
  BY TypeStep
<1> QED
  BY <1>1, <1>2, PTL DEF FundingSpec
-----------------------------------------------------------------------------
(* The gates. *)

\* No answer that leaves a question open decides it.
LEMMA TentativeIsNotFinal ==
  ASSUME NEW q \in Questions
  PROVE  Tentative(q) \cap Final(q) = {}
  BY DEF Questions, Tentative, Final

\* A provider's decision stands.
LEMMA DecisionsStand ==
  ASSUME FundingTypeOK, [CaseStep]_caseVars, NEW q \in Questions, verdict[q] # "open"
  PROVE  verdict'[q] = verdict[q]
<1>1. ASSUME NEW r \in Requests, ProviderAnswers(r)
      PROVE  verdict'[q] = verdict[q]
  <2> DEFINE p == request[r].question
  <2>1. PICK a \in Tentative(p) \cup IF verdict[p] = "open" THEN Final(p) ELSE {verdict[p]} :
          verdict' = [verdict EXCEPT ![p] = IF a \in Final(p) THEN a ELSE @]
    BY <1>1 DEF ProviderAnswers
  <2>2. p \in Questions
    BY <1>1 DEF FundingTypeOK, RequestStates
  <2> QED
    BY <2>1, <2>2, TentativeIsNotFinal DEF FundingTypeOK
<1>2. ASSUME verdict' = verdict
      PROVE  verdict'[q] = verdict[q]
  BY <1>2
<1> QED
  BY <1>1, <1>2 DEF CaseStep, RequestStep, caseVars, Submit, SelectPlan, LeaseAwaitsFunding,
     LeaseAwaitsCompletion, LeaseActivates, IdentityBegins, IdentityRecorded,
     PropertyContractBegins, EvidenceNotConfirmed, LeaseDrafted, LeaseInTheWay,
     TermsCaptured, RegistrationFinalized, CreditEligibilityBegins,
     CreditEligibilityRecorded, BankFundingBegins, BankDeclines, BankUndecided,
     BankApproves, AllocatedMeanwhile, FreezeBegins, FreezeRefused, FreezeConfirmed,
     FreezeUndecided, TenantContributionBegins, ContributionPosted,
     ContributionNotConfirmed, AlreadyReconciled, Dies

\* A plan once selected, terms once captured, an allocation, a frozen principal and a
\* posted contribution are never taken back.
LEMMA NothingIsTakenBack ==
  ASSUME FundingTypeOK, [CaseStep]_caseVars
  PROVE  /\ file.planned => file'.planned
         /\ file.terms => file'.terms
         /\ file.allocation => file'.allocation
         /\ file.principal => file'.principal
         /\ file.contribution => file'.contribution
<1> DEFINE Kept == /\ file.planned => file'.planned
                   /\ file.terms => file'.terms
                   /\ file.allocation => file'.allocation
                   /\ file.principal => file'.principal
                   /\ file.contribution => file'.contribution
<1>0. file \in Files
  BY DEF FundingTypeOK
<1>1. ASSUME UNCHANGED file
      PROVE  Kept
  BY <1>1
<1>2. ASSUME NEW r \in Requests, IdentityBegins(r)
      PROVE  Kept
  BY <1>0, <1>2 DEF IdentityBegins, Files
<1>3. ASSUME NEW r \in Requests, IdentityRecorded(r)
      PROVE  Kept
  BY <1>0, <1>3 DEF IdentityRecorded, Files
<1>4. ASSUME NEW r \in Requests, PropertyContractBegins(r)
      PROVE  Kept
  BY <1>0, <1>4 DEF PropertyContractBegins, Files
<1>5. ASSUME NEW r \in Requests, EvidenceNotConfirmed(r)
      PROVE  Kept
  BY <1>0, <1>5 DEF EvidenceNotConfirmed, Files
<1>6. ASSUME NEW r \in Requests, LeaseDrafted(r)
      PROVE  Kept
  BY <1>0, <1>6 DEF LeaseDrafted, Files
<1>7. ASSUME NEW r \in Requests, TermsCaptured(r)
      PROVE  Kept
  BY <1>0, <1>7 DEF TermsCaptured, Files
<1>8. ASSUME NEW r \in Requests, RegistrationFinalized(r)
      PROVE  Kept
  BY <1>0, <1>8 DEF RegistrationFinalized, Files
<1>9. ASSUME NEW r \in Requests, CreditEligibilityBegins(r)
      PROVE  Kept
  BY <1>0, <1>9 DEF CreditEligibilityBegins, Files
<1>10. ASSUME NEW r \in Requests, CreditEligibilityRecorded(r)
      PROVE  Kept
  BY <1>0, <1>10 DEF CreditEligibilityRecorded, Files
<1>11. ASSUME NEW r \in Requests, BankFundingBegins(r)
      PROVE  Kept
  BY <1>0, <1>11 DEF BankFundingBegins, Files
<1>12. ASSUME NEW r \in Requests, BankDeclines(r)
      PROVE  Kept
  BY <1>0, <1>12 DEF BankDeclines, Files
<1>13. ASSUME NEW r \in Requests, BankUndecided(r)
      PROVE  Kept
  BY <1>0, <1>13 DEF BankUndecided, Files
<1>14. ASSUME NEW r \in Requests, BankApproves(r)
      PROVE  Kept
  BY <1>0, <1>14 DEF BankApproves, Files
<1>15. ASSUME NEW r \in Requests, FreezeBegins(r)
      PROVE  Kept
  BY <1>0, <1>15 DEF FreezeBegins, Files
<1>16. ASSUME NEW r \in Requests, FreezeConfirmed(r)
      PROVE  Kept
  BY <1>0, <1>16 DEF FreezeConfirmed, Files
<1>17. ASSUME NEW r \in Requests, FreezeUndecided(r)
      PROVE  Kept
  BY <1>0, <1>17 DEF FreezeUndecided, Files
<1>18. ASSUME NEW r \in Requests, TenantContributionBegins(r)
      PROVE  Kept
  BY <1>0, <1>18 DEF TenantContributionBegins, Files
<1>19. ASSUME NEW r \in Requests, ContributionPosted(r)
      PROVE  Kept
  BY <1>0, <1>19 DEF ContributionPosted, Files
<1>20. ASSUME NEW r \in Requests, ContributionNotConfirmed(r)
      PROVE  Kept
  BY <1>0, <1>20 DEF ContributionNotConfirmed, Files
<1>21. ASSUME SelectPlan
      PROVE  Kept
  BY <1>0, <1>21 DEF SelectPlan, Files
<1>22. ASSUME LeaseAwaitsFunding
      PROVE  Kept
  BY <1>0, <1>22 DEF LeaseAwaitsFunding, Files
<1>23. ASSUME LeaseAwaitsCompletion
      PROVE  Kept
  BY <1>0, <1>23 DEF LeaseAwaitsCompletion, Files
<1>24. ASSUME LeaseActivates
      PROVE  Kept
  BY <1>0, <1>24 DEF LeaseActivates, Files
<1> QED
  BY <1>1, <1>2, <1>3, <1>4, <1>5, <1>6, <1>7, <1>8, <1>9, <1>10, <1>11, <1>12, <1>13,
     <1>14, <1>15, <1>16, <1>17, <1>18, <1>19, <1>20, <1>21, <1>22, <1>23, <1>24
     DEF CaseStep, RequestStep, caseVars, LeaseInTheWay, AllocatedMeanwhile, FreezeRefused,
     AlreadyReconciled,
     ProviderAnswers, Dies, Submit

\* A request that takes no part in a step relies on nothing the step takes away.
LEMMA OthersStayBacked ==
  ASSUME FundingTypeOK, [CaseStep]_caseVars, NEW s \in Requests,
         AnswerIsVerdict(s), RequestIsBacked(s), request'[s] = request[s]
  PROVE  AnswerIsVerdict(s)' /\ RequestIsBacked(s)'
<1>1. request[s] \in RequestStates /\ request[s].question \in Questions
  BY DEF FundingTypeOK, RequestStates
<1>2. AnswerIsVerdict(s)'
  <2> SUFFICES ASSUME request[s].at = "record",
                      request[s].answer \in Final(request[s].question)
               PROVE  verdict'[request[s].question] = request[s].answer
    BY DEF AnswerIsVerdict
  <2>1. verdict[request[s].question] = request[s].answer /\ request[s].answer # "open"
    BY <1>1 DEF AnswerIsVerdict, Final, Questions
  <2> QED
    BY <1>1, <2>1, DecisionsStand
<1>3. RequestIsBacked(s)'
  <2>1. \A q \in Questions : verdict[q] # "open" => verdict'[q] = verdict[q]
    BY DecisionsStand
  <2>2. "PropertyContract" \in Questions /\ "CreditEligibility" \in Questions
    BY DEF Questions
  <2> QED
    BY <2>1, <2>2, NothingIsTakenBack DEF RequestIsBacked
<1> QED
  BY <1>2, <1>3
\* A step of one request leaves it backed, and leaves the rows and the gates in order.
LEMMA GateStepOfRequest ==
  ASSUME FundingInv, NEW r \in Requests, RequestStep(r)
  PROVE  /\ (AnswerIsVerdict(r) /\ RequestIsBacked(r))'
         /\ RowsAreBacked' /\ EveryGateWasPassed' /\ ActiveLeaseIsFunded'
<1>0. /\ status \in Statuses /\ file \in Files
      /\ verdict \in [Questions -> Answers \cup {"open"}]
      /\ request \in [Requests -> RequestStates] /\ request[r] \in RequestStates
      /\ AnswerIsVerdict(r) /\ RequestIsBacked(r)
      /\ RowsAreBacked /\ EveryGateWasPassed /\ ActiveLeaseIsFunded
  BY DEF FundingInv, FundingTypeOK, RequestsAreBacked
<1>1. CASE IdentityBegins(r)
  <2>1. (AnswerIsVerdict(r) /\ RequestIsBacked(r))'
    BY <1>0, <1>1 DEF IdentityBegins, Asks, AnswerIsVerdict, RequestIsBacked, Files,
       RowsAreBacked, Usable, EveryGateWasPassed
  <2>2. RowsAreBacked' /\ EveryGateWasPassed' /\ ActiveLeaseIsFunded'
    BY <1>0, <1>1 DEF IdentityBegins, Records, Final, AnswerIsVerdict, RequestIsBacked,
       IfNone, RowsAreBacked, EveryGateWasPassed, ActiveLeaseIsFunded, Files
  <2> QED
    BY <2>1, <2>2
<1>2. CASE IdentityRecorded(r)
  <2>1. (AnswerIsVerdict(r) /\ RequestIsBacked(r))'
    BY <1>0, <1>2 DEF IdentityRecorded, Ends, Idle, AnswerIsVerdict, RequestIsBacked,
       Files
  <2>2. RowsAreBacked' /\ EveryGateWasPassed' /\ ActiveLeaseIsFunded'
    BY <1>0, <1>2 DEF IdentityRecorded, Records, Final, AnswerIsVerdict,
       RequestIsBacked, Written, RowsAreBacked, EveryGateWasPassed, ActiveLeaseIsFunded,
       Files
  <2> QED
    BY <2>1, <2>2
<1>3. CASE PropertyContractBegins(r)
  <2>1. (AnswerIsVerdict(r) /\ RequestIsBacked(r))'
    BY <1>0, <1>3 DEF PropertyContractBegins, Asks, AnswerIsVerdict, RequestIsBacked,
       Files, RowsAreBacked, Usable, EveryGateWasPassed
  <2>2. RowsAreBacked' /\ EveryGateWasPassed' /\ ActiveLeaseIsFunded'
    BY <1>0, <1>3 DEF PropertyContractBegins, Records, Final, AnswerIsVerdict,
       RequestIsBacked, IfNone, RowsAreBacked, EveryGateWasPassed, ActiveLeaseIsFunded,
       Files
  <2> QED
    BY <2>1, <2>2
<1>4. CASE EvidenceNotConfirmed(r)
  <2>1. (AnswerIsVerdict(r) /\ RequestIsBacked(r))'
    BY <1>0, <1>4 DEF EvidenceNotConfirmed, Ends, Idle, AnswerIsVerdict,
       RequestIsBacked, Files
  <2>2. RowsAreBacked' /\ EveryGateWasPassed' /\ ActiveLeaseIsFunded'
    BY <1>0, <1>4 DEF EvidenceNotConfirmed, Records, Final, AnswerIsVerdict,
       RequestIsBacked, Written, RowsAreBacked, EveryGateWasPassed, ActiveLeaseIsFunded,
       Files
  <2> QED
    BY <2>1, <2>2
<1>5. CASE LeaseDrafted(r)
  <2>1. (AnswerIsVerdict(r) /\ RequestIsBacked(r))'
    BY <1>0, <1>5 DEF LeaseDrafted, AnswerIsVerdict, RequestIsBacked, Files, Records,
       Final, RequestStates
  <2>2. RowsAreBacked' /\ EveryGateWasPassed' /\ ActiveLeaseIsFunded'
    BY <1>0, <1>5 DEF LeaseDrafted, Records, Final, AnswerIsVerdict, RequestIsBacked,
       Written, RowsAreBacked, EveryGateWasPassed, ActiveLeaseIsFunded, Files
  <2> QED
    BY <2>1, <2>2
<1>6. CASE LeaseInTheWay(r)
  <2>1. (AnswerIsVerdict(r) /\ RequestIsBacked(r))'
    BY <1>0, <1>6 DEF LeaseInTheWay, Ends, Idle, AnswerIsVerdict, RequestIsBacked, Files
  <2>2. RowsAreBacked' /\ EveryGateWasPassed' /\ ActiveLeaseIsFunded'
    BY <1>0, <1>6 DEF LeaseInTheWay, Records, Final, AnswerIsVerdict, RequestIsBacked,
       Written, RowsAreBacked, EveryGateWasPassed, ActiveLeaseIsFunded, Files
  <2> QED
    BY <2>1, <2>2
<1>7. CASE TermsCaptured(r)
  <2>1. (AnswerIsVerdict(r) /\ RequestIsBacked(r))'
    BY <1>0, <1>7 DEF TermsCaptured, AnswerIsVerdict, RequestIsBacked, Files,
       RequestStates
  <2>2. RowsAreBacked' /\ EveryGateWasPassed' /\ ActiveLeaseIsFunded'
    BY <1>0, <1>7 DEF TermsCaptured, Records, Final, AnswerIsVerdict, RequestIsBacked,
       Written, RowsAreBacked, EveryGateWasPassed, ActiveLeaseIsFunded, Files
  <2> QED
    BY <2>1, <2>2
<1>8. CASE RegistrationFinalized(r)
  <2>1. (AnswerIsVerdict(r) /\ RequestIsBacked(r))'
    BY <1>0, <1>8 DEF RegistrationFinalized, Ends, Idle, AnswerIsVerdict,
       RequestIsBacked, Files
  <2>2. RowsAreBacked' /\ EveryGateWasPassed' /\ ActiveLeaseIsFunded'
    BY <1>0, <1>8 DEF RegistrationFinalized, Records, Final, AnswerIsVerdict,
       RequestIsBacked, Written, RowsAreBacked, EveryGateWasPassed, ActiveLeaseIsFunded,
       Files
  <2> QED
    BY <2>1, <2>2
<1>9. CASE CreditEligibilityBegins(r)
  <2>1. (AnswerIsVerdict(r) /\ RequestIsBacked(r))'
    BY <1>0, <1>9 DEF CreditEligibilityBegins, Asks, AnswerIsVerdict, RequestIsBacked,
       Files, RowsAreBacked, Usable, EveryGateWasPassed
  <2>2. RowsAreBacked' /\ EveryGateWasPassed' /\ ActiveLeaseIsFunded'
    BY <1>0, <1>9 DEF CreditEligibilityBegins, Records, Final, AnswerIsVerdict,
       RequestIsBacked, IfNone, RowsAreBacked, EveryGateWasPassed, ActiveLeaseIsFunded,
       Files
  <2> QED
    BY <2>1, <2>2
<1>10. CASE CreditEligibilityRecorded(r)
  <2>1. (AnswerIsVerdict(r) /\ RequestIsBacked(r))'
    BY <1>0, <1>10 DEF CreditEligibilityRecorded, Ends, Idle, AnswerIsVerdict,
       RequestIsBacked, Files
  <2>2. RowsAreBacked' /\ EveryGateWasPassed' /\ ActiveLeaseIsFunded'
    BY <1>0, <1>10 DEF CreditEligibilityRecorded, Records, Final, AnswerIsVerdict,
       RequestIsBacked, Written, RowsAreBacked, EveryGateWasPassed, ActiveLeaseIsFunded,
       Files
  <2> QED
    BY <2>1, <2>2
<1>11. CASE BankFundingBegins(r)
  <2>1. (AnswerIsVerdict(r) /\ RequestIsBacked(r))'
    BY <1>0, <1>11 DEF BankFundingBegins, BankFundingDue, Trusted, AnswerIsVerdict, RequestIsBacked, Files,
       RequestStates, RowsAreBacked, Usable, EveryGateWasPassed
  <2>2. RowsAreBacked' /\ EveryGateWasPassed' /\ ActiveLeaseIsFunded'
    BY <1>0, <1>11 DEF BankFundingBegins, BankFundingDue, Trusted, Records, Final, AnswerIsVerdict,
       RequestIsBacked, IfNone, Resumed, RowsAreBacked, EveryGateWasPassed,
       ActiveLeaseIsFunded, Files
  <2> QED
    BY <2>1, <2>2
<1>12. CASE BankDeclines(r)
  <2>1. (AnswerIsVerdict(r) /\ RequestIsBacked(r))'
    BY <1>0, <1>12 DEF BankDeclines, Ends, Idle, AnswerIsVerdict, RequestIsBacked, Files
  <2>2. RowsAreBacked' /\ EveryGateWasPassed' /\ ActiveLeaseIsFunded'
    BY <1>0, <1>12 DEF BankDeclines, Records, Final, AnswerIsVerdict, RequestIsBacked,
       Written, RowsAreBacked, EveryGateWasPassed, ActiveLeaseIsFunded, Files
  <2> QED
    BY <2>1, <2>2
<1>13. CASE BankUndecided(r)
  <2>1. (AnswerIsVerdict(r) /\ RequestIsBacked(r))'
    BY <1>0, <1>13 DEF BankUndecided, Ends, Idle, AnswerIsVerdict, RequestIsBacked,
       Files
  <2>2. RowsAreBacked' /\ EveryGateWasPassed' /\ ActiveLeaseIsFunded'
    BY <1>0, <1>13 DEF BankUndecided, Records, Final, AnswerIsVerdict, RequestIsBacked,
       Written, RowsAreBacked, EveryGateWasPassed, ActiveLeaseIsFunded, Files
  <2> QED
    BY <2>1, <2>2
<1>14. CASE BankApproves(r)
  <2>1. (AnswerIsVerdict(r) /\ RequestIsBacked(r))'
    BY <1>0, <1>14 DEF BankApproves, AnswerIsVerdict, RequestIsBacked, Files,
       RequestStates
  <2>2. RowsAreBacked' /\ EveryGateWasPassed' /\ ActiveLeaseIsFunded'
    BY <1>0, <1>14 DEF BankApproves, Records, Final, AnswerIsVerdict, RequestIsBacked,
       Written, RowsAreBacked, EveryGateWasPassed, ActiveLeaseIsFunded, Files
  <2> QED
    BY <2>1, <2>2
<1>15. CASE AllocatedMeanwhile(r)
  <2>1. (AnswerIsVerdict(r) /\ RequestIsBacked(r))'
    BY <1>0, <1>15 DEF AllocatedMeanwhile, Ends, Idle, AnswerIsVerdict, RequestIsBacked,
       Files
  <2>2. RowsAreBacked' /\ EveryGateWasPassed' /\ ActiveLeaseIsFunded'
    BY <1>0, <1>15 DEF AllocatedMeanwhile, Records, Final, AnswerIsVerdict,
       RequestIsBacked, Written, RowsAreBacked, EveryGateWasPassed, ActiveLeaseIsFunded,
       Files
  <2> QED
    BY <2>1, <2>2
<1>16. CASE FreezeBegins(r)
  <2>1. (AnswerIsVerdict(r) /\ RequestIsBacked(r))'
    BY <1>0, <1>16 DEF FreezeBegins, Asks, AnswerIsVerdict, RequestIsBacked, Files,
       RowsAreBacked, Usable, EveryGateWasPassed
  <2>2. RowsAreBacked' /\ EveryGateWasPassed' /\ ActiveLeaseIsFunded'
    BY <1>0, <1>16 DEF FreezeBegins, Records, Final, AnswerIsVerdict, RequestIsBacked,
       IfNone, RowsAreBacked, EveryGateWasPassed, ActiveLeaseIsFunded, Files
  <2> QED
    BY <2>1, <2>2
<1>17. CASE FreezeRefused(r)
  <2>1. (AnswerIsVerdict(r) /\ RequestIsBacked(r))'
    BY <1>0, <1>17 DEF FreezeRefused, Ends, Idle, AnswerIsVerdict, RequestIsBacked,
       Files
  <2>2. RowsAreBacked' /\ EveryGateWasPassed' /\ ActiveLeaseIsFunded'
    BY <1>0, <1>17 DEF FreezeRefused, Records, Final, AnswerIsVerdict, RequestIsBacked,
       Written, RowsAreBacked, EveryGateWasPassed, ActiveLeaseIsFunded, Files
  <2> QED
    BY <2>1, <2>2
<1>18. CASE FreezeConfirmed(r)
  <2>1. (AnswerIsVerdict(r) /\ RequestIsBacked(r))'
    BY <1>0, <1>18 DEF FreezeConfirmed, Ends, Idle, AnswerIsVerdict, RequestIsBacked,
       Files
  <2>2. RowsAreBacked' /\ EveryGateWasPassed' /\ ActiveLeaseIsFunded'
    BY <1>0, <1>18 DEF FreezeConfirmed, Records, Final, AnswerIsVerdict,
       RequestIsBacked, Written, RowsAreBacked, EveryGateWasPassed, ActiveLeaseIsFunded,
       Files
  <2> QED
    BY <2>1, <2>2
<1>19. CASE FreezeUndecided(r)
  <2>1. (AnswerIsVerdict(r) /\ RequestIsBacked(r))'
    BY <1>0, <1>19 DEF FreezeUndecided, Ends, Idle, AnswerIsVerdict, RequestIsBacked,
       Files
  <2>2. RowsAreBacked' /\ EveryGateWasPassed' /\ ActiveLeaseIsFunded'
    BY <1>0, <1>19 DEF FreezeUndecided, Records, Final, AnswerIsVerdict,
       RequestIsBacked, Written, RowsAreBacked, EveryGateWasPassed, ActiveLeaseIsFunded,
       Files
  <2> QED
    BY <2>1, <2>2
<1>20. CASE TenantContributionBegins(r)
  <2>1. (AnswerIsVerdict(r) /\ RequestIsBacked(r))'
    BY <1>0, <1>20 DEF TenantContributionBegins, TenantContributionDue, Asks, AnswerIsVerdict, RequestIsBacked,
       Files, RowsAreBacked, Usable, EveryGateWasPassed
  <2>2. RowsAreBacked' /\ EveryGateWasPassed' /\ ActiveLeaseIsFunded'
    BY <1>0, <1>20 DEF TenantContributionBegins, TenantContributionDue, Records, Final, AnswerIsVerdict,
       RequestIsBacked, Written, RowsAreBacked, EveryGateWasPassed, ActiveLeaseIsFunded,
       Files
  <2> QED
    BY <2>1, <2>2
<1>21. CASE ContributionPosted(r)
  <2>1. (AnswerIsVerdict(r) /\ RequestIsBacked(r))'
    BY <1>0, <1>21 DEF ContributionPosted, Ends, Idle, AnswerIsVerdict, RequestIsBacked,
       Files
  <2>2. RowsAreBacked' /\ EveryGateWasPassed' /\ ActiveLeaseIsFunded'
    BY <1>0, <1>21 DEF ContributionPosted, Records, Final, AnswerIsVerdict,
       RequestIsBacked, Written, RowsAreBacked, EveryGateWasPassed, ActiveLeaseIsFunded,
       Files
  <2> QED
    BY <2>1, <2>2
<1>22. CASE ContributionNotConfirmed(r)
  <2>1. (AnswerIsVerdict(r) /\ RequestIsBacked(r))'
    BY <1>0, <1>22 DEF ContributionNotConfirmed, Ends, Idle, AnswerIsVerdict,
       RequestIsBacked, Files
  <2>2. RowsAreBacked' /\ EveryGateWasPassed' /\ ActiveLeaseIsFunded'
    BY <1>0, <1>22 DEF ContributionNotConfirmed, Records, Final, AnswerIsVerdict,
       RequestIsBacked, Written, RowsAreBacked, EveryGateWasPassed, ActiveLeaseIsFunded,
       Files
  <2> QED
    BY <2>1, <2>2
<1>23. CASE AlreadyReconciled(r)
  <2>1. (AnswerIsVerdict(r) /\ RequestIsBacked(r))'
    BY <1>0, <1>23 DEF AlreadyReconciled, Ends, Idle, AnswerIsVerdict, RequestIsBacked,
       Files
  <2>2. RowsAreBacked' /\ EveryGateWasPassed' /\ ActiveLeaseIsFunded'
    BY <1>0, <1>23 DEF AlreadyReconciled, Records, Final, AnswerIsVerdict,
       RequestIsBacked, Written, RowsAreBacked, EveryGateWasPassed, ActiveLeaseIsFunded,
       Files
  <2> QED
    BY <2>1, <2>2
<1>24. CASE ProviderAnswers(r)
  <2> DEFINE q == request[r].question
  <2>1. PICK a \in Tentative(q) \cup IF verdict[q] = "open" THEN Final(q) ELSE {verdict[q]} :
          /\ request' = [request EXCEPT ![r] = [@ EXCEPT !.at = "record", !.answer = a]]
          /\ verdict' = [verdict EXCEPT ![q] = IF a \in Final(q) THEN a ELSE @]
    BY <1>24 DEF ProviderAnswers
  <2>2. q \in Questions /\ request[r].at = "ask"
    BY <1>0, <1>24 DEF RequestStates, ProviderAnswers
  <2>3. \A p \in Questions : verdict[p] # "open" => verdict'[p] = verdict[p]
    BY <1>0, <2>1, <2>2, TentativeIsNotFinal
  <2>4. UNCHANGED <<status, file>>
    BY <1>24 DEF ProviderAnswers
  <2>5. request'[r] = [request[r] EXCEPT !.at = "record", !.answer = a]
    BY <1>0, <2>1
  <2>6. AnswerIsVerdict(r)'
    BY <1>0, <2>1, <2>2, <2>5 DEF AnswerIsVerdict, RequestStates
  <2>7. RequestIsBacked(r)'
    BY <1>0, <2>2, <2>3, <2>4, <2>5 DEF RequestIsBacked, RequestStates, Questions
  <2>8. RowsAreBacked' /\ EveryGateWasPassed' /\ ActiveLeaseIsFunded'
    BY <1>0, <2>3, <2>4 DEF RowsAreBacked, EveryGateWasPassed, ActiveLeaseIsFunded, Questions
  <2> QED
    BY <2>6, <2>7, <2>8
<1>25. CASE Dies(r)
  <2>1. (AnswerIsVerdict(r) /\ RequestIsBacked(r))'
    BY <1>0, <1>25 DEF Dies, Ends, Idle, AnswerIsVerdict, RequestIsBacked, Files
  <2>2. RowsAreBacked' /\ EveryGateWasPassed' /\ ActiveLeaseIsFunded'
    BY <1>0, <1>25 DEF Dies, Records, Final, AnswerIsVerdict, RequestIsBacked, Written,
       RowsAreBacked, EveryGateWasPassed, ActiveLeaseIsFunded, Files
  <2> QED
    BY <2>1, <2>2
<1> QED
  BY <1>1, <1>2, <1>3, <1>4, <1>5, <1>6, <1>7, <1>8, <1>9, <1>10, <1>11, <1>12, <1>13,
     <1>14, <1>15, <1>16, <1>17, <1>18, <1>19, <1>20, <1>21, <1>22, <1>23, <1>24, <1>25
     DEF RequestStep
\* A step of one request leaves the other requests as they are.
LEMMA OthersAreLeftAlone ==
  ASSUME FundingTypeOK, NEW r \in Requests, NEW s \in Requests, s # r, RequestStep(r)
  PROVE  request'[s] = request[s]
<1>0. request \in [Requests -> RequestStates]
  BY DEF FundingTypeOK
<1>1. CASE IdentityBegins(r)
  BY <1>0, <1>1 DEF IdentityBegins, Asks
<1>2. CASE PropertyContractBegins(r)
  BY <1>0, <1>2 DEF PropertyContractBegins, Asks
<1>3. CASE CreditEligibilityBegins(r)
  BY <1>0, <1>3 DEF CreditEligibilityBegins, Asks
<1>4. CASE FreezeBegins(r)
  BY <1>0, <1>4 DEF FreezeBegins, Asks
<1>5. CASE TenantContributionBegins(r)
  BY <1>0, <1>5 DEF TenantContributionBegins, Asks
<1>6. CASE IdentityRecorded(r)
  BY <1>0, <1>6 DEF IdentityRecorded, Ends
<1>7. CASE EvidenceNotConfirmed(r)
  BY <1>0, <1>7 DEF EvidenceNotConfirmed, Ends
<1>8. CASE LeaseInTheWay(r)
  BY <1>0, <1>8 DEF LeaseInTheWay, Ends
<1>9. CASE RegistrationFinalized(r)
  BY <1>0, <1>9 DEF RegistrationFinalized, Ends
<1>10. CASE CreditEligibilityRecorded(r)
  BY <1>0, <1>10 DEF CreditEligibilityRecorded, Ends
<1>11. CASE BankDeclines(r)
  BY <1>0, <1>11 DEF BankDeclines, Ends
<1>12. CASE BankUndecided(r)
  BY <1>0, <1>12 DEF BankUndecided, Ends
<1>13. CASE AllocatedMeanwhile(r)
  BY <1>0, <1>13 DEF AllocatedMeanwhile, Ends
<1>14. CASE FreezeRefused(r)
  BY <1>0, <1>14 DEF FreezeRefused, Ends
<1>15. CASE FreezeConfirmed(r)
  BY <1>0, <1>15 DEF FreezeConfirmed, Ends
<1>16. CASE FreezeUndecided(r)
  BY <1>0, <1>16 DEF FreezeUndecided, Ends
<1>17. CASE ContributionPosted(r)
  BY <1>0, <1>17 DEF ContributionPosted, Ends
<1>18. CASE ContributionNotConfirmed(r)
  BY <1>0, <1>18 DEF ContributionNotConfirmed, Ends
<1>19. CASE AlreadyReconciled(r)
  BY <1>0, <1>19 DEF AlreadyReconciled, Ends
<1>20. CASE Dies(r)
  BY <1>0, <1>20 DEF Dies, Ends
<1>21. CASE LeaseDrafted(r)
  BY <1>0, <1>21 DEF LeaseDrafted
<1>22. CASE TermsCaptured(r)
  BY <1>0, <1>22 DEF TermsCaptured
<1>23. CASE BankFundingBegins(r)
  BY <1>0, <1>23 DEF BankFundingBegins
<1>24. CASE BankApproves(r)
  BY <1>0, <1>24 DEF BankApproves
<1>25. CASE ProviderAnswers(r)
  BY <1>0, <1>25 DEF ProviderAnswers
<1> QED
  BY <1>1, <1>2, <1>3, <1>4, <1>5, <1>6, <1>7, <1>8, <1>9, <1>10, <1>11, <1>12, <1>13,
     <1>14, <1>15, <1>16, <1>17, <1>18, <1>19, <1>20, <1>21, <1>22, <1>23, <1>24, <1>25
     DEF RequestStep

\* The invariant is kept by every step.
LEMMA FundingStep ==
  ASSUME FundingInv, [CaseStep]_caseVars
  PROVE  FundingInv'
<1> DEFINE Rest == RowsAreBacked /\ EveryGateWasPassed /\ ActiveLeaseIsFunded
<1>0. /\ FundingTypeOK /\ RequestsAreBacked /\ Rest /\ file \in Files
  BY DEF FundingInv, FundingTypeOK
<1>1. FundingTypeOK'
  BY <1>0, TypeStep
<1>2. ASSUME NEW r \in Requests,
             \A s \in Requests : s # r => request'[s] = request[s],
             (AnswerIsVerdict(r) /\ RequestIsBacked(r))', Rest'
      PROVE  FundingInv'
  <2>1. ASSUME NEW s \in Requests
        PROVE  (AnswerIsVerdict(s) /\ RequestIsBacked(s))'
    <3>1. AnswerIsVerdict(s) /\ RequestIsBacked(s)
      BY <1>0, <2>1 DEF RequestsAreBacked
    <3>2. CASE s = r
      BY <1>2, <3>2
    <3>3. CASE s # r
      BY <1>0, <1>2, <2>1, <3>1, <3>3, OthersStayBacked
    <3> QED
      BY <3>2, <3>3
  <2> QED
    BY <1>1, <1>2, <2>1 DEF FundingInv, RequestsAreBacked
<1>3. ASSUME UNCHANGED request, Rest'
      PROVE  FundingInv'
  <2>1. ASSUME NEW s \in Requests
        PROVE  (AnswerIsVerdict(s) /\ RequestIsBacked(s))'
    BY <1>0, <1>3, <2>1, OthersStayBacked DEF RequestsAreBacked
  <2> QED
    BY <1>1, <1>3, <2>1 DEF FundingInv, RequestsAreBacked
<1>4. CASE Submit
  <2>1. Rest'
    BY <1>0, <1>4 DEF Submit, RowsAreBacked, EveryGateWasPassed, ActiveLeaseIsFunded
  <2> QED
    BY <1>3, <1>4, <2>1 DEF Submit
<1>5. CASE SelectPlan
  <2>1. Rest'
    BY <1>0, <1>5 DEF SelectPlan, RowsAreBacked, EveryGateWasPassed, ActiveLeaseIsFunded, Files
  <2> QED
    BY <1>3, <1>5, <2>1 DEF SelectPlan
<1>6. CASE LeaseAwaitsFunding
  <2>1. Rest'
    BY <1>0, <1>6
       DEF LeaseAwaitsFunding, RowsAreBacked, EveryGateWasPassed, ActiveLeaseIsFunded, Files
  <2> QED
    BY <1>3, <1>6, <2>1 DEF LeaseAwaitsFunding
<1>7. CASE LeaseAwaitsCompletion
  <2>1. Rest'
    BY <1>0, <1>7
       DEF LeaseAwaitsCompletion, RowsAreBacked, EveryGateWasPassed, ActiveLeaseIsFunded, Files
  <2> QED
    BY <1>3, <1>7, <2>1 DEF LeaseAwaitsCompletion
<1>8. CASE LeaseActivates
  <2>1. Rest'
    BY <1>0, <1>8
       DEF LeaseActivates, ContributionReady, RowsAreBacked, EveryGateWasPassed,
           ActiveLeaseIsFunded, Files
  <2> QED
    BY <1>3, <1>8, <2>1 DEF LeaseActivates
<1>9. CASE UNCHANGED caseVars
  <2>1. Rest'
    BY <1>0, <1>9 DEF caseVars, RowsAreBacked, EveryGateWasPassed, ActiveLeaseIsFunded
  <2> QED
    BY <1>3, <1>9, <2>1 DEF caseVars
<1>10. ASSUME NEW r \in Requests, RequestStep(r)
       PROVE  FundingInv'
  <2>1. (AnswerIsVerdict(r) /\ RequestIsBacked(r))' /\ Rest'
    BY <1>10, GateStepOfRequest
  <2>2. \A s \in Requests : s # r => request'[s] = request[s]
    BY <1>0, <1>10, OthersAreLeftAlone
  <2> QED
    BY <1>2, <2>1, <2>2
<1> QED
  BY <1>4, <1>5, <1>6, <1>7, <1>8, <1>9, <1>10 DEF CaseStep

\* An application begins as a draft of which nothing is recorded.
LEMMA FundingInit == Init => FundingInv
<1>1. Init => FundingTypeOK
  BY DEF Init, FundingTypeOK, NewFile, Files, Idle, RequestStates, Statuses, Questions
<1>2. Init => RequestsAreBacked
  <2> SUFFICES ASSUME Init, NEW r \in Requests
               PROVE  AnswerIsVerdict(r) /\ RequestIsBacked(r)
    BY DEF RequestsAreBacked
  <2>1. request[r].at = "idle"
    BY DEF Init, Idle
  <2> QED
    BY <2>1 DEF AnswerIsVerdict, RequestIsBacked
<1>3. Init => RowsAreBacked /\ EveryGateWasPassed /\ ActiveLeaseIsFunded
  BY DEF Init, NewFile, RowsAreBacked, EveryGateWasPassed, ActiveLeaseIsFunded
<1> QED
  BY <1>1, <1>2, <1>3 DEF FundingInv

\* FundingInv holds throughout, for every set of requests.
LEMMA FundingInvariant == FundingSpec => []FundingInv
<1>1. FundingInv /\ [CaseStep]_caseVars => FundingInv'
  BY FundingStep
<1> QED
  BY <1>1, FundingInit, PTL DEF FundingSpec

\* However requests overlap, die and overwrite the application's status, no loan is
\* allocated, no principal frozen and no contribution posted before every provider on
\* the way has decided for it.
THEOREM GatesArePassed == FundingSpec => []EveryGateWasPassed
<1>1. FundingInv => EveryGateWasPassed
  BY DEF FundingInv
<1> QED
  BY <1>1, FundingInvariant, PTL

\* A lease is active only with its terms captured, the bank's principal frozen and the
\* tenant's contribution posted.
THEOREM ActiveLeasesAreFunded == FundingSpec => []ActiveLeaseIsFunded
<1>1. FundingInv => ActiveLeaseIsFunded
  BY DEF FundingInv
<1> QED
  BY <1>1, FundingInvariant, PTL
=============================================================================
