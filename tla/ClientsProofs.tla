----------------------------- MODULE ClientsProofs -----------------------------
(***************************************************************************)
(* What holds of the API's and the browser's clients whatever the requests,  *)
(* items, tabs and users: the case behind the operator's console is worked   *)
(* on as FundingCase says, so that its theorems carry over, and each client  *)
(* keeps its own promise. The clients share no variable: a step of one       *)
(* leaves the invariants of the others as they are.                          *)
(***************************************************************************)
EXTENDS Clients, FundingCaseProofs, SumLemmas

-----------------------------------------------------------------------------
(* The operator's console. *)

\* Where the operator's request stands in the API, and with it in its service.
PostIsTheRequest ==
  /\ post.at = "executing" <=> ~Free(Operator)
  /\ post.at \in {"execute", "executing"} => audited
\* A page that says "accepted" is about the last request, which is over.
NoticeIsOfTheLast ==
  view.at # "posting" /\ view.notice = "ok" => audited /\ post.at = "none"
ConsoleInv == ConsoleTypeOK /\ PostIsTheRequest /\ NoticeIsOfTheLast

\* Every step of the console is a step of the case it works on, or leaves the case alone.
LEMMA ConsoleWorksOnTheCase ==
  ASSUME ConsoleStep
  PROVE  [CaseStep]_caseVars
<1> USE OperatorIsARequest
<1>1. CASE CallBegins
  BY <1>1 DEF CallBegins, CaseStep, RequestStep
<1>2. CASE CallContinues
  BY <1>2 DEF CallContinues, CaseStep, RequestStep
<1>3. CASE CallEnds
  BY <1>3 DEF CallEnds, CaseStep, RequestStep
<1>4. CASE OthersWork
  BY <1>4 DEF OthersWork, CaseStep
<1>5. CASE OpenCase \/ CaseRead \/ CaseShown \/ CaseNotShown \/ Reload \/ LeaveCase
  BY <1>5 DEF OpenCase, CaseRead, CaseShown, CaseNotShown, Reload, LeaveCase
<1>6. CASE SubmitReconcile \/ RouteRefuses \/ ConnectionLost \/ AuditWritten \/ CallNotDue \/ PostDies
  BY <1>6
     DEF SubmitReconcile, RouteRefuses, ConnectionLost, AuditWritten, CallNotDue, PostDies
<1> QED
  BY <1>1, <1>2, <1>3, <1>4, <1>5, <1>6 DEF ConsoleStep

\* What a page offers is one of the operations.
LEMMA SuggestedType ==
  ASSUME NEW s, NEW rows
  PROVE  Suggested(s, rows) \in Operations \cup {"none"}
  BY DEF Suggested, Operations

\* The operator is led back to the case, or has left the page already.
LEMMA RedirectedType ==
  ASSUME ConsoleTypeOK, NEW n \in {"ok", "error"}, Redirected(n)
  PROVE  /\ view' \in Views
         /\ view'.at # "posting"
         /\ view.at # "posting" => view' = view
         /\ view.at = "posting" => (view'.notice = "ok" <=> n = "ok")
  BY DEF ConsoleTypeOK, Redirected, Elsewhere, Views, Statuses

\* The operator's request is begun, goes on and ends with the service's steps.
LEMMA OperatorsCall ==
  ASSUME FundingTypeOK, ConsoleStep
  PROVE  /\ CallBegins => ~Free(Operator)'
         /\ CallContinues => ~Free(Operator) /\ ~Free(Operator)'
         /\ CallEnds => ~Free(Operator) /\ Free(Operator)'
         /\ ~CallBegins /\ ~CallContinues /\ ~CallEnds =>
              request'[Operator] = request[Operator]
<1> USE OperatorIsARequest
<1>0. request \in [Requests -> RequestStates]
  BY DEF FundingTypeOK
<1>1. ASSUME CallBegins PROVE ~Free(Operator)'
  BY <1>0, <1>1
     DEF CallBegins, IdentityBegins, PropertyContractBegins, CreditEligibilityBegins,
         BankFundingBegins, TenantContributionBegins, Asks, Free
<1>2. ASSUME CallContinues PROVE ~Free(Operator) /\ ~Free(Operator)'
  <2>1. \E q \in {"record", "capture", "finalize", "freeze", "ask"} :
          request'[Operator].at = q
    <3>1. CASE ProviderAnswers(Operator)
      BY <1>0, <3>1 DEF ProviderAnswers, RequestStates
    <3>2. CASE LeaseDrafted(Operator)
      BY <1>0, <3>2 DEF LeaseDrafted, RequestStates
    <3>3. CASE TermsCaptured(Operator)
      BY <1>0, <3>3 DEF TermsCaptured, RequestStates
    <3>4. CASE BankApproves(Operator)
      BY <1>0, <3>4 DEF BankApproves, RequestStates
    <3>5. CASE FreezeBegins(Operator)
      BY <1>0, <3>5 DEF FreezeBegins, Asks
    <3> QED
      BY <1>2, <3>1, <3>2, <3>3, <3>4, <3>5 DEF CallContinues
  <2> QED
    BY <1>2, <2>1
       DEF CallContinues, ProviderAnswers, LeaseDrafted, TermsCaptured, BankApproves,
           FreezeBegins, Records, Free
<1>3. ASSUME CallEnds PROVE ~Free(Operator) /\ Free(Operator)'
  <2>1. Ends(Operator)
    BY <1>3
       DEF CallEnds, IdentityRecorded, EvidenceNotConfirmed, RegistrationFinalized,
           CreditEligibilityRecorded, BankDeclines, BankUndecided, FreezeConfirmed,
           FreezeUndecided, ContributionPosted, ContributionNotConfirmed, AlreadyReconciled,
           LeaseInTheWay, AllocatedMeanwhile, FreezeRefused, Dies
  <2>2. ~Free(Operator)
    BY <1>3
       DEF CallEnds, IdentityRecorded, EvidenceNotConfirmed, RegistrationFinalized,
           CreditEligibilityRecorded, BankDeclines, BankUndecided, FreezeConfirmed,
           FreezeUndecided, ContributionPosted, ContributionNotConfirmed, AlreadyReconciled,
           LeaseInTheWay, AllocatedMeanwhile, FreezeRefused, Dies, Records, Free
  <2> QED
    BY <1>0, <2>1, <2>2 DEF Ends, Free, Idle
<1>4. ASSUME OthersWork PROVE request'[Operator] = request[Operator]
  <2>1. ASSUME NEW r \in Requests \ {Operator}, RequestStep(r)
        PROVE  request'[Operator] = request[Operator]
    BY <2>1, OthersAreLeftAlone
  <2>2. CASE Submit \/ SelectPlan \/ LeaseAwaitsFunding \/ LeaseAwaitsCompletion \/ LeaseActivates
    BY <2>2 DEF Submit, SelectPlan, LeaseAwaitsFunding, LeaseAwaitsCompletion, LeaseActivates
  <2> QED
    BY <1>4, <2>1, <2>2 DEF OthersWork
<1>5. ASSUME \/ OpenCase \/ CaseRead \/ CaseShown \/ CaseNotShown \/ Reload \/ LeaveCase
             \/ SubmitReconcile \/ RouteRefuses \/ ConnectionLost
             \/ AuditWritten \/ CallNotDue \/ PostDies
      PROVE  request' = request
  BY <1>5
     DEF OpenCase, CaseRead, CaseShown, CaseNotShown, Reload, LeaveCase, SubmitReconcile,
         RouteRefuses, ConnectionLost, AuditWritten, CallNotDue, PostDies, caseVars
<1> QED
  BY <1>1, <1>2, <1>3, <1>4, <1>5 DEF ConsoleStep

\* The step lemma of the console: the page's steps, the request's and the service's.
LEMMA ConsoleKeeps ==
  ASSUME FundingTypeOK, ConsoleInv, ConsoleStep
  PROVE  ConsoleInv'
<1>0. /\ view \in Views /\ post \in Posts /\ audited \in BOOLEAN
      /\ status \in Statuses /\ ConsoleTypeOK
  BY DEF ConsoleInv, ConsoleTypeOK, FundingTypeOK
<1>1. CASE OpenCase \/ CaseRead \/ CaseShown \/ CaseNotShown \/ Reload \/ LeaveCase
  <2>1. /\ post' = post /\ audited' = audited
        /\ view.at # "posting" /\ view'.at # "posting"
        /\ view'.notice \in {view.notice, "none"}
    <3>1. CASE OpenCase \/ LeaveCase
      BY <3>1 DEF OpenCase, LeaveCase, Elsewhere
    <3>2. CASE CaseRead \/ CaseShown \/ CaseNotShown \/ Reload
      BY <1>0, <3>2 DEF CaseRead, CaseShown, CaseNotShown, Reload, Views
    <3> QED
      BY <1>1, <3>1, <3>2
  <2>2. view' \in Views
    <3>1. CASE CaseShown
      BY <1>0, <3>1, SuggestedType DEF CaseShown, Views, Statuses
    <3>2. CASE ~CaseShown
      <4>1. CASE OpenCase \/ LeaveCase
        BY <4>1 DEF OpenCase, LeaveCase, Views, Elsewhere, Statuses
      <4>2. CASE CaseRead \/ CaseNotShown \/ Reload
        BY <1>0, <4>2 DEF CaseRead, CaseNotShown, Reload, Views
      <4> QED
        BY <1>1, <3>2, <4>1, <4>2
    <3> QED
      BY <3>1, <3>2
  <2>3. Free(Operator)' <=> Free(Operator)
    BY <1>1
       DEF OpenCase, CaseRead, CaseShown, CaseNotShown, Reload, LeaveCase, caseVars, Free
  <2> QED
    BY <1>0, <2>1, <2>2, <2>3
       DEF ConsoleInv, ConsoleTypeOK, PostIsTheRequest, NoticeIsOfTheLast
<1>2. CASE SubmitReconcile
  BY <1>0, <1>2
     DEF SubmitReconcile, ConsoleInv, ConsoleTypeOK, PostIsTheRequest, NoticeIsOfTheLast,
         Views, Posts, caseVars, Free
<1>3. CASE RouteRefuses
  <2>1. Redirected("error") /\ post' = NoPost /\ audited' = audited /\ view.at = "posting"
        /\ post.at = "received" /\ request' = request
    BY <1>3 DEF RouteRefuses, caseVars
  <2> QED
    BY <1>0, <2>1, RedirectedType
       DEF ConsoleInv, ConsoleTypeOK, PostIsTheRequest, NoticeIsOfTheLast, Posts, NoPost,
           Operations, Free
<1>4. CASE ConnectionLost
  <2>1. Redirected("error") /\ post' = post /\ audited' = audited /\ view.at = "posting"
        /\ request' = request
    BY <1>4 DEF ConnectionLost, caseVars
  <2> QED
    BY <1>0, <2>1, RedirectedType
       DEF ConsoleInv, ConsoleTypeOK, PostIsTheRequest, NoticeIsOfTheLast, Free
<1>5. CASE AuditWritten
  BY <1>0, <1>5
     DEF AuditWritten, ConsoleInv, ConsoleTypeOK, PostIsTheRequest, NoticeIsOfTheLast, Posts,
         caseVars, Free
<1>6. CASE CallBegins
  <2>1. ~Free(Operator)'
    BY <1>6, OperatorsCall
  <2>2. post.at = "execute" /\ post' = [post EXCEPT !.at = "executing"]
        /\ view' = view /\ audited' = audited
    BY <1>6 DEF CallBegins
  <2> QED
    BY <1>0, <2>1, <2>2
       DEF ConsoleInv, ConsoleTypeOK, PostIsTheRequest, NoticeIsOfTheLast, Posts
<1>7. ASSUME NEW n \in {"ok", "error"}, PostEnds(n), Free(Operator)', audited
      PROVE  ConsoleInv'
  BY <1>0, <1>7, RedirectedType
     DEF PostEnds, ConsoleInv, ConsoleTypeOK, PostIsTheRequest, NoticeIsOfTheLast, Posts,
         NoPost, Operations
<1>8. CASE CallNotDue
  <2>1. post.at = "execute" /\ \E n \in {"ok", "error"} : PostEnds(n)
    BY <1>8 DEF CallNotDue
  <2>2. Free(Operator) /\ audited
    BY <2>1 DEF ConsoleInv, PostIsTheRequest
  <2>3. Free(Operator)'
    BY <1>8, <2>2 DEF CallNotDue, caseVars, Free
  <2> QED
    BY <1>7, <2>1, <2>2, <2>3
<1>9. CASE PostDies
  <2>1. post.at \in {"received", "execute"} /\ PostEnds("error") /\ request' = request
    BY <1>9 DEF PostDies, caseVars
  <2> QED
    BY <1>0, <2>1, RedirectedType
       DEF PostEnds, ConsoleInv, ConsoleTypeOK, PostIsTheRequest, NoticeIsOfTheLast, Posts,
           NoPost, Operations, Free
<1>10. CASE CallContinues
  <2>1. ~Free(Operator) /\ ~Free(Operator)'
    BY <1>10, OperatorsCall
  <2> QED
    BY <1>0, <1>10, <2>1
       DEF CallContinues, consoleVars, ConsoleInv, ConsoleTypeOK, PostIsTheRequest,
           NoticeIsOfTheLast
<1>11. CASE CallEnds
  <2>1. ~Free(Operator) /\ Free(Operator)'
    BY <1>11, OperatorsCall
  <2>2. \E n \in {"ok", "error"} : PostEnds(n)
    BY <1>11 DEF CallEnds
  <2>3. audited
    BY <2>1 DEF ConsoleInv, PostIsTheRequest
  <2> QED
    BY <1>7, <2>1, <2>2, <2>3
<1>12. CASE OthersWork /\ ~CallBegins /\ ~CallContinues /\ ~CallEnds
  <2>1. Free(Operator)' <=> Free(Operator)
    BY <1>12, OperatorsCall DEF Free
  <2> QED
    BY <1>0, <1>12, <2>1
       DEF OthersWork, consoleVars, ConsoleInv, ConsoleTypeOK, PostIsTheRequest,
           NoticeIsOfTheLast
<1> QED
  BY <1>1, <1>2, <1>3, <1>4, <1>5, <1>6, <1>8, <1>9, <1>10, <1>11, <1>12 DEF ConsoleStep

-----------------------------------------------------------------------------
(* The mobile application's walkthrough. *)

PreviewInv == PreviewTypeOK /\ PreviewNeedsEntry

\* Wherever a link leads, the page that shows is one the visitor is admitted to.
LEMMA AdmittedPage ==
  ASSUME NEW p \in Pages, NEW mobile, NEW entered \in BOOLEAN
  PROVE  /\ Admitted(p, mobile, entered) \in Pages
         /\ Admitted(p, mobile, entered) \notin Entry => entered
         /\ Admitted(p, mobile, entered) = "otp" => mobile = "complete"
  BY DEF Admitted, Pages, Entry

\* A page is opened while what the visitor has chosen stays acceptable.
LEMMA ArrivalKeeps ==
  ASSUME PreviewTypeOK, NEW p \in Pages, Arrive(p), UNCHANGED <<demoMobile, previewSignedIn>>,
         contractRole' \in {"Tenant", "Owner"}, ownerSettlement' \in {"monthly", "fund"}
  PROVE  PreviewInv'
<1>1. /\ page' \in Pages
      /\ page' \notin Entry => previewSignedIn
      /\ page' = "otp" => demoMobile = "complete"
  BY AdmittedPage DEF PreviewTypeOK, Arrive
<1>2. marked' \in BOOLEAN
  BY DEF Arrive, StartsWith
<1> QED
  BY <1>1, <1>2 DEF PreviewInv, PreviewTypeOK, PreviewNeedsEntry

\* A visit to another page keeps what the walkthrough promises of entering it.
LEMMA VisitKeeps ==
  ASSUME PreviewTypeOK, NEW ps \in SUBSET Pages, Visit(ps)
  PROVE  PreviewInv'
<1>1. PICK p \in ps : Arrive(p)
  BY DEF Visit
<1> QED
  BY <1>1, ArrivalKeeps DEF Visit, choices, PreviewTypeOK

\* What is typed, ticked or chosen on a page leaves the visitor where he is.
LEMMA MarkKeeps ==
  ASSUME PreviewInv, UNCHANGED <<page, demoMobile, previewSignedIn>>, marked' \in BOOLEAN,
         contractRole' \in {"Tenant", "Owner"}, ownerSettlement' \in {"monthly", "fund"}
  PROVE  PreviewInv'
  BY DEF PreviewInv, PreviewTypeOK, PreviewNeedsEntry

\* The step lemma of the walkthrough.
LEMMA PreviewKeeps ==
  ASSUME PreviewInv, PreviewStep
  PROVE  PreviewInv'
<1> DEFINE Visits == \E ps \in SUBSET Pages : Visit(ps)
           Marking == UNCHANGED <<page, demoMobile, previewSignedIn>> /\ marked' \in BOOLEAN
                      /\ contractRole' \in {"Tenant", "Owner"}
                      /\ ownerSettlement' \in {"monthly", "fund"}
<1> HIDE DEF Visits, Marking
<1>0. PreviewTypeOK
  BY DEF PreviewInv
<1>1. ASSUME NEW ps, ps \subseteq Pages, Visit(ps)
      PROVE  Visits
  BY <1>1 DEF Visits
<1>2. CASE Visits
  BY <1>0, <1>2, VisitKeeps DEF Visits
<1>3. CASE Marking
  BY <1>3, MarkKeeps DEF Marking
<1>4. CASE StartPreview \/ GoToCode \/ ReadTerms \/ LeaveTerms \/ EditMobile \/ FollowLink
  <2>1. \E ps : ps \subseteq Pages /\ Visit(ps)
    BY <1>4
       DEF StartPreview, GoToCode, ReadTerms, LeaveTerms, EditMobile, FollowLink, Pages, Entry
  <2> QED
    BY <1>1, <1>2, <2>1
<1>5. CASE LeavePreview
  BY <1>5 DEF LeavePreview, ForgetsPreview, PreviewInv, PreviewTypeOK, PreviewNeedsEntry
<1>6. CASE TypeMobile
  BY <1>0, <1>6 DEF TypeMobile, PreviewInv, PreviewTypeOK, PreviewNeedsEntry, Entry
<1>7. CASE EnterPreview
  BY <1>0, <1>7
     DEF EnterPreview, PreviewInv, PreviewTypeOK, PreviewNeedsEntry, Pages, TenantPages, Entry
<1>8. CASE TypeCode
  <2>1. Marking
    BY <1>0, <1>8 DEF TypeCode, Marking, choices, PreviewTypeOK
  <2> QED
    BY <1>3, <2>1
<1>9. CASE MockContracts
  <2>1. CASE contractRole' = "Owner" /\ Arrive("owner-connected")
             /\ UNCHANGED <<demoMobile, previewSignedIn, ownerSettlement>>
    BY <1>0, <2>1, ArrivalKeeps DEF Pages, OwnerPages, PreviewTypeOK
  <2>2. CASE Visit({"contract-tracking", "contract-detail", "review"} \cup BottomNav)
    <3>1. {"contract-tracking", "contract-detail", "review"} \cup BottomNav \subseteq Pages
      BY DEF BottomNav, Pages, TenantPages
    <3> QED
      BY <1>1, <1>2, <2>2, <3>1
  <2> QED
    BY <1>9, <2>1, <2>2 DEF MockContracts
<1>10. CASE \/ MockContractTracking \/ MockContractLookup \/ MockSettlementPreference
            \/ MockOwnerConfirmation
  <2>1. CASE MockContractTracking
    <3>1. Marking \/ \E ps : ps \subseteq Pages /\ Visit(ps)
      BY <1>0, <2>1
         DEF MockContractTracking, Marking, choices, PreviewTypeOK, BottomNav, Pages, TenantPages
    <3> QED
      BY <1>1, <1>2, <1>3, <3>1
  <2>2. CASE MockContractLookup
    <3>1. Marking \/ \E ps : ps \subseteq Pages /\ Visit(ps)
      BY <1>0, <2>2
         DEF MockContractLookup, Marking, PreviewTypeOK, Pages, TenantPages, OwnerPages
    <3> QED
      BY <1>1, <1>2, <1>3, <3>1
  <2>3. CASE MockSettlementPreference
    <3>1. Marking \/ \E ps : ps \subseteq Pages /\ Visit(ps)
      BY <1>0, <2>3
         DEF MockSettlementPreference, Marking, PreviewTypeOK, Pages, OwnerPages
    <3> QED
      BY <1>1, <1>2, <1>3, <3>1
  <2>4. CASE MockOwnerConfirmation
    <3>1. Marking \/ \E ps : ps \subseteq Pages /\ Visit(ps)
      BY <1>0, <2>4
         DEF MockOwnerConfirmation, Marking, choices, PreviewTypeOK, Pages, OwnerPages
    <3> QED
      BY <1>1, <1>2, <1>3, <3>1
  <2> QED
    BY <1>10, <2>1, <2>2, <2>3, <2>4
<1>11. CASE \/ MockHome \/ MockCalculator \/ MockCalculatorResult \/ MockOwnerContract
            \/ MockFinancingPlans \/ MockPlanConfirmation \/ MockReview \/ MockApproved
            \/ MockRejected \/ MockMembership \/ MockMembershipResult
  <2>1. \E ps : ps \subseteq Pages /\ Visit(ps)
    BY <1>11
       DEF MockHome, MockCalculator, MockCalculatorResult, MockOwnerContract,
           MockFinancingPlans, MockPlanConfirmation, MockReview, MockApproved, MockRejected,
           MockMembership, MockMembershipResult, BottomNav, Pages, TenantPages, OwnerPages
  <2> QED
    BY <1>1, <1>2, <2>1
<1>12. CASE \/ MockContribution \/ MockContributionResult \/ MockFinalConfirmation
            \/ MockProfile \/ MockContractActive \/ MockContractDetail \/ MockPayments
            \/ MockReceipt \/ MockPaymentOutcome
  <2>1. \E ps : ps \subseteq Pages /\ Visit(ps)
    BY <1>12
       DEF MockContribution, MockContributionResult, MockFinalConfirmation, MockProfile,
           MockContractActive, MockContractDetail, MockPayments, MockReceipt,
           MockPaymentOutcome, BottomNav, Pages, TenantPages
  <2> QED
    BY <1>1, <1>2, <2>1
<1>13. CASE \/ MockConnected \/ MockActive \/ MockReceivePay \/ MockTerminated \/ MockAccount
  <2>1. \E ps : ps \subseteq Pages /\ Visit(ps)
    BY <1>13
       DEF MockConnected, MockActive, MockReceivePay, MockTerminated, MockAccount,
           OwnerFooterNav, Pages, TenantPages, OwnerPages
  <2> QED
    BY <1>1, <1>2, <2>1
<1> QED
  BY <1>4, <1>5, <1>6, <1>7, <1>8, <1>9, <1>10, <1>11, <1>12, <1>13 DEF PreviewStep

-----------------------------------------------------------------------------
(* The tenant's and owner's web panel. *)

\* What is marked on a page of a choice is one of its options.
MarksAreOptions ==
  /\ where = "plans" => form \in Plans
  /\ where = "membership" => form \in Memberships
  /\ where = "settlement-preference" => form \in Methods
WalkthroughInv == WalkthroughTypeOK /\ MarksAreOptions /\ SelectionsAreCarried

\* Parameters, as links carry them and as the trail remembers them.
Selections ==
  [plan : Plans \cup {"none"}, membership : Memberships \cup {"none"},
   method : Methods \cup {"none"}, transaction : Transactions \cup {"none"},
   scenario : {"none", "termination"}]

\* What the rest of a page's promise is, once it is known which page shows.
CarriedTo(p, q, t) ==
  /\ p \in PlanPath /\ t.plan # "none" => PlanOf(q) = t.plan
  /\ p = "membership-result" /\ t.membership # "none" => ChosenMembership(q) = t.membership
  /\ t.method # "none" =>
       /\ p = "owner-final-confirmation" => ConfirmedMethod(q) = t.method
       /\ p = "owner" => OwnerMethod(q) = t.method
       /\ p \in {"receive-pay", "payment-result", "receipt"} => q.method = t.method
  /\ t.transaction # "none" =>
       /\ p = "payment-result" => PaidTransaction(q) = t.transaction
       /\ p = "receipt" => ReceiptKey(q) = t.transaction

\* A page that is opened by a link that carries what the trail says.
LEMMA GoingKeeps ==
  ASSUME WalkthroughTypeOK, NEW p \in Routes, NEW q \in Selections, NEW t \in Selections,
         Goes(p, q, t), CarriedTo(p, q, t)
  PROVE  WalkthroughInv'
<1>1. /\ where' \in Routes /\ query' \in Selections /\ trail' \in Selections
      /\ kept' \in [notifications : BOOLEAN, iban : BOOLEAN]
  BY DEF Goes, WalkthroughTypeOK
<1>2. form' \in Plans \cup Memberships \cup Methods \cup {"blank", "ready", "tenant", "owner"}
  BY DEF Goes, Marked, Plans, Memberships, Methods
<1>3. MarksAreOptions'
  BY DEF Goes, Marked, MarksAreOptions, Plans, Memberships, Methods
<1>4. SelectionsAreCarried'
  BY DEF Goes, CarriedTo, SelectionsAreCarried
<1> QED
  BY <1>1, <1>2, <1>3, <1>4 DEF WalkthroughInv, WalkthroughTypeOK, Selections

\* A page that is opened without parameters follows no path.
LEMMA OpeningKeeps ==
  ASSUME WalkthroughTypeOK, NEW ps, ps \subseteq Routes, Opens(ps)
  PROVE  WalkthroughInv'
<1>1. PICK p \in ps : Goes(p, Nothing, Nothing)
  BY DEF Opens
<1>2. Nothing \in Selections /\ CarriedTo(p, Nothing, Nothing)
  BY DEF Nothing, Selections, CarriedTo
<1> QED
  BY <1>1, <1>2, GoingKeeps

\* What is marked leaves the page and its parameters as they are.
LEMMA MarkingKeeps ==
  ASSUME WalkthroughInv, NEW values, Marks(values),
         values \subseteq Plans \cup Memberships \cup Methods \cup
                            {"blank", "ready", "tenant", "owner"},
         where = "plans" => values \subseteq Plans,
         where = "membership" => values \subseteq Memberships,
         where = "settlement-preference" => values \subseteq Methods
  PROVE  WalkthroughInv'
<1>1. /\ form' \in values
      /\ where' = where /\ query' = query /\ trail' = trail /\ kept' = kept
  BY DEF Marks
<1> QED
  BY <1>1 DEF WalkthroughInv, WalkthroughTypeOK, MarksAreOptions, SelectionsAreCarried

\* The parameters a link writes, and what a page reads from parameters.
LEMMA LinksType ==
  ASSUME NEW q \in Selections
  PROVE  /\ WithPlan(PlanOf(q)) \in Selections
         /\ With(Nothing, q.method) \in Selections
         /\ With(Nothing, OwnerMethod(q)) \in Selections
         /\ With(Nothing, ConfirmedMethod(q)) \in Selections
         /\ \A p \in Plans : WithPlan(p) \in Selections /\ PlanOf(WithPlan(p)) = p
         /\ \A m \in Methods : With(Nothing, m) \in Selections
         /\ PlanOf(q) \in Plans
         /\ PlanOf(WithPlan(PlanOf(q))) = PlanOf(q)
<1>1. \A p \in Plans : WithPlan(p) \in Selections /\ PlanOf(WithPlan(p)) = p
  BY DEF WithPlan, PlanOf, Nothing, Selections, Plans
<1>2. \A m \in Methods \cup {"none"} : With(Nothing, m) \in Selections
  BY DEF With, Nothing, Selections
<1>3. PlanOf(q) \in Plans
  BY DEF PlanOf, Plans
<1>4. {q.method, OwnerMethod(q), ConfirmedMethod(q)} \subseteq Methods \cup {"none"}
  BY DEF Selections, OwnerMethod, ConfirmedMethod, Methods
<1> QED
  BY <1>1, <1>2, <1>3, <1>4

\* The step lemma of the panel.
LEMMA WalkthroughKeeps ==
  ASSUME WalkthroughInv, WalkthroughStep
  PROVE  WalkthroughInv'
<1> DEFINE Opening == \E ps : ps \subseteq Routes /\ Opens(ps)
<1> HIDE DEF Opening
<1>0. /\ WalkthroughTypeOK /\ query \in Selections /\ trail \in Selections
      /\ where \in Routes /\ MarksAreOptions
  BY DEF WalkthroughInv, WalkthroughTypeOK, Selections
<1>1. CASE Opening
  BY <1>0, <1>1, OpeningKeeps DEF Opening
<1>2. ASSUME NEW values, Marks(values), values \subseteq {"blank", "ready", "tenant", "owner"},
             where \notin {"plans", "membership", "settlement-preference"}
      PROVE  WalkthroughInv'
  BY <1>2, MarkingKeeps
<1>3. ASSUME NEW p, p \in PlanPath, p # "membership-result", where \in PlanPath,
             Carries(p, WithPlan(PlanOf(query)))
      PROVE  WalkthroughInv'
  <2>1. CarriedTo(p, WithPlan(PlanOf(query)), trail)
    <3>1. trail.plan # "none" => PlanOf(query) = trail.plan
      BY <1>3 DEF WalkthroughInv, SelectionsAreCarried
    <3>2. p \notin {"membership-result", "owner-final-confirmation", "owner", "receive-pay",
                    "payment-result", "receipt"}
      BY <1>3 DEF PlanPath
    <3> QED
      BY <1>0, <3>1, <3>2, LinksType DEF CarriedTo
  <2>2. p \in Routes
    BY <1>3 DEF Routes
  <2> QED
    BY <1>0, <1>3, <2>1, <2>2, GoingKeeps, LinksType DEF Carries
<1>4. ASSUME NEW p, p \in {"membership", "contribution"},
             where = "membership-result", Goes(p, WithPlan(PlanOf(query)), PastPayment)
      PROVE  WalkthroughInv'
  <2>1. PastPayment \in Selections /\ PastPayment.plan = trail.plan
    BY <1>0 DEF PastPayment, Selections
  <2>2. trail.plan # "none" => PlanOf(query) = trail.plan
    BY <1>4 DEF WalkthroughInv, SelectionsAreCarried, PlanPath
  <2>3. CarriedTo(p, WithPlan(PlanOf(query)), PastPayment)
    BY <1>0, <1>4, <2>1, <2>2, LinksType DEF CarriedTo
  <2>4. p \in Routes
    BY <1>4 DEF Routes, PlanPath
  <2> QED
    BY <1>0, <1>4, <2>1, <2>3, <2>4, GoingKeeps, LinksType

\* Pages whose links carry nothing.
<1>5. CASE \/ UserPanelSidebar \/ UserPanelExit \/ OpensAddress
           \/ ContractsPage \/ PropertiesPage \/ SampleContractDetail \/ CalculatorPage
           \/ ContractPage \/ ChangeMobilePage \/ ChangeMobileOtpPage \/ ProfileImagePage
           \/ ProfileImagePreviewPage \/ IdentityVerificationPage
  <2>1. Opening
    BY <1>5
       DEF Opening, UserPanelSidebar, UserPanelExit, OpensAddress, ContractsPage, PropertiesPage,
           SampleContractDetail, CalculatorPage, ContractPage, ChangeMobilePage,
           ChangeMobileOtpPage, ProfileImagePage, ProfileImagePreviewPage,
           IdentityVerificationPage, Routes, Account, OwnerPath
  <2> QED
    BY <1>1, <2>1
<1>6. CASE \/ FinancingNotApprovedPage \/ MembershipPaymentSuccessPage
           \/ MembershipPaymentPendingPage \/ MembershipPaymentFailedPage
           \/ MembershipPendingPage \/ MembershipFailedPage \/ WaitingOwnerPage
           \/ OwnerContractConnectedPage
  <2>1. Opening
    BY <1>6
       DEF Opening, FinancingNotApprovedPage, MembershipPaymentSuccessPage,
           MembershipPaymentPendingPage, MembershipPaymentFailedPage, MembershipPendingPage,
           MembershipFailedPage, WaitingOwnerPage, OwnerContractConnectedPage,
           Routes, Account, OwnerPath, PlanPath, PaymentReturns
  <2> QED
    BY <1>1, <2>1
\* Pages that mark something.
<1>7. CASE UserHomePage
  <2>1. CASE Goes("membership", WithPlan("staff"), WithPlan("staff"))
    <3>1. WithPlan("staff") \in Selections /\ PlanOf(WithPlan("staff")) = "staff"
          /\ WithPlan("staff").method = "none" /\ WithPlan("staff").transaction = "none"
      BY <1>0, LinksType DEF Plans, WithPlan, Nothing
    <3>2. CarriedTo("membership", WithPlan("staff"), WithPlan("staff"))
      BY <3>1 DEF CarriedTo, WithPlan
    <3>3. "membership" \in Routes
      BY DEF Routes, PlanPath
    <3> QED
      BY <1>0, <2>1, <3>1, <3>2, <3>3, GoingKeeps
  <2>2. CASE Opening
    BY <1>1, <2>2
  <2> QED
    BY <1>7, <2>1, <2>2 DEF UserHomePage, Opening, Routes, OwnerPath, Account
<1>8. CASE TerminatedPage
  <2>1. PICK q : /\ q = [Nothing EXCEPT !.scenario = "termination"]
                 /\ Goes("receive-pay", q, Nothing)
    BY <1>8 DEF TerminatedPage
  <2>2. q \in Selections /\ Nothing \in Selections /\ CarriedTo("receive-pay", q, Nothing)
    BY <2>1 DEF Nothing, Selections, CarriedTo
  <2>3. "receive-pay" \in Routes
    BY DEF Routes, OwnerPath
  <2> QED
    BY <1>0, <2>1, <2>2, <2>3, GoingKeeps
<1>9. CASE AccountPage
  <2>1. CASE kept' = [kept EXCEPT !.notifications = ~@] /\ UNCHANGED <<where, query, form, trail>>
    <3>1. kept' \in [notifications : BOOLEAN, iban : BOOLEAN]
      BY <1>0, <2>1 DEF WalkthroughTypeOK
    <3> QED
      BY <2>1, <3>1
         DEF WalkthroughInv, WalkthroughTypeOK, MarksAreOptions, SelectionsAreCarried
  <2>2. CASE Opening
    BY <1>1, <2>2
  <2> QED
    BY <1>9, <2>1, <2>2 DEF AccountPage, Opening, Routes, Account, PlanPath
<1>10. CASE IbanForm
  <2>1. CASE Marks({"blank", "ready"})
    BY <1>2, <1>10, <2>1 DEF IbanForm
  <2>2. CASE Opening
    BY <1>1, <2>2
  <2>3. CASE /\ kept' = [kept EXCEPT !.iban = TRUE]
             /\ where' = "account" /\ form' = "blank" /\ query' = Nothing /\ trail' = Nothing
    <3>1. kept' \in [notifications : BOOLEAN, iban : BOOLEAN]
      BY <1>0, <2>3 DEF WalkthroughTypeOK
    <3>2. query' \in Selections /\ trail' \in Selections /\ where' \in Routes
      BY <2>3 DEF Nothing, Selections, Routes, Account
    <3>3. SelectionsAreCarried'
      BY <2>3 DEF SelectionsAreCarried, Nothing, PlanPath
    <3> QED
      BY <2>3, <3>1, <3>2, <3>3
         DEF WalkthroughInv, WalkthroughTypeOK, Selections, MarksAreOptions
  <2> QED
    BY <1>10, <2>1, <2>2, <2>3 DEF IbanForm, Opening, Routes, Account
<1>11. CASE RegisterPage \/ TrackingCodePreviewForm \/ ContractLookupResultPage
  <2>1. CASE Marks({"blank", "ready"}) /\ where = "register"
    BY <1>2, <2>1
  <2>2. CASE Marks({"tenant", "owner"}) /\ where = "lookup-result"
    BY <1>2, <2>2
  <2>3. CASE Opening
    BY <1>1, <2>3
  <2> QED
    BY <1>11, <2>1, <2>2, <2>3
       DEF RegisterPage, TrackingCodePreviewForm, ContractLookupResultPage, Opening, Routes
\* The tenant's path.
<1>12. CASE FinancingPlansPage
  <2>1. CASE Marks(Plans)
    BY <1>12, <2>1, MarkingKeeps DEF FinancingPlansPage
  <2>2. CASE Goes("confirmation", WithPlan(form), WithPlan(form))
    <3>1. form \in Plans
      BY <1>0, <1>12 DEF FinancingPlansPage, MarksAreOptions
    <3>2. /\ WithPlan(form) \in Selections /\ PlanOf(WithPlan(form)) = form
          /\ WithPlan(form).plan = form
      BY <1>0, <3>1, LinksType DEF WithPlan, Nothing
    <3>3. CarriedTo("confirmation", WithPlan(form), WithPlan(form))
      BY <3>2 DEF CarriedTo
    <3>4. "confirmation" \in Routes
      BY DEF Routes, PlanPath
    <3> QED
      BY <1>0, <2>2, <3>2, <3>3, <3>4, GoingKeeps
  <2>3. CASE Opening
    BY <1>1, <2>3
  <2> QED
    BY <1>12, <2>1, <2>2, <2>3 DEF FinancingPlansPage, Opening, Routes
<1>13. CASE ConfirmationPage \/ FinalConfirmationPage
  <2>1. CASE Marks({"blank", "ready"}) /\ where \in {"confirmation", "final-confirmation"}
    BY <1>2, <2>1
  <2>2. CASE /\ where \in {"confirmation", "final-confirmation"}
             /\ \E q \in {"review", "waiting-owner"} : Carries(q, WithPlan(PlanOf(query)))
    BY <1>3, <2>2 DEF PlanPath
  <2>3. CASE Opening
    BY <1>1, <2>3
  <2> QED
    BY <1>13, <2>1, <2>2, <2>3
       DEF ConfirmationPage, FinalConfirmationPage, PlanConfirmationConsent,
           FinalConfirmationConsent, Consents, Opening, Routes
<1>14. CASE FinancingUnderReviewPage \/ FinancingApprovedPage \/ ContributionPage
  <2>1. CASE /\ where \in {"review", "approved", "contribution"}
             /\ \E q \in {"approved", "not-approved", "membership", "final-confirmation"} :
                  Carries(q, WithPlan(PlanOf(query)))
    BY <1>3, <2>1 DEF PlanPath
  <2>2. CASE Opening
    BY <1>1, <2>2
  <2> QED
    BY <1>14, <2>1, <2>2
       DEF FinancingUnderReviewPage, FinancingApprovedPage, ContributionPage, Opening, Routes
<1>15. CASE MembershipPage
  <2>0. form \in Memberships /\ where = "membership"
    BY <1>0, <1>15 DEF MembershipPage, MarksAreOptions
  <2>1. CASE Marks(Memberships)
    BY <2>0, <2>1, MarkingKeeps
  <2>2. CASE Goes("membership-result", [WithPlan(PlanOf(query)) EXCEPT !.membership = form],
                  [trail EXCEPT !.membership = form])
    <3> DEFINE q == [WithPlan(PlanOf(query)) EXCEPT !.membership = form]
               t == [trail EXCEPT !.membership = form]
    <3>1. /\ WithPlan(PlanOf(query)) \in Selections
          /\ PlanOf(WithPlan(PlanOf(query))) = PlanOf(query)
      BY <1>0, LinksType
    <3>2. /\ q \in Selections /\ q.plan = WithPlan(PlanOf(query)).plan
          /\ q.membership = form
      BY <2>0, <3>1 DEF Selections
    <3>3. /\ t \in Selections /\ t.plan = trail.plan /\ t.membership = form
      BY <1>0, <2>0 DEF Selections
    <3>4. trail.plan # "none" => PlanOf(query) = trail.plan
      BY <2>0 DEF WalkthroughInv, SelectionsAreCarried, PlanPath
    <3>5. PlanOf(q) = PlanOf(query)
      BY <3>1, <3>2 DEF PlanOf
    <3>6. ChosenMembership(q) = form
      BY <2>0, <3>2 DEF ChosenMembership, Memberships
    <3>7. CarriedTo("membership-result", q, t)
      BY <3>3, <3>4, <3>5, <3>6 DEF CarriedTo
    <3>8. "membership-result" \in Routes
      BY DEF Routes, PlanPath
    <3> QED
      BY <1>0, <2>2, <3>2, <3>3, <3>7, <3>8, GoingKeeps
  <2>3. CASE \E p \in {"approved", "contribution"} : Carries(p, WithPlan(PlanOf(query)))
    BY <1>3, <2>0, <2>3 DEF PlanPath
  <2> QED
    BY <1>15, <2>1, <2>2, <2>3 DEF MembershipPage
<1>16. CASE MembershipResultPage
  <2>1. CASE Opening
    BY <1>1, <2>1
  <2> QED
    BY <1>4, <1>16, <2>1 DEF MembershipResultPage, Opening, Routes, Account
\* The owner's path.
<1>17. CASE OwnerSettlementPreferencePage
  <2>0. form \in Methods /\ where = "settlement-preference"
    BY <1>0, <1>17 DEF OwnerSettlementPreferencePage, MarksAreOptions
  <2>1. CASE Marks(Methods)
    BY <2>0, <2>1, MarkingKeeps
  <2>2. ASSUME NEW p \in {"owner", "owner-final-confirmation"},
               Goes(p, With(Nothing, form), With(Nothing, form))
        PROVE  WalkthroughInv'
    <3>1. /\ With(Nothing, form) \in Selections /\ With(Nothing, form).method = form
          /\ With(Nothing, form).plan = "none" /\ With(Nothing, form).transaction = "none"
          /\ With(Nothing, form).membership = "none"
      BY <1>0, <2>0, LinksType DEF With, Nothing
    <3>2. CarriedTo(p, With(Nothing, form), With(Nothing, form))
      BY <2>0, <3>1 DEF CarriedTo, ConfirmedMethod, OwnerMethod, Methods
    <3>3. p \in Routes
      BY DEF Routes, OwnerPath
    <3> QED
      BY <1>0, <2>2, <3>1, <3>2, <3>3, GoingKeeps
  <2> QED
    BY <1>17, <2>1, <2>2 DEF OwnerSettlementPreferencePage
\* A link of the owner's path, with the method it carries.
<1>18. ASSUME NEW p, p \in {"owner", "receive-pay"}, NEW m,
              m \in {OwnerMethod(query), ConfirmedMethod(query)},
              trail.method # "none" => m = trail.method,
              Carries(p, With(Nothing, m))
       PROVE  WalkthroughInv'
  <2>1. m \in Methods
    BY <1>18 DEF OwnerMethod, ConfirmedMethod, Methods
  <2>2. With(Nothing, m) \in Selections /\ With(Nothing, m).method = m
    BY <1>0, <2>1, LinksType DEF With, Nothing
  <2>3. CarriedTo(p, With(Nothing, m), trail)
    BY <1>18, <2>1, <2>2 DEF CarriedTo, OwnerMethod, Methods, PlanPath
  <2>4. p \in Routes
    BY <1>18 DEF Routes, OwnerPath
  <2> QED
    BY <1>0, <1>18, <2>2, <2>3, <2>4, GoingKeeps DEF Carries
<1>19. CASE OwnerFinalConfirmationPage
  <2>1. CASE Marks({"blank", "ready"})
    BY <1>2, <1>19, <2>1 DEF OwnerFinalConfirmationPage
  <2>2. CASE Carries("owner", With(Nothing, ConfirmedMethod(query)))
    BY <1>18, <1>19, <2>2
       DEF OwnerFinalConfirmationPage, WalkthroughInv, SelectionsAreCarried
  <2>3. CASE Opening
    BY <1>1, <2>3
  <2> QED
    BY <1>19, <2>1, <2>2, <2>3
       DEF OwnerFinalConfirmationPage, OwnerFinalConfirmationConsent, Consents, Opening, Routes
<1>20. CASE OwnerContractActivePage
  BY <1>18, <1>20 DEF OwnerContractActivePage, WalkthroughInv, SelectionsAreCarried
<1>21. CASE ReceivePayPage
  <2>1. CASE query.method # "none" /\ Carries("owner", With(Nothing, OwnerMethod(query)))
    <3>1. trail.method # "none" => query.method = trail.method
      BY <1>21 DEF ReceivePayPage, WalkthroughInv, SelectionsAreCarried
    <3>2. query.method # "none" => OwnerMethod(query) = query.method
      BY <1>0 DEF Selections, OwnerMethod, Methods
    <3> QED
      BY <1>18, <2>1, <3>1, <3>2
  <2>2. CASE Opening
    BY <1>1, <2>2
  <2> QED
    BY <1>21, <2>1, <2>2 DEF ReceivePayPage, Opening, Routes
\* The list of payments, and one of them.
<1>22. ASSUME where \in {"receive-pay", "payment-result", "receipt"}
       PROVE  trail.method # "none" => query.method = trail.method
  BY <1>22 DEF WalkthroughInv, SelectionsAreCarried
<1>23. CASE ReceivePayActivities
  <2>1. ASSUME NEW x \in Transactions,
               Goes(IF x \in {"overdue", "due"} THEN "payment-result" ELSE "receipt",
                    [Nothing EXCEPT !.transaction = x, !.method = query.method],
                    [trail EXCEPT !.transaction = x])
        PROVE  WalkthroughInv'
    <3> DEFINE p == IF x \in {"overdue", "due"} THEN "payment-result" ELSE "receipt"
               q == [Nothing EXCEPT !.transaction = x, !.method = query.method]
               t == [trail EXCEPT !.transaction = x]
    <3>1. query.method \in Methods \cup {"none"}
      BY <1>0 DEF Selections
    <3>2. q \in Selections /\ q.transaction = x /\ q.method = query.method
      BY <3>1 DEF Nothing, Selections
    <3>3. t \in Selections /\ t.transaction = x /\ t.method = trail.method
      BY <1>0 DEF Selections
    <3>4. trail.method # "none" => query.method = trail.method
      BY <1>22, <1>23 DEF ReceivePayActivities
    <3>5. /\ p = "payment-result" => PaidTransaction(q) = x
          /\ p = "receipt" => ReceiptKey(q) = x
      BY <3>2 DEF PaidTransaction, ReceiptKey, Transactions
    <3>6. p \in {"payment-result", "receipt"}
      OBVIOUS
    <3> HIDE DEF p, q, t
    <3>7. CarriedTo(p, q, t)
      BY <3>2, <3>3, <3>4, <3>5, <3>6 DEF CarriedTo, PlanPath
    <3>8. p \in Routes
      BY <3>6 DEF Routes, OwnerPath
    <3> QED
      BY <1>0, <2>1, <3>2, <3>3, <3>7, <3>8, GoingKeeps DEF p, q, t
  <2>2. CASE Opening
    BY <1>1, <2>2
  <2> QED
    BY <1>23, <2>1, <2>2 DEF ReceivePayActivities, Opening, Routes
<1>24. ASSUME where \in {"payment-result", "receipt"}, BackToReceivePay
       PROVE  WalkthroughInv'
  <2> DEFINE t == [trail EXCEPT !.transaction = "none"]
  <2>1. With(Nothing, query.method) \in Selections
        /\ With(Nothing, query.method).method = query.method
    BY <1>0, LinksType DEF With, Nothing
  <2>2. t \in Selections /\ t.transaction = "none" /\ t.method = trail.method
    BY <1>0 DEF Selections
  <2>3. CarriedTo("receive-pay", With(Nothing, query.method), t)
    BY <1>22, <1>24, <2>1, <2>2 DEF CarriedTo, PlanPath
  <2>4. "receive-pay" \in Routes
    BY DEF Routes, OwnerPath
  <2> QED
    BY <1>0, <1>24, <2>1, <2>2, <2>3, <2>4, GoingKeeps DEF BackToReceivePay
<1>25. CASE PaymentResultPage
  <2>1. CASE Carries("receipt", [Nothing EXCEPT !.transaction = PaidTransaction(query),
                                                !.method = query.method])
    <3> DEFINE q == [Nothing EXCEPT !.transaction = PaidTransaction(query),
                                    !.method = query.method]
    <3>1. query.method \in Methods \cup {"none"} /\ PaidTransaction(query) \in Transactions
      BY <1>0 DEF Selections, PaidTransaction, Transactions
    <3>2. q \in Selections /\ q.transaction = PaidTransaction(query) /\ q.method = query.method
      BY <3>1 DEF Nothing, Selections
    <3>3. trail.transaction # "none" => PaidTransaction(query) = trail.transaction
      BY <1>25 DEF PaymentResultPage, WalkthroughInv, SelectionsAreCarried
    <3>4. trail.method # "none" => query.method = trail.method
      BY <1>22, <1>25 DEF PaymentResultPage
    <3>5. ReceiptKey(q) = PaidTransaction(query)
      BY <3>1, <3>2 DEF ReceiptKey
    <3> HIDE DEF q
    <3>6. CarriedTo("receipt", q, trail)
      BY <3>2, <3>3, <3>4, <3>5 DEF CarriedTo, PlanPath
    <3>7. "receipt" \in Routes
      BY DEF Routes, OwnerPath
    <3> QED
      BY <1>0, <2>1, <3>2, <3>6, <3>7, GoingKeeps DEF Carries, q
  <2>2. CASE Opening
    BY <1>1, <2>2
  <2> QED
    BY <1>24, <1>25, <2>1, <2>2 DEF PaymentResultPage, Opening, Routes
<1>26. CASE ReceiptPage
  <2>1. CASE Opening
    BY <1>1, <2>1
  <2> QED
    BY <1>24, <1>26, <2>1 DEF ReceiptPage, Opening, Routes
<1> QED
  BY <1>5, <1>6, <1>7, <1>8, <1>9, <1>10, <1>11, <1>12, <1>13, <1>14, <1>15, <1>16, <1>17,
     <1>19, <1>20, <1>21, <1>23, <1>25, <1>26 DEF WalkthroughStep

-----------------------------------------------------------------------------
(* The panels' storage. *)

\* A list is a suffix of itself, and of the list that got a newcomer in front.
LEMMA SuffixOfItself ==
  ASSUME NEW S, NEW s \in Seq(S)
  PROVE  IsSuffix(s, s)
<1>1. Reverse(s) \in Seq(S)
  BY DEF Reverse
<1> QED
  BY <1>1 DEF IsSuffix, IsPrefix

\* A list is a suffix of the list with one element put before it.
LEMMA SuffixOfLonger ==
  ASSUME NEW S, NEW s \in Seq(S), NEW n \in S
  PROVE  <<n>> \o s \in Seq(S) /\ IsSuffix(s, <<n>> \o s)
<1> DEFINE old == Reverse(s)
           new == Reverse(<<n>> \o s)
<1>1. old \in Seq(S) /\ Len(old) = Len(s)
  BY DEF Reverse
<1>2. new \in Seq(S) /\ Len(new) = Len(s) + 1 /\ \A i \in 1 .. Len(s) : new[i] = old[i]
  BY DEF Reverse
<1> QED
  BY <1>1, <1>2 DEF IsSuffix, IsPrefix

\* What a page shows of the storage.
LEMMA ReadingsType ==
  ASSUME NEW s \in Stores, panel \in {"bank", "brokerage", "organization"}
  PROVE  /\ Closed \in TabStates
         /\ BankPlansPage(s) \in TabStates /\ BankSettingsPage(s) \in TabStates
         /\ BrokerageSettingsPage(s) \in TabStates /\ OrganizationUsersOverview(s) \in TabStates
         /\ Overview(s) \in TabStates
         /\ Overview(s).page \in {"settings", "users"}
<1>1. Closed \in TabStates
  BY ManagedAssumption DEF Closed, AnyManaged, TabStates, Values
<1>2. s.plans \in Seq(Newcomers) /\ s.users \in Seq(Newcomers) /\ s.info \in Values \cup {"none"}
  BY DEF Stores
<1>3. InactiveUsers(s) \in SUBSET Managed
  BY DEF InactiveUsers
<1>4. OrElse(s.info, "first") \in Values
  BY <1>2 DEF OrElse, Values
<1>5. BankPlansPage(s) \in TabStates
  BY <1>1, <1>2 DEF BankPlansPage, TabStates, BankPages
<1>6. BankSettingsPage(s) \in TabStates /\ BankSettingsPage(s).page = "settings"
  BY <1>1, <1>2, <1>4 DEF BankSettingsPage, TabStates, BankPages
<1>7. BrokerageSettingsPage(s) \in TabStates /\ BrokerageSettingsPage(s).page = "settings"
  BY <1>1, <1>2, <1>3 DEF BrokerageSettingsPage, TabStates, BrokeragePages
<1>8. OrganizationUsersOverview(s) \in TabStates /\ OrganizationUsersOverview(s).page = "users"
  BY <1>1, <1>2, <1>3 DEF OrganizationUsersOverview, TabStates, OrganizationPages
<1> QED
  BY <1>1, <1>5, <1>6, <1>7, <1>8 DEF Overview

\* A step that only reads, and one that saves.
LEMMA ShowingKeeps ==
  ASSUME StorageTypeOK, NEW t \in Tabs, NEW p \in TabStates, Shows(t, p)
  PROVE  StorageTypeOK' /\ KeepsWhatWasSaved
<1>1. store' = store /\ panel' = panel /\ tab' \in [Tabs -> TabStates]
  BY DEF Shows, StorageTypeOK
<1>2. store.users \in Seq(Newcomers) /\ store.plans \in Seq(Newcomers)
  BY DEF StorageTypeOK, Stores
<1> QED
  BY <1>1, <1>2, SuffixOfItself DEF StorageTypeOK, KeepsWhatWasSaved

\* A tab that saves lists with its newcomers in front loses nothing saved before.
LEMMA SavingKeeps ==
  ASSUME StorageTypeOK, NEW t \in Tabs, NEW s \in Stores, NEW p \in TabStates, Saves(t, s, p),
         s.overrides = store.overrides,
         IsSuffix(store.users, s.users), IsSuffix(store.plans, s.plans)
  PROVE  StorageTypeOK' /\ KeepsWhatWasSaved
<1>1. store' = s /\ panel' = panel /\ tab' \in [Tabs -> TabStates]
  BY DEF Saves, StorageTypeOK
<1> QED
  BY <1>1 DEF StorageTypeOK, KeepsWhatWasSaved

\* A user's role or status is saved from a page opened for him, which then closes.
LEMMA UserSavingKeeps ==
  ASSUME StorageTypeOK, NEW t \in Tabs, NEW o \in Overrides, NEW p \in TabStates,
         Saves(t, [store EXCEPT !.overrides[tab[t].who] = o], p),
         tab[t].page \in {"user", "deactivate"}, p.page \in {"settings", "users"},
         o.choice # store.overrides[tab[t].who].choice =>
           tab[t].page = "user" /\ o.choice = tab[t].choice
  PROVE  StorageTypeOK' /\ KeepsWhatWasSaved
<1>1. /\ store \in Stores /\ store.overrides \in [Managed -> Overrides]
      /\ store.users \in Seq(Newcomers) /\ store.plans \in Seq(Newcomers)
      /\ tab \in [Tabs -> TabStates] /\ tab[t].who \in Managed
  BY DEF StorageTypeOK, Stores, TabStates
<1>2. /\ store' = [store EXCEPT !.overrides[tab[t].who] = o]
      /\ panel' = panel /\ tab' = [tab EXCEPT ![t] = p]
  BY DEF Saves
<1>3. /\ store'.overrides = [store.overrides EXCEPT ![tab[t].who] = o]
      /\ store'.users = store.users /\ store'.plans = store.plans
      /\ store' \in Stores
  BY <1>1, <1>2 DEF Stores
<1>4. tab' \in [Tabs -> TabStates] /\ tab'[t] # tab[t]
  BY <1>1, <1>2
<1>5. ASSUME NEW u \in Managed, store'.overrides[u] # store.overrides[u]
      PROVE  u = tab[t].who /\ store'.overrides[u] = o
  BY <1>1, <1>3, <1>5
<1> QED
  BY <1>1, <1>2, <1>3, <1>4, <1>5, SuffixOfItself DEF StorageTypeOK, KeepsWhatWasSaved

\* The step lemma of the storage: a tab that opens or edits a page, and one that saves.
LEMMA StorageKeeps ==
  ASSUME StorageTypeOK, StorageStep
  PROVE  StorageTypeOK' /\ KeepsWhatWasSaved
<1>0. PICK t \in Tabs : TabStep(t)
  BY DEF StorageStep
<1>1. /\ panel \in {"bank", "brokerage", "organization"} /\ store \in Stores
      /\ store.users \in Seq(Newcomers) /\ store.plans \in Seq(Newcomers)
      /\ store.overrides \in [Managed -> Overrides]
      /\ tab[t] \in TabStates
  BY DEF StorageTypeOK, Stores
<1>2. ASSUME NEW p \in TabStates, Shows(t, p)
      PROVE  StorageTypeOK' /\ KeepsWhatWasSaved
  BY <1>2, ShowingKeeps
<1>3. ASSUME NEW s \in Stores, NEW p \in TabStates, Saves(t, s, p), s.overrides = store.overrides,
             s.users = store.users, s.plans = store.plans
      PROVE  StorageTypeOK' /\ KeepsWhatWasSaved
  BY <1>1, <1>3, SavingKeeps, SuffixOfItself
<1>4. CASE OpenBankPage(t)
  <2>1. \A p \in BankPages :
          /\ [BankPlansPage(store) EXCEPT !.page = p] \in TabStates
          /\ [BankSettingsPage(store) EXCEPT !.page = p] \in TabStates
    BY <1>1, ReadingsType DEF TabStates
  <2>2. {"plan-new", "plan-1", "user-new", "api"} \subseteq BankPages
    BY DEF BankPages
  <2> QED
    BY <1>1, <1>2, <1>4, <2>1, <2>2, ReadingsType DEF OpenBankPage
<1>5. CASE OpenPanelPage(t)
  <2>1. \A p \in BrokeragePages \cup OrganizationPages :
          [Overview(store) EXCEPT !.page = p] \in TabStates
    BY <1>1, ReadingsType DEF TabStates
  <2>2. {Overview(store).page, "user-new", "api"} \subseteq BrokeragePages \cup OrganizationPages
    BY <1>1, ReadingsType DEF BrokeragePages, OrganizationPages
  <2> QED
    BY <1>2, <1>5, <2>1, <2>2 DEF OpenPanelPage
<1>6. CASE OpenManageUserForm(t)
  <2>1. PICK u \in Managed, initial \in Values :
          Shows(t, [Overview(store) EXCEPT !.page = "user", !.who = u,
                    !.choice = OrElse(store.overrides[u].choice, initial),
                    !.status = OrElse(store.overrides[u].status, "active")])
    BY <1>6 DEF OpenManageUserForm
  <2>2. store.overrides[u] \in Overrides
    BY <1>1
  <2>3. OrElse(store.overrides[u].choice, initial) \in Values
    BY <2>2 DEF OrElse, Overrides, Values
  <2>4. OrElse(store.overrides[u].status, "active") \in {"active", "inactive"}
    BY <2>2 DEF OrElse, Overrides
  <2>5. Overview(store) \in TabStates
    BY <1>1, ReadingsType
  <2>6. [Overview(store) EXCEPT !.page = "user", !.who = u,
                    !.choice = OrElse(store.overrides[u].choice, initial),
                    !.status = OrElse(store.overrides[u].status, "active")] \in TabStates
    BY <2>3, <2>4, <2>5 DEF TabStates, BrokeragePages
  <2> QED
    BY <1>2, <2>1, <2>6
<1>7. CASE OpenDeactivate(t)
  <2>1. [BrokerageSettingsPage(store) EXCEPT !.page = "deactivate", !.who = tab[t].who]
          \in TabStates
    BY <1>1, ReadingsType DEF TabStates, BrokeragePages
  <2> QED
    BY <1>2, <1>7, <2>1 DEF OpenDeactivate
<1>8. CASE StorageEvent(t)
  <2>1. [tab[t] EXCEPT !.listed = store.users, !.inactive = InactiveUsers(store)] \in TabStates
    BY <1>1 DEF TabStates, InactiveUsers
  <2> QED
    BY <1>2, <1>8, <2>1 DEF StorageEvent
<1>9. CASE EditForm(t) \/ EditStatus(t)
  <2>1. /\ \A c \in Values : [tab[t] EXCEPT !.choice = c] \in TabStates
        /\ \A s \in {"active", "inactive"} : [tab[t] EXCEPT !.status = s] \in TabStates
    BY <1>1 DEF TabStates
  <2> QED
    BY <1>2, <1>9, <2>1 DEF EditForm, EditStatus
<1>10. CASE AddsUser(t)
  <2>1. PICK n \in Newcomers :
          Saves(t, [store EXCEPT !.users = <<n>> \o @],
                Overview([store EXCEPT !.users = <<n>> \o @]))
    BY <1>10 DEF AddsUser
  <2> DEFINE s == [store EXCEPT !.users = <<n>> \o @]
  <2>2. /\ s \in Stores /\ s.overrides = store.overrides
        /\ s.users = <<n>> \o store.users /\ s.plans = store.plans
    BY <1>1, SuffixOfLonger DEF Stores
  <2>3. Overview(s) \in TabStates
    BY <1>1, <2>2, ReadingsType
  <2>4. IsSuffix(store.users, s.users) /\ IsSuffix(store.plans, s.plans)
    BY <1>1, <2>2, SuffixOfLonger, SuffixOfItself
  <2> QED
    BY <2>1, <2>2, <2>3, <2>4, SavingKeeps
<1>11. CASE SavePlan(t)
  <2>1. PICK n \in Newcomers :
          Saves(t, [store EXCEPT !.plans = <<n>> \o @],
                BankPlansPage([store EXCEPT !.plans = <<n>> \o @]))
    BY <1>11 DEF SavePlan
  <2> DEFINE s == [store EXCEPT !.plans = <<n>> \o @]
  <2>2. /\ s \in Stores /\ s.overrides = store.overrides
        /\ s.plans = <<n>> \o store.plans /\ s.users = store.users
    BY <1>1, SuffixOfLonger DEF Stores
  <2>3. BankPlansPage(s) \in TabStates
    BY <1>1, <2>2, ReadingsType
  <2>4. IsSuffix(store.users, s.users) /\ IsSuffix(store.plans, s.plans)
    BY <1>1, <2>2, SuffixOfLonger, SuffixOfItself
  <2> QED
    BY <2>1, <2>2, <2>3, <2>4, SavingKeeps
<1>12. CASE SaveExistingPlan(t)
  <2> DEFINE s == [store EXCEPT !.plan = tab[t].choice]
  <2>1. /\ s \in Stores /\ s.overrides = store.overrides
        /\ s.plans = store.plans /\ s.users = store.users
    BY <1>1 DEF Stores, TabStates
  <2>2. BankPlansPage(s) \in TabStates
    BY <1>1, <2>1, ReadingsType
  <2> QED
    BY <1>3, <1>12, <2>1, <2>2 DEF SaveExistingPlan
<1>13. CASE SaveBankInfo(t)
  <2> DEFINE s == [store EXCEPT !.info = tab[t].choice]
  <2>1. /\ s \in Stores /\ s.overrides = store.overrides
        /\ s.plans = store.plans /\ s.users = store.users
    BY <1>1 DEF Stores, TabStates
  <2> QED
    BY <1>1, <1>3, <1>13, <2>1 DEF SaveBankInfo
<1>14. ASSUME NEW c \in {"connected", "disconnected"}
       PROVE  LET s == [store EXCEPT !.api = c] IN
                /\ s \in Stores /\ s.overrides = store.overrides
                /\ s.plans = store.plans /\ s.users = store.users
                /\ Overview(s) \in TabStates
  <2> DEFINE s == [store EXCEPT !.api = c]
  <2>1. /\ s \in Stores /\ s.overrides = store.overrides
        /\ s.plans = store.plans /\ s.users = store.users
    BY <1>1 DEF Stores
  <2>2. Overview(s) \in TabStates
    BY <1>1, <2>1, ReadingsType
  <2> QED
    BY <2>1, <2>2
<1>15. CASE SaveConnection(t)
  BY <1>3, <1>14, <1>15 DEF SaveConnection
<1>16. CASE OrganizationConnection(t)
  BY <1>1, <1>3, <1>14, <1>16 DEF OrganizationConnection
<1>17. ASSUME NEW o \in Overrides, tab[t].page \in {"user", "deactivate"},
              Saves(t, [store EXCEPT !.overrides[tab[t].who] = o],
                    Overview([store EXCEPT !.overrides[tab[t].who] = o])),
              o.choice # store.overrides[tab[t].who].choice =>
                tab[t].page = "user" /\ o.choice = tab[t].choice
       PROVE  StorageTypeOK' /\ KeepsWhatWasSaved
  <2> DEFINE s == [store EXCEPT !.overrides[tab[t].who] = o]
  <2>1. s \in Stores
    <3>1. [store.overrides EXCEPT ![tab[t].who] = o] \in [Managed -> Overrides]
      BY <1>1, <1>17
    <3> QED
      BY <1>1, <3>1 DEF Stores
  <2>2. Overview(s) \in TabStates /\ Overview(s).page \in {"settings", "users"}
    BY <1>1, <2>1, ReadingsType
  <2> QED
    BY <1>17, <2>2, UserSavingKeeps
<1>18. CASE SaveUser(t)
  <2>1. [choice |-> tab[t].choice, status |-> tab[t].status] \in Overrides
    BY <1>1 DEF Overrides, TabStates
  <2> QED
    BY <1>17, <1>18, <2>1 DEF SaveUser
\* Turning a user on or off keeps his role.
<1>19. ASSUME NEW c \in {"active", "inactive"}, tab[t].page \in {"user", "deactivate"},
              Saves(t, [store EXCEPT !.overrides[tab[t].who].status = c],
                    Overview([store EXCEPT !.overrides[tab[t].who].status = c]))
       PROVE  StorageTypeOK' /\ KeepsWhatWasSaved
  <2> DEFINE o == [store.overrides[tab[t].who] EXCEPT !.status = c]
  <2>1. tab[t].who \in Managed /\ store.overrides[tab[t].who] \in Overrides
    BY <1>1 DEF TabStates
  <2>2. o \in Overrides /\ o.choice = store.overrides[tab[t].who].choice
    BY <2>1 DEF Overrides
  <2>3. [store EXCEPT !.overrides[tab[t].who].status = c]
          = [store EXCEPT !.overrides[tab[t].who] = o]
    BY <1>1, <2>1
  <2> QED
    BY <1>17, <1>19, <2>2, <2>3
<1>20. CASE Activate(t)
  BY <1>19, <1>20 DEF Activate
<1>21. CASE Deactivate(t)
  BY <1>19, <1>21 DEF Deactivate
<1> QED
  BY <1>0, <1>4, <1>5, <1>6, <1>7, <1>8, <1>9, <1>10, <1>11, <1>12, <1>13, <1>15, <1>16,
     <1>18, <1>20, <1>21
     DEF TabStep, BankAddsUser, BrokerageAddsUser, OrganizationAddsUser, BrokerageSavesUser,
         OrganizationSavesUser, BankSavesConnection, BrokerageSavesConnection

-----------------------------------------------------------------------------
(* The console's queues. *)

\* The stamps put the existing items in one order.
Ordered ==
  /\ \A i \in Existing : i \notin listed[i]
  /\ \A i, j \in Existing : i # j => i \in listed[j] \/ j \in listed[i]
  /\ \A i, j \in Existing : i \in listed[j] => listed[i] \subseteq listed[j]

\* As long as nothing fell back, what was neither seen nor touched is behind the pages
\* that have been shown.
Passed == IF screen.at = "shown" THEN screen.page * PageSize ELSE (screen.page - 1) * PageSize
MissedItems == Matching(screen.filter) \ (walk.touched \cup walk.seen)
UnseenIsAhead ==
  screen.at # "closed" /\ ~walk.fellBack =>
    \A i \in MissedItems : Passed <= Before(i, Matching(screen.filter))

QueueInv ==
  /\ QueueTypeOK /\ IsFiniteSet(Existing) /\ Ordered
  /\ UnseenIsAhead /\ NothingUntouchedIsMissed

\* The offsets by which pages are cut.
LEMMA Offsets ==
  ASSUME NEW p \in Nat \ {0}
  PROVE  /\ (p - 1) * PageSize \in Nat /\ p * PageSize \in Nat
         /\ p * PageSize = (p - 1) * PageSize + PageSize
         /\ ((p + 1) - 1) * PageSize = p * PageSize
<1>1. PageSize \in Nat
  BY PageSizeAssumption
<1>2. PICK q \in Nat : p = q + 1
  <2>1. p - 1 \in Nat /\ p = (p - 1) + 1
    OBVIOUS
  <2> QED
    BY <2>1
<1>3. p - 1 = q /\ (p + 1) - 1 = p
  BY <1>2
<1>4. (q + 1) * PageSize = q * PageSize + PageSize /\ q * PageSize \in Nat
  BY <1>1
<1> QED
  BY <1>1, <1>2, <1>3, <1>4

\* How many of a list's items stand before one of them.
LEMMA BeforeIsCounted ==
  ASSUME QueueTypeOK, IsFiniteSet(Existing), NEW items, items \subseteq Existing, NEW i \in Existing
  PROVE  /\ IsFiniteSet(items) /\ IsFiniteSet(listed[i] \cap items)
         /\ Before(i, items) \in Nat
<1>1. IsFiniteSet(items)
  BY FS_Subset
<1>2. IsFiniteSet(listed[i] \cap items)
  BY <1>1, FS_Intersection
<1> QED
  BY <1>1, <1>2, FS_CardinalityType DEF Before

\* An item listed before another one has fewer items before it.
LEMMA FewerBefore ==
  ASSUME QueueTypeOK, IsFiniteSet(Existing), Ordered, NEW items, items \subseteq Existing,
         NEW i \in items, NEW j \in items, j \in listed[i]
  PROVE  Before(j, items) < Before(i, items)
<1>1. listed[j] \cap items \in SUBSET (listed[i] \cap items)
  BY DEF Ordered
<1>2. listed[j] \cap items # listed[i] \cap items
  BY DEF Ordered
<1>3. Before(j, items) <= Before(i, items) /\ Before(j, items) # Before(i, items)
  BY <1>1, <1>2, BeforeIsCounted, FS_Subset DEF Before
<1>4. \A x \in items : Before(x, items) \in Nat
  BY BeforeIsCounted
<1> QED
  BY <1>3, <1>4

\* Of items before a given one, the last has all the others before it.
LEMMA LastBefore ==
  ASSUME QueueTypeOK, IsFiniteSet(Existing), Ordered, NEW items, items \subseteq Existing,
         items # {}
  PROVE  \E z \in items : items \ {z} \subseteq listed[z]
<1> DEFINE T == {items \ listed[z] : z \in items}
<1>1. IsFiniteSet(items)
  BY FS_Subset
<1>2. T # {} /\ T \subseteq SUBSET items
  OBVIOUS
<1>3. PICK s \in T : \A t \in T : t \subseteq s => t = s
  <2> HIDE DEF T
  <2> QED
    BY <1>1, <1>2, MinimalMember
<1>4. PICK z \in items : s = items \ listed[z]
  BY <1>3
<1>5. ASSUME NEW w \in items, w # z, w \notin listed[z]
      PROVE  FALSE
  <2>1. z \in listed[w] /\ listed[z] \subseteq listed[w]
    BY <1>5 DEF Ordered
  <2>2. items \ listed[w] \subseteq s /\ items \ listed[w] \in T
    BY <1>4, <2>1
  <2>3. items \ listed[w] = s
    BY <1>3, <2>2
  <2>4. z \in s
    BY <1>4 DEF Ordered
  <2> QED
    BY <2>1, <2>3, <2>4
<1> QED
  BY <1>5

\* Every place up to that of an item of the list is some item's.
LEMMA EveryPlaceIsTaken ==
  ASSUME QueueTypeOK, IsFiniteSet(Existing), Ordered, NEW items, items \subseteq Existing,
         NEW i \in items, NEW k \in Nat, k <= Before(i, items)
  PROVE  \E y \in items : Before(y, items) = k
<1> DEFINE Far == {y \in items : k <= Before(y, items)}
           T == {listed[y] \cap items : y \in Far}
<1>1. IsFiniteSet(items) /\ T # {} /\ T \subseteq SUBSET items
  BY BeforeIsCounted
<1>2. PICK d \in T : \A t \in T : t \subseteq d => t = d
  <2> HIDE DEF T
  <2> QED
    BY <1>1, MinimalMember
<1>3. PICK y \in items : k <= Before(y, items) /\ d = listed[y] \cap items
  BY <1>2
<1>4. Before(y, items) \in Nat /\ IsFiniteSet(d) /\ Before(y, items) = Cardinality(d)
  BY <1>3, BeforeIsCounted DEF Before
<1>5. ASSUME k < Before(y, items)
      PROVE  FALSE
  <2>1. d # {}
    BY <1>4, <1>5, FS_EmptySet
  <2>2. PICK z \in d : d \ {z} \subseteq listed[z]
    BY <1>3, <2>1, LastBefore
  <2>3. z \in items /\ z \in listed[y] /\ z \notin listed[z] /\ listed[z] \subseteq listed[y]
    BY <1>3, <2>2 DEF Ordered
  <2>4. listed[z] \cap items = d \ {z}
    BY <1>3, <2>2, <2>3
  <2>5. Before(z, items) = Before(y, items) - 1
    BY <1>4, <2>2, <2>4, FS_RemoveElement DEF Before
  <2>6. listed[z] \cap items \in T
    BY <1>4, <1>5, <2>3, <2>5
  <2>7. listed[z] \cap items = d
    BY <1>2, <2>4, <2>6
  <2> QED
    BY <2>2, <2>4, <2>7
<1> QED
  BY <1>3, <1>4, <1>5

\* The items before a place are those before the item that has it.
LEMMA BeforeThePlace ==
  ASSUME QueueTypeOK, IsFiniteSet(Existing), Ordered, NEW items, items \subseteq Existing,
         NEW y \in items
  PROVE  {z \in items : Before(z, items) < Before(y, items)} = listed[y] \cap items
<1>0. \A x \in items : Before(x, items) \in Nat
  BY BeforeIsCounted
<1>1. ASSUME NEW z \in items, z \notin listed[y]
      PROVE  ~(Before(z, items) < Before(y, items))
  <2>1. CASE z = y
    BY <1>0, <2>1
  <2>2. CASE z # y
    <3>1. y \in listed[z]
      BY <1>1, <2>2 DEF Ordered
    <3>2. Before(y, items) < Before(z, items)
      BY <3>1, FewerBefore
    <3> QED
      BY <1>0, <3>2
  <2> QED
    BY <2>1, <2>2
<1> QED
  BY <1>1, FewerBefore

\* A page behind which the list goes on is full.
LEMMA PageIsFull ==
  ASSUME QueueTypeOK, IsFiniteSet(Existing), Ordered, NEW items, items \subseteq Existing,
         NEW p \in Nat \ {0}, NEW i \in items, p * PageSize <= Before(i, items)
  PROVE  HasNextPage(PageOf(items, p))
<1> DEFINE a == (p - 1) * PageSize
           b == p * PageSize
<1>1. a \in Nat /\ b \in Nat /\ b = a + PageSize /\ PageSize \in Nat
  BY Offsets, PageSizeAssumption
<1>2. Before(i, items) \in Nat
  BY BeforeIsCounted
<1> HIDE DEF a, b
<1>3. PICK y \in items : Before(y, items) = a
  <2>1. a <= Before(i, items)
    BY <1>1, <1>2 DEF b
  <2> QED
    BY <1>1, <2>1, EveryPlaceIsTaken
<1>4. PICK z \in items : Before(z, items) = b
  BY <1>1, EveryPlaceIsTaken DEF b
<1>5. /\ {x \in items : Before(x, items) < a} = listed[y] \cap items
      /\ {x \in items : Before(x, items) < b} = listed[z] \cap items
  BY <1>3, <1>4, BeforeThePlace
<1>6. \A x \in items : Before(x, items) \in Nat
  BY BeforeIsCounted
<1>7. PageOf(items, p) = (listed[z] \cap items) \ (listed[y] \cap items)
  BY <1>1, <1>5, <1>6 DEF PageOf, a, b
<1>8. listed[y] \cap items \subseteq listed[z] \cap items
  BY <1>1, <1>5, <1>6
<1>9. /\ IsFiniteSet(listed[z] \cap items)
      /\ Cardinality(listed[z] \cap items) = b /\ Cardinality(listed[y] \cap items) = a
  BY <1>3, <1>4, BeforeIsCounted DEF Before
<1>10. (listed[z] \cap items) \cap (listed[y] \cap items) = listed[y] \cap items
  BY <1>8
<1>11. Cardinality(PageOf(items, p)) = b - a
  <2>1. Cardinality((listed[z] \cap items) \ (listed[y] \cap items))
          = Cardinality(listed[z] \cap items)
            - Cardinality((listed[z] \cap items) \cap (listed[y] \cap items))
    BY <1>9, FS_Difference
  <2> QED
    BY <1>7, <1>9, <1>10, <2>1
<1> QED
  BY <1>1, <1>11 DEF HasNextPage

\* An item changes: the others keep their order, and none that was neither touched nor
\* seen comes forward.
LEMMA RestampedType ==
  ASSUME QueueInv, NEW i \in Items, NEW newer \in SUBSET (Existing \ {i}),
         \A j \in newer : listed[j] \subseteq newer \cup {i},
         listed' = Restamped(i, newer)
  PROVE  /\ Existing' = Existing \cup {i} /\ Existing' \subseteq Items /\ IsFiniteSet(Existing')
         /\ listed' \in [Existing' -> SUBSET Existing']
         /\ Ordered'
<1>0. QueueTypeOK /\ IsFiniteSet(Existing) /\ Ordered
  BY DEF QueueInv
<1>1. Existing' = Existing \cup {i}
  BY DEF Existing, Restamped
<1>2. Existing' \subseteq Items /\ IsFiniteSet(Existing')
  BY <1>0, <1>1, FS_AddElement DEF QueueTypeOK
<1>3. /\ listed'[i] = newer
      /\ \A j \in Existing \ {i} :
           listed'[j] = IF j \in newer THEN listed[j] \ {i} ELSE listed[j] \cup {i}
  BY DEF Restamped
<1>4. \A j \in Existing : listed[j] \subseteq Existing
  BY <1>0 DEF QueueTypeOK
<1>5. listed' \in [Existing' -> SUBSET Existing']
  <2>1. \A j \in Existing' : listed'[j] \subseteq Existing'
    BY <1>1, <1>3, <1>4
  <2>2. listed' = [j \in Existing' |-> listed'[j]]
    BY <1>1 DEF Restamped
  <2> QED
    BY <2>1, <2>2
<1>6. /\ \A n : n \in listed'[i] <=> n \in newer
      /\ \A j \in Existing \ {i} : \A n :
           n \in listed'[j] <=> IF n = i THEN j \notin newer ELSE n \in listed[j]
  <2>1. ASSUME NEW j \in Existing \ {i}, NEW n, j \in newer
        PROVE  n \in listed'[j] <=> n # i /\ n \in listed[j]
    BY <1>3, <2>1
  <2>2. ASSUME NEW j \in Existing \ {i}, NEW n, j \notin newer
        PROVE  n \in listed'[j] <=> n = i \/ n \in listed[j]
    BY ZenonT(30), <1>3, <2>2
  <2> QED
    BY <1>3, <2>1, <2>2
<1>7. \A j \in Existing' : j \notin listed'[j]
  BY <1>0, <1>1, <1>6 DEF Ordered
<1>8. ASSUME NEW j \in Existing', NEW k \in Existing', j # k
      PROVE  j \in listed'[k] \/ k \in listed'[j]
  BY <1>0, <1>1, <1>6, <1>8 DEF Ordered
<1>9. ASSUME NEW j \in Existing', NEW k \in Existing', j \in listed'[k], NEW n \in listed'[j]
      PROVE  n \in listed'[k]
  <2>1. n \in Existing'
    BY <1>5
  <2>2. CASE j # i /\ k # i
    <3>1. j \in Existing \ {i} /\ k \in Existing \ {i} /\ j \in listed[k]
      BY <1>1, <1>6, <1>9, <2>2
    <3>2. CASE n = i
      <4>1. j \notin newer
        BY <1>6, <1>9, <3>1, <3>2
      <4>2. k \notin newer
        BY <2>2, <3>1, <4>1
      <4> QED
        BY <1>6, <3>1, <3>2, <4>2
    <3>3. CASE n # i
      BY <1>0, <1>6, <1>9, <3>1, <3>3 DEF Ordered
    <3> QED
      BY <3>2, <3>3
  <2>3. CASE k = i
    <3>1. j \in newer /\ j \in Existing \ {i} /\ n # i
      BY <1>6, <1>9, <2>3
    <3>2. n \in listed[j]
      BY <1>6, <1>9, <3>1
    <3> QED
      BY <1>6, <2>3, <3>1, <3>2
  <2>4. CASE j = i /\ k # i
    <3>1. k \in Existing \ {i} /\ k \notin newer /\ n \in newer /\ n \in Existing \ {i}
      BY <1>1, <1>6, <1>9, <2>4
    <3>2. k \notin listed[n] /\ n # k
      BY <3>1
    <3>3. n \in listed[k]
      BY <1>0, <3>1, <3>2 DEF Ordered
    <3> QED
      BY <1>6, <3>1, <3>3
  <2> QED
    BY <2>2, <2>3, <2>4
<1>10. Ordered'
  BY <1>7, <1>8, <1>9 DEF Ordered
<1> QED
  BY <1>1, <1>2, <1>5, <1>10

\* An item that changes is restamped, and is no longer one that nobody touched.
LEMMA ChangeKeeps ==
  ASSUME QueueInv, NEW i \in Items, ItemChanges(i)
  PROVE  QueueInv'
<1> DEFINE f == screen.filter
           M == Matching(f)
<1>0. /\ QueueTypeOK /\ IsFiniteSet(Existing) /\ Ordered
      /\ UnseenIsAhead /\ NothingUntouchedIsMissed
      /\ M \subseteq Existing
      /\ walk \in [seen : SUBSET Items, touched : SUBSET Items, fellBack : BOOLEAN]
  BY DEF QueueInv, QueueTypeOK, Matching
<1>1. PICK newer \in SUBSET (Existing \ {i}), wanted \in {waiting \cup {i}, waiting \ {i}} :
        /\ \A j \in newer : listed[j] \subseteq newer \cup {i}
        /\ listed' = Restamped(i, newer) /\ waiting' = wanted
        /\ walk' = [walk EXCEPT !.touched = @ \cup {i},
                                !.fellBack = @ \/ FallsBack(i, newer, wanted)]
        /\ UNCHANGED <<queue, screen>>
  BY DEF ItemChanges
<1>2. /\ Existing' = Existing \cup {i} /\ Existing' \subseteq Items /\ IsFiniteSet(Existing')
      /\ listed' \in [Existing' -> SUBSET Existing']
      /\ Ordered'
  BY <1>1, RestampedType
<1>3. /\ walk'.touched = walk.touched \cup {i} /\ walk'.seen = walk.seen
      /\ walk'.fellBack \in BOOLEAN
      /\ ~walk'.fellBack =>
           /\ ~walk.fellBack
           /\ Matches(i, f, waiting) => Matches(i, f, wanted)
           /\ \A j \in newer : i \notin listed[j]
      /\ walk' \in [seen : SUBSET Items, touched : SUBSET Items, fellBack : BOOLEAN]
  <2>1. FallsBack(i, newer, wanted) \in BOOLEAN
    BY DEF FallsBack
  <2>2. /\ walk' \in [seen : SUBSET Items, touched : SUBSET Items, fellBack : BOOLEAN]
        /\ walk'.touched = walk.touched \cup {i} /\ walk'.seen = walk.seen
        /\ walk'.fellBack = (walk.fellBack \/ FallsBack(i, newer, wanted))
    BY <1>0, <1>1, <2>1
  <2> QED
    BY <2>2 DEF FallsBack
<1>4. QueueTypeOK'
  BY <1>0, <1>1, <1>2, <1>3 DEF QueueTypeOK
<1>5. ASSUME NEW x \in Matching(f)', x # i
      PROVE  x \in M
  BY <1>1, <1>2, <1>5 DEF Matching, Matches
<1>6. ASSUME NEW y \in M, ~walk'.fellBack
      PROVE  y \in Matching(f)'
  BY <1>1, <1>2, <1>3, <1>6 DEF Matching, Matches
<1>7. MissedItems' \subseteq MissedItems /\ i \notin MissedItems'
  BY <1>1, <1>3, <1>5 DEF MissedItems
<1>8. UnseenIsAhead'
  <2> SUFFICES ASSUME screen.at # "closed", ~walk'.fellBack, NEW x \in MissedItems'
               PROVE  Passed <= Before(x, Matching(f))'
    BY <1>1 DEF UnseenIsAhead, Passed
  <2>1. x \in MissedItems /\ x # i /\ x \in M /\ x \in Matching(f)' /\ x \in Existing
    BY <1>0, <1>1, <1>7 DEF MissedItems
  <2>2. Passed <= Before(x, M)
    BY <1>0, <1>3, <2>1 DEF UnseenIsAhead
  <2>3. listed'[x] = IF x \in newer THEN listed[x] \ {i} ELSE listed[x] \cup {i}
    BY <1>1, <2>1 DEF Restamped
  <2>4. i \in listed[x] => x \notin newer
    BY <1>3
  <2>5. listed[x] \cap M \subseteq listed'[x] \cap Matching(f)'
    BY <1>6, <2>3, <2>4
  <2>6. Matching(f)' \subseteq Existing'
    BY <1>1 DEF Matching
  <2>7. IsFiniteSet(listed'[x] \cap Matching(f)')
    BY <1>2, <2>6, FS_Subset
  <2>8. /\ Before(x, M) <= Before(x, Matching(f))'
        /\ Before(x, M) \in Nat /\ Before(x, Matching(f))' \in Nat
    <3>1. Cardinality(listed[x] \cap M) <= Cardinality(listed'[x] \cap Matching(f)')
      BY <2>5, <2>7, FS_Subset
    <3>2. Cardinality(listed'[x] \cap Matching(f)') \in Nat
      BY <2>7, FS_CardinalityType
    <3>3. Before(x, M) \in Nat
      BY <1>0, <2>1, BeforeIsCounted
    <3> QED
      BY <3>1, <3>2, <3>3 DEF Before
  <2>9. Passed \in Nat
    BY <1>0, Offsets DEF Passed, QueueTypeOK
  <2> QED
    BY <2>2, <2>8, <2>9
<1>9. NothingUntouchedIsMissed'
  <2> SUFFICES ASSUME screen.at = "shown", ~screen.next, ~walk'.fellBack,
                      NEW x \in Matching(f)', x \notin walk'.touched
               PROVE  x \in walk'.seen
    BY <1>1 DEF NothingUntouchedIsMissed
  <2>1. x \in M /\ x \notin walk.touched
    BY <1>3, <1>5
  <2> QED
    BY <1>0, <1>3, <2>1 DEF NothingUntouchedIsMissed
<1> QED
  BY <1>2, <1>4, <1>8, <1>9 DEF QueueInv

\* A page is read: what is not on it, and was not before it, is behind it.
LEMMA PageKeeps ==
  ASSUME QueueInv, NEW p \in Nat \ {0}, NEW f \in Filters,
         NEW before \in [seen : SUBSET Items, touched : SUBSET Items, fellBack : BOOLEAN],
         Follows(p, f, before),
         ~before.fellBack =>
           \A x \in Matching(f) \ (before.touched \cup before.seen) :
             (p - 1) * PageSize <= Before(x, Matching(f))
  PROVE  QueueInv'
<1> DEFINE M == Matching(f)
<1>0. /\ QueueTypeOK /\ IsFiniteSet(Existing) /\ Ordered
      /\ M \subseteq Existing /\ M \subseteq Items
  BY DEF QueueInv, QueueTypeOK, Matching
<1>1. /\ queue' = queue /\ listed' = listed /\ waiting' = waiting
      /\ ShowsItems(p, f, before) \/ ShowsFailure(p, f, before)
  BY DEF Follows, CasesPage, PaymentsPage
<1>2. /\ IsFiniteSet(Existing)' /\ Ordered'
  BY <1>0, <1>1 DEF Existing, Ordered
<1>3. Matching(f)' = M /\ \A x : Before(x, M)' = Before(x, M)
  BY <1>1 DEF Matching, Existing, Before
<1>4. CASE ShowsFailure(p, f, before)
  <2>1. /\ screen' = [at |-> "failed", page |-> p, filter |-> f, next |-> FALSE]
        /\ walk' = before
    BY <1>4 DEF ShowsFailure
  <2>2. QueueTypeOK'
    BY <1>0, <1>1, <2>1 DEF QueueTypeOK, Existing
  <2>3. Matching(screen.filter)' = M
    BY <1>1, <2>1 DEF Matching, Existing
  <2>4. UnseenIsAhead'
    BY <1>1, <2>1, <2>3 DEF UnseenIsAhead, Passed, MissedItems, Before
  <2>5. NothingUntouchedIsMissed'
    BY <2>1 DEF NothingUntouchedIsMissed
  <2> QED
    BY <1>2, <2>2, <2>4, <2>5 DEF QueueInv
<1>5. CASE ShowsItems(p, f, before)
  <2>1. /\ screen' = [at |-> "shown", page |-> p, filter |-> f,
                      next |-> HasNextPage(PageOf(M, p))]
        /\ walk' = [before EXCEPT !.seen = @ \cup PageOf(M, p)]
    BY <1>5 DEF ShowsItems
  <2>2. PageOf(M, p) \subseteq Items
    BY <1>0 DEF PageOf
  <2>3. /\ walk' \in [seen : SUBSET Items, touched : SUBSET Items, fellBack : BOOLEAN]
        /\ walk'.seen = before.seen \cup PageOf(M, p)
        /\ walk'.touched = before.touched /\ walk'.fellBack = before.fellBack
    BY <2>1, <2>2
  <2>4. QueueTypeOK'
    BY <1>0, <1>1, <2>1, <2>3 DEF QueueTypeOK, Existing, HasNextPage
  <2>5. Matching(screen.filter)' = M
    BY <1>1, <2>1 DEF Matching, Existing
  <2>6. ASSUME ~before.fellBack, NEW x \in M, x \notin walk'.touched \cup walk'.seen
        PROVE  p * PageSize <= Before(x, M)
    <3>1. (p - 1) * PageSize <= Before(x, M) /\ x \notin PageOf(M, p)
      BY <2>3, <2>6
    <3>2. ~(Before(x, M) < p * PageSize)
      BY <3>1 DEF PageOf
    <3>3. Before(x, M) \in Nat /\ p * PageSize \in Nat
      BY <1>0, Offsets, BeforeIsCounted
    <3> QED
      BY <3>2, <3>3
  <2>7. UnseenIsAhead'
    BY <1>1, <2>1, <2>3, <2>5, <2>6 DEF UnseenIsAhead, Passed, MissedItems, Before
  <2>8. NothingUntouchedIsMissed'
    <3> SUFFICES ASSUME ~HasNextPage(PageOf(M, p)), ~before.fellBack,
                        NEW x \in M, x \notin walk'.touched, x \notin walk'.seen
                 PROVE  FALSE
      BY <2>1, <2>3, <2>5 DEF NothingUntouchedIsMissed
    <3>1. p * PageSize <= Before(x, M)
      BY <2>6
    <3> QED
      BY <1>0, <3>1, PageIsFull
  <2> QED
    BY <1>2, <2>4, <2>7, <2>8 DEF QueueInv
<1> QED
  BY <1>1, <1>4, <1>5

\* The step lemma of the queues.
LEMMA QueueKeeps ==
  ASSUME QueueInv, QueueStep
  PROVE  QueueInv'
<1>0. /\ QueueTypeOK /\ UnseenIsAhead /\ PageSize \in Nat
      /\ screen.page \in Nat \ {0} /\ screen.filter \in Filters
      /\ walk \in [seen : SUBSET Items, touched : SUBSET Items, fellBack : BOOLEAN]
  BY PageSizeAssumption DEF QueueInv, QueueTypeOK
<1>1. \A f, x : x \in Matching(f) => Before(x, Matching(f)) \in Nat
  BY BeforeIsCounted DEF QueueInv, Matching
<1>2. CASE \E i \in Items : ItemChanges(i)
  BY <1>2, ChangeKeeps
<1>3. ASSUME NEW f \in Filters, OpenFirstPage(f)
      PROVE  QueueInv'
  <2>1. Begun \in [seen : SUBSET Items, touched : SUBSET Items, fellBack : BOOLEAN]
    BY DEF Begun
  <2>2. (1 - 1) * PageSize = 0
    BY <1>0
  <2>3. \A x \in Matching(f) : (1 - 1) * PageSize <= Before(x, Matching(f))
    BY <1>1, <2>2
  <2> QED
    BY <1>3, <2>1, <2>3, PageKeeps DEF OpenFirstPage
<1>4. /\ (screen.page - 1) * PageSize \in Nat /\ screen.page * PageSize \in Nat
      /\ (screen.page - 1) * PageSize <= screen.page * PageSize
      /\ ((screen.page + 1) - 1) * PageSize = screen.page * PageSize
  BY <1>0, Offsets
<1>5. CASE NextPage
  BY <1>0, <1>4, <1>5, PageKeeps DEF NextPage, UnseenIsAhead, Passed, MissedItems
<1>6. ASSUME NEW q \in Nat, q <= Passed, screen.at # "closed", ~walk.fellBack,
             NEW x \in MissedItems
      PROVE  q <= Before(x, Matching(screen.filter))
  <2>1. Passed \in Nat /\ Before(x, Matching(screen.filter)) \in Nat
    BY <1>1, <1>4, <1>6 DEF Passed, MissedItems
  <2>2. Passed <= Before(x, Matching(screen.filter))
    BY <1>0, <1>6 DEF UnseenIsAhead
  <2>3. \A m, n \in Nat : q <= m /\ m <= n => q <= n
    OBVIOUS
  <2> QED
    BY <1>6, <2>1, <2>2, <2>3
<1>7. CASE PreviousPage
  <2> DEFINE q == screen.page - 1
  <2>1. q \in Nat \ {0} /\ screen.at = "shown" /\ Follows(q, screen.filter, walk)
    BY <1>0, <1>7 DEF PreviousPage
  <2>2. (q - 1) * PageSize \in Nat /\ (q - 1) * PageSize <= q * PageSize
    BY <1>0, <2>1, Offsets
  <2>3. (q - 1) * PageSize <= Passed
    BY <1>4, <2>1, <2>2 DEF Passed
  <2> QED
    BY <1>0, <1>6, <2>1, <2>2, <2>3, PageKeeps DEF MissedItems
<1>8. CASE ReloadPage
  <2>1. screen.at # "closed" /\ Follows(screen.page, screen.filter, walk)
    BY <1>8 DEF ReloadPage
  <2>2. (screen.page - 1) * PageSize <= Passed
    BY <1>4 DEF Passed
  <2> QED
    BY <1>0, <1>4, <1>6, <2>1, <2>2, PageKeeps DEF MissedItems
<1> QED
  BY <1>2, <1>3, <1>5, <1>7, <1>8 DEF QueueStep

-----------------------------------------------------------------------------
(* All clients. *)

ClientsInv ==
  /\ FundingInv /\ ConsoleInv
  /\ QueueInv /\ PreviewInv /\ StorageTypeOK /\ WalkthroughInv

\* Every client begins with nothing opened, stored or selected.
LEMMA ClientsBegin ==
  ASSUME ClientsInit
  PROVE  ClientsInv
<1>1. FundingInv
  BY FundingInit DEF ClientsInit
<1>2. ConsoleInv
  <2>1. view \in Views /\ post \in Posts
    BY DEF ClientsInit, ConsoleInit, Elsewhere, Views, NoPost, Posts, Statuses, Operations
  <2>2. Free(Operator)
    BY OperatorIsARequest DEF ClientsInit, Init, Idle, Free
  <2> QED
    BY <2>1, <2>2
       DEF ClientsInit, ConsoleInit, ConsoleInv, ConsoleTypeOK, PostIsTheRequest,
           NoticeIsOfTheLast, Elsewhere, NoPost
<1>3. QueueInv
  <2>1. Existing = {} /\ listed \in [Existing -> SUBSET Existing]
    BY DEF ClientsInit, QueueInit, Existing
  <2>2. /\ screen = NotOpened /\ walk = Begun /\ waiting = {}
        /\ queue \in {"cases", "payments"}
    BY DEF ClientsInit, QueueInit
  <2>3. /\ screen.at = "closed"
        /\ screen \in [at : {"closed", "shown", "failed"}, page : Nat \ {0}, filter : Filters,
                        next : BOOLEAN]
        /\ walk \in [seen : SUBSET Items, touched : SUBSET Items, fellBack : BOOLEAN]
    <3>1. 1 \in Nat \ {0} /\ {} \in SUBSET Items
      OBVIOUS
    <3>2. screen = [at |-> "closed", page |-> 1, filter |-> "", next |-> FALSE]
      BY <2>2 DEF NotOpened
    <3>3. walk = [seen |-> {}, touched |-> {}, fellBack |-> FALSE]
      BY <2>2 DEF Begun
    <3> QED
      BY <3>1, <3>2, <3>3 DEF Filters
  <2>4. QueueTypeOK
    BY <2>1, <2>2, <2>3 DEF QueueTypeOK
  <2> QED
    BY <2>1, <2>3, <2>4, FS_EmptySet DEF QueueInv, Ordered, UnseenIsAhead, NothingUntouchedIsMissed
<1>4. PreviewInv
  BY DEF ClientsInit, PreviewFresh, PreviewInv, PreviewTypeOK, PreviewNeedsEntry
<1>5. StorageTypeOK
  <2>1. Closed \in TabStates
    BY ManagedAssumption DEF Closed, AnyManaged, TabStates, Values
  <2>2. EmptyStore \in Stores
    BY DEF EmptyStore, Stores, Overrides
  <2> QED
    BY <2>1, <2>2 DEF ClientsInit, StorageInit, StorageTypeOK
<1>6. WalkthroughInv
  <2>1. /\ where = "login" /\ query = Nothing /\ trail = Nothing /\ form = "blank"
        /\ kept = [notifications |-> TRUE, iban |-> FALSE]
    BY DEF ClientsInit, WalkthroughInit
  <2>2. WalkthroughTypeOK
    BY <2>1 DEF WalkthroughTypeOK, Nothing, Routes
  <2> QED
    BY <2>1, <2>2 DEF WalkthroughInv, MarksAreOptions, SelectionsAreCarried, Nothing, PlanPath
<1> QED
  BY <1>1, <1>2, <1>3, <1>4, <1>5, <1>6 DEF ClientsInv

\* The clients that do not move keep what they promise.
LEMMA ConsoleStays ==
  ASSUME ConsoleInv, UNCHANGED <<caseVars, consoleVars>>
  PROVE  ConsoleInv'
  BY DEF caseVars, consoleVars, ConsoleInv, ConsoleTypeOK, PostIsTheRequest, NoticeIsOfTheLast,
         Free

\* The queue stays as it is while another client moves.
LEMMA QueueStays ==
  ASSUME QueueInv, UNCHANGED queueVars
  PROVE  QueueInv'
  BY DEF queueVars, QueueInv, QueueTypeOK, Existing, Ordered, UnseenIsAhead, Passed,
         MissedItems, NothingUntouchedIsMissed, Matching, Matches, Before

\* The preview stays as it is while another client moves.
LEMMA PreviewStays ==
  ASSUME PreviewInv, UNCHANGED previewVars
  PROVE  PreviewInv'
  BY DEF previewVars, PreviewInv, PreviewTypeOK, PreviewNeedsEntry

\* The panels stay as they are while another client moves.
LEMMA StorageStays ==
  ASSUME StorageTypeOK, UNCHANGED panelVars
  PROVE  StorageTypeOK'
  BY DEF panelVars, StorageTypeOK

\* The walkthrough stays as it is while another client moves.
LEMMA WalkthroughStays ==
  ASSUME WalkthroughInv, UNCHANGED walkthroughVars
  PROVE  WalkthroughInv'
  BY DEF walkthroughVars, WalkthroughInv, WalkthroughTypeOK, MarksAreOptions,
         SelectionsAreCarried

\* A step is one client's.
LEMMA ClientsStep ==
  ASSUME ClientsInv, [ClientsNext]_clientVars
  PROVE  ClientsInv' /\ [CaseStep]_caseVars /\ [KeepsWhatWasSaved]_panelVars
<1>0. /\ FundingInv /\ FundingTypeOK /\ ConsoleInv
      /\ QueueInv /\ PreviewInv /\ StorageTypeOK /\ WalkthroughInv
  BY DEF ClientsInv, FundingInv
<1>1. [CaseStep]_caseVars
  BY ConsoleWorksOnTheCase
     DEF ClientsNext, ConsoleMoves, QueueMoves, PreviewMoves, PanelMoves, WalkthroughMoves,
         clientVars
<1>2. FundingInv'
  BY <1>0, <1>1, FundingStep
<1>3. CASE ConsoleMoves
  BY <1>0, <1>1, <1>2, <1>3, ConsoleKeeps, QueueStays, PreviewStays, StorageStays,
     WalkthroughStays
     DEF ConsoleMoves, ClientsInv
<1>4. CASE QueueMoves
  BY <1>0, <1>1, <1>2, <1>4, ConsoleStays, QueueKeeps, PreviewStays, StorageStays,
     WalkthroughStays
     DEF QueueMoves, ClientsInv
<1>5. CASE PreviewMoves
  BY <1>0, <1>1, <1>2, <1>5, ConsoleStays, QueueStays, PreviewKeeps, StorageStays,
     WalkthroughStays
     DEF PreviewMoves, ClientsInv
<1>6. CASE PanelMoves
  BY <1>0, <1>1, <1>2, <1>6, ConsoleStays, QueueStays, PreviewStays, StorageKeeps,
     WalkthroughStays
     DEF PanelMoves, ClientsInv
<1>7. CASE WalkthroughMoves
  BY <1>0, <1>1, <1>2, <1>7, ConsoleStays, QueueStays, PreviewStays, StorageStays,
     WalkthroughKeeps
     DEF WalkthroughMoves, ClientsInv
<1>8. CASE UNCHANGED clientVars
  BY <1>0, <1>1, <1>2, <1>8, ConsoleStays, QueueStays, PreviewStays, StorageStays,
     WalkthroughStays
     DEF clientVars, ClientsInv
<1> QED
  BY <1>3, <1>4, <1>5, <1>6, <1>7, <1>8 DEF ClientsNext

\* ClientsInv holds throughout.
THEOREM ClientsInvariant == ClientsSpec => []ClientsInv
<1>1. ClientsInit => ClientsInv
  BY ClientsBegin
<1>2. ClientsInv /\ [ClientsNext]_clientVars => ClientsInv'
  BY ClientsStep
<1> QED
  BY <1>1, <1>2, PTL DEF ClientsSpec

\* Types: every client's variables keep the values the code can give them.
THEOREM ClientsTypes == ClientsSpec => []ClientsTypeOK
<1>1. ClientsInv => ClientsTypeOK
  BY DEF ClientsInv, FundingInv, ConsoleInv, QueueInv, PreviewInv, WalkthroughInv, ClientsTypeOK
<1> QED
  BY <1>1, ClientsInvariant, PTL

\* The console, its operators and everybody else who works on the case do nothing to it
\* that the case's own specification does not allow: what is proved of that one holds
\* behind the console as well.
THEOREM ConsoleImplementsTheCase == ClientsSpec => FundingSpec
<1>1. ClientsInit => Init
  BY DEF ClientsInit
<1>2. ClientsInv /\ [ClientsNext]_clientVars => [CaseStep]_caseVars
  BY ClientsStep
<1> QED
  BY <1>1, <1>2, ClientsInvariant, PTL DEF ClientsSpec, FundingSpec

\* No service is called for an operator before the audit row of that request is
\* committed, and a page says "accepted" only of a request that is audited and over,
\* however many answers were lost and whatever the applicant and the worker do meanwhile.
THEOREM CallsAreAudited == ClientsSpec => []OperatorCallsAreAudited
<1>1. ClientsInv => OperatorCallsAreAudited
  BY DEF ClientsInv, ConsoleInv, PostIsTheRequest, NoticeIsOfTheLast, OperatorCallsAreAudited
<1> QED
  BY <1>1, ClientsInvariant, PTL

\* Paging through a queue to its last page shows every matching item that was left alone,
\* for every number of items and every page size, unless a change took an item away or
\* moved it back.
THEOREM QueueShowsEverything == ClientsSpec => []NothingUntouchedIsMissed
<1>1. ClientsInv => NothingUntouchedIsMissed
  BY DEF ClientsInv, QueueInv
<1> QED
  BY <1>1, ClientsInvariant, PTL

\* No page of the mobile walkthrough shows before its entry has been passed.
THEOREM PreviewIsEntered == ClientsSpec => []PreviewNeedsEntry
<1>1. ClientsInv => PreviewNeedsEntry
  BY DEF ClientsInv, PreviewInv
<1> QED
  BY <1>1, ClientsInvariant, PTL

\* Along the links of the web panel every page shows what was selected before it.
THEOREM SelectionsReachTheirPages == ClientsSpec => []SelectionsAreCarried
<1>1. ClientsInv => SelectionsAreCarried
  BY DEF ClientsInv, WalkthroughInv
<1> QED
  BY <1>1, ClientsInvariant, PTL

\* Whatever tabs of a panel have shown meanwhile, what one of them saved is not undone by
\* another: lists only grow, and a user changes only by a page opened for that very user.
THEOREM TabsLoseNothing == ClientsSpec => NothingSavedIsLost
<1>1. ClientsInv /\ [ClientsNext]_clientVars => [KeepsWhatWasSaved]_panelVars
  BY ClientsStep
<1> QED
  BY <1>1, ClientsInvariant, PTL DEF ClientsSpec, NothingSavedIsLost
================================================================================
