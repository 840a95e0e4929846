---------------------------- MODULE UserWalkthrough ----------------------------
(***************************************************************************)
(* The tenant's and owner's web panel, apps/web/src/app/user: what the user  *)
(* selects on one page reaches the later ones only as a parameter of the     *)
(* links between them. A page that is opened without the parameter falls     *)
(* back on a default of its own, and the pages' defaults differ.             *)
(*                                                                           *)
(* A page is its route, its parameters and what the user has marked on it;   *)
(* the sidebar and any address the user types open a page without            *)
(* parameters. "trail" remembers what the user selected on the path that     *)
(* links have carried them along since.                                      *)
(***************************************************************************)
VARIABLES
  where,  \* the route of the page
  query,  \* its parameters
  form,   \* what is marked on the page
  trail,  \* what the user selected on the way here
  kept    \* what the account page keeps in the browser's storage

walkthroughVars == <<where, query, form, trail, kept>>

Plans == {"staff", "general"}
Methods == {"monthly", "fund"}
Memberships == {"once", "twice", "twice-high"}
Transactions == {"overdue", "due", "paid-mehr", "owner-ponak"}
Nothing ==
  [plan |-> "none", membership |-> "none", method |-> "none", transaction |-> "none",
   scenario |-> "none"]
With(q, m) == [q EXCEPT !.method = m]

PlanPath ==
  {"confirmation", "review", "approved", "not-approved", "membership", "membership-result",
   "contribution", "final-confirmation", "waiting-owner"}
PaymentReturns ==
  {"membership-payment-success", "membership-payment-pending", "membership-payment-failed",
   "membership-pending", "membership-failed"}
OwnerPath == {"owner", "owner-final-confirmation", "receive-pay", "payment-result", "receipt"}
Account == {"account", "iban", "change-mobile", "change-mobile-otp", "profile-image",
            "profile-image-preview"}
Routes ==
  PlanPath \cup PaymentReturns \cup OwnerPath \cup Account \cup
  {"login", "home", "contracts", "properties", "calculator", "demo-contract", "contract",
   "terminated", "owner-terminated", "register", "identity-verification", "lookup-result",
   "plans", "owner-connected", "settlement-preference"}

WalkthroughTypeOK ==
  /\ where \in Routes
  /\ \A q \in {query, trail} :
       q \in [plan : Plans \cup {"none"}, membership : Memberships \cup {"none"},
              method : Methods \cup {"none"}, transaction : Transactions \cup {"none"},
              scenario : {"none", "termination"}]
  /\ form \in Plans \cup Memberships \cup Methods \cup {"blank", "ready", "tenant", "owner"}
  /\ kept \in [notifications : BOOLEAN, iban : BOOLEAN]
WalkthroughInit ==
  /\ where = "login" /\ query = Nothing /\ trail = Nothing /\ form = "blank"
  /\ kept = [notifications |-> TRUE, iban |-> FALSE]

(***************************************************************************)
(* What a page takes from its parameters.                                    *)
(***************************************************************************)
PlanOf(q) == IF q.plan = "general" THEN "general" ELSE "staff"
ChosenMembership(q) ==
  IF q.membership \in {"twice", "twice-high"} THEN q.membership ELSE "once"
OwnerMethod(q) == IF q.method = "fund" THEN "fund" ELSE "monthly"
ConfirmedMethod(q) == IF q.method = "monthly" THEN "monthly" ELSE "fund"
PaidTransaction(q) == IF q.transaction = "overdue" THEN "overdue" ELSE "due"
ReceiptKey(q) == IF q.transaction \in Transactions THEN q.transaction ELSE "due"

\* Links. What a page marks at first is its own default.
Marked(p) ==
  CASE p = "plans" -> "staff" [] p = "lookup-result" -> "tenant"
    [] p = "settlement-preference" -> "monthly" [] p = "membership" -> "once"
    [] p = "iban" -> IF kept.iban THEN "ready" ELSE "blank"
    [] OTHER -> "blank"
Goes(p, q, t) ==
  /\ where' = p /\ query' = q /\ trail' = t /\ form' = Marked(p)
  /\ UNCHANGED kept
Opens(ps) == \E p \in ps : Goes(p, Nothing, Nothing)
Carries(p, q) == Goes(p, q, trail)
Marks(values) == form' \in values /\ UNCHANGED <<where, query, trail, kept>>
WithPlan(p) == [Nothing EXCEPT !.plan = p]
\* A box has to be ticked before the page leads on.
Consents(p, q) == Marks({"blank", "ready"}) \/ (form = "ready" /\ Carries(p, q))
PlanConfirmationConsent == Consents("review", WithPlan(PlanOf(query)))
FinalConfirmationConsent == Consents("waiting-owner", WithPlan(PlanOf(query)))
OwnerFinalConfirmationConsent == Consents("owner", With(Nothing, ConfirmedMethod(query)))

UserPanelSidebar == where # "login" /\ Opens({"home", "contracts", "receive-pay", "account"})
UserPanelExit == where # "login" /\ Opens({"login"})
OpensAddress == Opens(Routes)

(* Home, contracts, account *)
UserHomePage ==
  /\ where = "home"
  /\ \/ Opens({"calculator", "register", "properties", "settlement-preference", "contracts",
               "receive-pay"})
     \/ Goes("membership", WithPlan("staff"), WithPlan("staff"))
ContractsPage ==
  where = "contracts" /\ Opens({"register", "contract", "demo-contract"})
PropertiesPage == where = "properties" /\ Opens({"contract", "demo-contract"})
SampleContractDetail == where = "demo-contract" /\ Opens({"contracts", "properties"})
CalculatorPage == where = "calculator" /\ Opens({"plans"})
ContractPage == where = "contract" /\ Opens({"contracts", "receive-pay"})
TerminatedPage ==
  /\ where \in {"terminated", "owner-terminated"}
  /\ LET q == [Nothing EXCEPT !.scenario = "termination"] IN Goes("receive-pay", q, Nothing)
AccountPage ==
  /\ where = "account"
  /\ \/ kept' = [kept EXCEPT !.notifications = ~@] /\ UNCHANGED <<where, query, form, trail>>
     \/ Opens({"profile-image", "change-mobile", "iban", "membership"})
\* A text that is a complete Iranian IBAN is "ready".
IbanForm ==
  /\ where = "iban"
  /\ \/ Marks({"blank", "ready"})
     \/ Opens({"account"})
     \/ /\ form = "ready"
        /\ kept' = [kept EXCEPT !.iban = TRUE]
        /\ where' = "account" /\ form' = "blank" /\ query' = Nothing /\ trail' = Nothing
ChangeMobilePage == where = "change-mobile" /\ Opens({"account"})
ChangeMobileOtpPage == where = "change-mobile-otp" /\ Opens({"change-mobile", "account"})
ProfileImagePage == where = "profile-image" /\ Opens({"account", "profile-image-preview"})
ProfileImagePreviewPage == where = "profile-image-preview" /\ Opens({"account", "profile-image"})

(* The tenant's path: a contract by its tracking code, a plan, the way to the owner *)
RegisterPage == where = "register" /\ Opens({"contracts", "identity-verification"})
TrackingCodePreviewForm ==
  /\ where = "register"
  /\ \/ Marks({"blank", "ready"})
     \/ form = "ready" /\ Opens({"lookup-result"})
IdentityVerificationPage == where = "identity-verification" /\ Opens({"register"})
ContractLookupResultPage ==
  /\ where = "lookup-result"
  /\ \/ Marks({"tenant", "owner"})
     \/ Opens({IF form = "owner" THEN "owner-connected" ELSE "plans"})
     \/ Opens({"register"})
FinancingPlansPage ==
  /\ where = "plans"
  /\ \/ Marks(Plans)
     \/ Goes("confirmation", WithPlan(form), WithPlan(form))
     \/ Opens({"lookup-result", "calculator"})
ConfirmationPage ==
  /\ where = "confirmation"
  /\ \/ PlanConfirmationConsent
     \/ Opens({"plans"})
FinancingUnderReviewPage ==
  /\ where = "review"
  /\ \/ \E p \in {"approved", "not-approved"} : Carries(p, WithPlan(PlanOf(query)))
     \/ Opens({"contracts"})
FinancingApprovedPage ==
  /\ where = "approved"
  /\ \/ Carries("membership", WithPlan(PlanOf(query))) \/ Opens({"contract"})
FinancingNotApprovedPage == where = "not-approved" /\ Opens({"plans", "contracts"})
MembershipPage ==
  /\ where = "membership"
  /\ \/ Marks(Memberships)
     \/ Goes("membership-result", [WithPlan(PlanOf(query)) EXCEPT !.membership = form],
             [trail EXCEPT !.membership = form])
     \/ \E p \in {"approved", "contribution"} : Carries(p, WithPlan(PlanOf(query)))
\* Of the membership itself nothing is shown beyond its payment.
PastPayment == [trail EXCEPT !.membership = "none"]
\* A plausible bug: the way on from the payment loses the plan.
ResultForgetsThePlan ==
  /\ where = "membership-result"
  /\ \/ Goes("contribution", Nothing, PastPayment)
     \/ Goes("membership", WithPlan(PlanOf(query)), PastPayment)
     \/ Opens({"account", "contract"})
MembershipResultPage ==
  /\ where = "membership-result"
  /\ \/ \E p \in {"membership", "contribution"} :
          Goes(p, WithPlan(PlanOf(query)), PastPayment)
     \/ Opens({"account", "contract"})
\* Pages of payments that returned otherwise; no page leads to them.
MembershipPaymentSuccessPage ==
  where = "membership-payment-success" /\ Opens({"receive-pay", "contract", "contribution"})
MembershipPaymentPendingPage ==
  where = "membership-payment-pending"
  /\ Opens({"contract", "receive-pay", "membership-payment-pending"})
MembershipPaymentFailedPage ==
  where = "membership-payment-failed" /\ Opens({"receive-pay", "contract", "membership"})
MembershipPendingPage ==
  where = "membership-pending" /\ Opens({"receive-pay", "account", "membership-pending"})
MembershipFailedPage ==
  where = "membership-failed" /\ Opens({"receive-pay", "membership", "membership-result"})
ContributionPage ==
  /\ where = "contribution"
  /\ \/ Carries("final-confirmation", WithPlan(PlanOf(query))) \/ Opens({"contract"})
FinalConfirmationPage ==
  /\ where = "final-confirmation"
  /\ \/ FinalConfirmationConsent
     \/ Opens({"contract"})
WaitingOwnerPage == where = "waiting-owner" /\ Opens({"contracts", "contract"})

(* The owner's path: a receipt method, and the payments seen with it *)
OwnerContractConnectedPage ==
  where = "owner-connected" /\ Opens({"settlement-preference", "contracts"})
OwnerSettlementPreferencePage ==
  /\ where = "settlement-preference"
  /\ \/ Marks(Methods)
     \/ \E p \in {"owner", "owner-final-confirmation"} :
          Goes(p, With(Nothing, form), With(Nothing, form))
OwnerFinalConfirmationPage ==
  /\ where = "owner-final-confirmation"
  /\ \/ OwnerFinalConfirmationConsent
     \/ Opens({"settlement-preference"})
OwnerContractActivePage ==
  where = "owner" /\ Carries("receive-pay", With(Nothing, OwnerMethod(query)))
ReceivePayPage ==
  /\ where = "receive-pay"
  /\ \/ query.method # "none" /\ Carries("owner", With(Nothing, OwnerMethod(query)))
     \/ query.scenario = "termination" /\ Opens({"terminated"})
ReceivePayActivities ==
  /\ where = "receive-pay"
  /\ \/ Opens({"contracts"})
     \/ \E t \in Transactions :
          Goes(IF t \in {"overdue", "due"} THEN "payment-result" ELSE "receipt",
               [Nothing EXCEPT !.transaction = t, !.method = query.method],
               [trail EXCEPT !.transaction = t])
\* Back at the list no single transaction is looked at any more.
BackToReceivePay == Goes("receive-pay", With(Nothing, query.method),
                         [trail EXCEPT !.transaction = "none"])
PaymentResultPage ==
  /\ where = "payment-result"
  /\ \/ BackToReceivePay
     \/ Carries("receipt", [Nothing EXCEPT !.transaction = PaidTransaction(query),
                                           !.method = query.method])
     \/ Opens({"contract"})
ReceiptPage ==
  /\ where = "receipt"
  /\ \/ BackToReceivePay
     \/ Opens({IF ReceiptKey(query) = "owner-ponak" THEN "contracts" ELSE "contract"})

WalkthroughStep ==
  \/ UserPanelSidebar \/ UserPanelExit \/ OpensAddress
  \/ UserHomePage \/ ContractsPage \/ PropertiesPage \/ SampleContractDetail \/ CalculatorPage
  \/ ContractPage \/ TerminatedPage
  \/ AccountPage \/ IbanForm \/ ChangeMobilePage \/ ChangeMobileOtpPage \/ ProfileImagePage
  \/ ProfileImagePreviewPage
  \/ RegisterPage \/ TrackingCodePreviewForm \/ IdentityVerificationPage
  \/ ContractLookupResultPage \/ FinancingPlansPage \/ ConfirmationPage
  \/ FinancingUnderReviewPage \/ FinancingApprovedPage \/ FinancingNotApprovedPage
  \/ MembershipPage \/ MembershipResultPage
  \/ MembershipPaymentSuccessPage \/ MembershipPaymentPendingPage \/ MembershipPaymentFailedPage
  \/ MembershipPendingPage \/ MembershipFailedPage
  \/ ContributionPage \/ FinalConfirmationPage \/ WaitingOwnerPage
  \/ OwnerContractConnectedPage \/ OwnerSettlementPreferencePage \/ OwnerFinalConfirmationPage
  \/ OwnerContractActivePage \/ ReceivePayPage \/ ReceivePayActivities
  \/ PaymentResultPage \/ ReceiptPage

\* As long as the user follows the links of a path, every page of it shows the plan, the
\* membership, the receipt method and the transaction that were selected on it, and never
\* the default it would fall back on.
SelectionsAreCarried ==
  /\ where \in PlanPath /\ trail.plan # "none" => PlanOf(query) = trail.plan
  /\ where = "membership-result" /\ trail.membership # "none" =>
       ChosenMembership(query) = trail.membership
  /\ trail.method # "none" =>
       /\ where = "owner-final-confirmation" => ConfirmedMethod(query) = trail.method
       /\ where = "owner" => OwnerMethod(query) = trail.method
       /\ where \in {"receive-pay", "payment-result", "receipt"} => query.method = trail.method
  /\ trail.transaction # "none" =>
       /\ where = "payment-result" => PaidTransaction(query) = trail.transaction
       /\ where = "receipt" => ReceiptKey(query) = trail.transaction
=================================================================================
