--------------------------- MODULE MobilePreview ---------------------------
(***************************************************************************)
(* The MOCK walkthrough of the mobile application: the routes below          *)
(* /preview, the state its provider keeps across them, and the buttons of    *)
(* every screen. The walkthrough has no access to the real session; leaving  *)
(* it forgets everything.                                                    *)
(*                                                                           *)
(* "marked" stands for what the screen on top keeps to itself: that the code   *)
(* field is complete, the tracking code is the sample one, or the owner has  *)
(* ticked the consent box.                                                   *)
(***************************************************************************)
EXTENDS FiniteSets

VARIABLES page, demoMobile, previewSignedIn, contractRole, ownerSettlement, marked

previewVars == <<page, demoMobile, previewSignedIn, contractRole, ownerSettlement, marked>>
choices == <<demoMobile, previewSignedIn, contractRole, ownerSettlement>>

Entry == {"login", "otp", "legal"}
TenantPages ==
  {"home", "calculator", "calculator-result", "contract-tracking", "contract-lookup",
   "owner-contract", "financing-plans", "plan-confirmation", "review", "approved",
   "rejected", "membership", "membership-success", "membership-pending",
   "membership-failed", "contribution", "contribution-success", "contribution-pending",
   "contribution-failed", "final-confirmation", "profile", "contracts",
   "contract-active", "contract-detail", "payments", "receipt", "payment-pending",
   "payment-failed", "payment-terminated"}
OwnerPages ==
  {"owner-connected", "owner-settlement-preference", "owner-final-confirmation",
   "owner-active", "owner-receive-pay", "owner-terminated", "owner-account"}
Pages == Entry \cup TenantPages \cup OwnerPages

PreviewTypeOK ==
  /\ page \in Pages \cup {"none"}
  /\ demoMobile \in {"", "incomplete", "complete"}
  /\ previewSignedIn \in BOOLEAN /\ marked \in BOOLEAN
  /\ contractRole \in {"Tenant", "Owner"} /\ ownerSettlement \in {"monthly", "fund"}

\* The provider's initial values, for a provider that mounts (anew).
PreviewFresh ==
  /\ page = "none" /\ marked = FALSE
  /\ demoMobile = "" /\ previewSignedIn = FALSE
  /\ contractRole = "Tenant" /\ ownerSettlement = "monthly"
ForgetsPreview ==
  /\ page' = "none" /\ marked' = FALSE
  /\ demoMobile' = "" /\ previewSignedIn' = FALSE
  /\ contractRole' = "Tenant" /\ ownerSettlement' = "monthly"

\* What the screen on top keeps to itself when it appears.
StartsWith(p) == p = "contract-tracking"

\* A plausible bug: the gate looks at the walkthrough's session alone.
AdmittedToAnyEntry(p, mobile, entered) == IF ~entered /\ p \notin Entry THEN "login" ELSE p
\* PreviewAuthGate: where a route of the walkthrough really leads.
Admitted(p, mobile, entered) ==
  IF p = "otp" /\ mobile # "complete" THEN "login"
  ELSE IF ~entered /\ p \notin Entry THEN "login"
  ELSE p

Arrive(p) ==
  /\ page' = Admitted(p, demoMobile, previewSignedIn)
  /\ marked' = StartsWith(page')
Visit(ps) == (\E p \in ps : Arrive(p)) /\ UNCHANGED choices

BottomNav == {"profile", "contracts", "payments", "home"}
OwnerFooterNav == {"owner-account", "owner-connected", "owner-receive-pay", "owner-active"}

(* Entry *)
TypeMobile ==
  /\ page = "login"
  /\ \E m \in {"", "incomplete", "complete"} : demoMobile' = m
  /\ UNCHANGED <<page, previewSignedIn, contractRole, ownerSettlement, marked>>
GoToCode ==
  /\ page = "login" /\ demoMobile = "complete" /\ Visit({"otp"})
ReadTerms == page \in {"login", "otp"} /\ Visit({"legal"})
LeaveTerms == page = "legal" /\ Visit({"login", "otp"})
TypeCode ==
  /\ page = "otp" /\ marked' \in BOOLEAN
  /\ UNCHANGED <<page, choices>>
EditMobile == page = "otp" /\ Visit({"login"})
EnterPreview ==
  /\ page = "otp" /\ marked
  /\ previewSignedIn' = TRUE
  /\ page' = "home" /\ marked' = FALSE
  /\ UNCHANGED <<demoMobile, contractRole, ownerSettlement>>

(* Tenant screens: their title's back arrow, their buttons, the bottom bar *)
MockHome == page = "home" /\ Visit({"contract-tracking", "calculator"} \cup BottomNav)
MockCalculator == page = "calculator" /\ Visit({"home", "calculator-result"})
MockCalculatorResult ==
  page = "calculator-result" /\ Visit({"calculator", "contract-tracking"})
MockContractTracking ==
  /\ page = "contract-tracking"
  /\ \/ marked' \in BOOLEAN /\ UNCHANGED <<page, choices>>
     \/ marked /\ Visit({"contract-lookup"})
     \/ Visit({"calculator-result"} \cup BottomNav)
MockContractLookup ==
  /\ page = "contract-lookup"
  /\ \/ contractRole' \in {"Tenant", "Owner"}
        /\ UNCHANGED <<page, demoMobile, previewSignedIn, ownerSettlement, marked>>
     \/ Visit(IF contractRole = "Tenant" THEN {"financing-plans"} ELSE {"owner-connected"})
     \/ Visit({"contract-tracking"})
MockOwnerContract ==
  page = "owner-contract" /\ Visit({"contract-lookup", "owner-connected", "home"})
MockFinancingPlans ==
  page = "financing-plans" /\ Visit({"contract-lookup", "plan-confirmation"})
MockPlanConfirmation ==
  page = "plan-confirmation" /\ Visit({"financing-plans", "review"} \cup BottomNav)
MockReview ==
  page = "review" /\ Visit({"plan-confirmation", "approved", "rejected"} \cup BottomNav)
MockApproved == page = "approved" /\ Visit({"review", "membership"} \cup BottomNav)
MockRejected ==
  page = "rejected" /\ Visit({"review", "financing-plans"} \cup BottomNav)
MockMembership ==
  /\ page = "membership"
  /\ Visit({"approved", "membership-success", "membership-pending", "membership-failed"}
           \cup BottomNav)
MockMembershipResult ==
  /\ page \in {"membership-success", "membership-pending", "membership-failed"}
  /\ Visit({IF page = "membership-success" THEN "contribution" ELSE "membership", "membership"}
           \cup BottomNav)
MockContribution ==
  /\ page = "contribution"
  /\ Visit({"membership-success", "contribution-success", "contribution-pending",
            "contribution-failed"} \cup BottomNav)
MockContributionResult ==
  /\ page \in {"contribution-success", "contribution-pending", "contribution-failed"}
  /\ Visit({IF page = "contribution-success" THEN "final-confirmation" ELSE "contribution",
            "contribution"} \cup BottomNav)
MockFinalConfirmation ==
  page = "final-confirmation" /\ Visit({"contribution-success", "contract-active"} \cup BottomNav)
MockProfile == page = "profile" /\ Visit(BottomNav)
MockContracts ==
  /\ page = "contracts"
  /\ \/ Visit({"contract-tracking", "contract-detail", "review"} \cup BottomNav)
     \/ /\ contractRole' = "Owner" /\ Arrive("owner-connected")
        /\ UNCHANGED <<demoMobile, previewSignedIn, ownerSettlement>>
MockContractActive ==
  page = "contract-active" /\ Visit({"contracts", "contract-detail"} \cup BottomNav)
MockContractDetail ==
  page = "contract-detail" /\ Visit({"contracts", "financing-plans"} \cup BottomNav)
MockPayments ==
  /\ page = "payments"
  /\ Visit({"payment-pending", "receipt", "payment-failed", "payment-terminated"} \cup BottomNav)
MockReceipt == page = "receipt" /\ Visit(BottomNav)
MockPaymentOutcome ==
  page \in {"payment-pending", "payment-failed", "payment-terminated"} /\ Visit(BottomNav)

(* Owner screens *)
MockConnected ==
  page = "owner-connected"
  /\ Visit({"contract-lookup", "owner-settlement-preference"} \cup OwnerFooterNav)
MockSettlementPreference ==
  /\ page = "owner-settlement-preference"
  /\ \/ ownerSettlement' \in {"monthly", "fund"}
        /\ UNCHANGED <<page, demoMobile, previewSignedIn, contractRole, marked>>
     \/ Visit({"owner-connected", "owner-final-confirmation"})
MockOwnerConfirmation ==
  /\ page = "owner-final-confirmation"
  /\ \/ marked' = ~marked /\ UNCHANGED <<page, choices>>
     \/ marked /\ Visit({"owner-active"})
     \/ Visit({"owner-settlement-preference", "owner-connected"})
MockActive ==
  page = "owner-active" /\ Visit({"owner-terminated"} \cup OwnerFooterNav)
MockReceivePay ==
  page = "owner-receive-pay" /\ Visit({"owner-terminated"} \cup OwnerFooterNav)
MockTerminated == page = "owner-terminated" /\ Visit(OwnerFooterNav)
MockAccount == page = "owner-account" /\ Visit({"contract-lookup"} \cup OwnerFooterNav)

\* A link from outside opens any route; an unknown one leads to the entry.
FollowLink == page # "none" /\ Visit(Pages)
StartPreview == page = "none" /\ Visit({"login"})
LeavePreview == page # "none" /\ ForgetsPreview

PreviewStep ==
  \/ StartPreview \/ LeavePreview
  \/ TypeMobile \/ GoToCode \/ ReadTerms \/ LeaveTerms \/ TypeCode \/ EditMobile \/ EnterPreview
  \/ MockHome \/ MockCalculator \/ MockCalculatorResult \/ MockContractTracking
  \/ MockContractLookup \/ MockOwnerContract \/ MockFinancingPlans \/ MockPlanConfirmation
  \/ MockReview \/ MockApproved \/ MockRejected \/ MockMembership \/ MockMembershipResult
  \/ MockContribution \/ MockContributionResult \/ MockFinalConfirmation \/ MockProfile
  \/ MockContracts \/ MockContractActive \/ MockContractDetail \/ MockPayments \/ MockReceipt
  \/ MockPaymentOutcome \/ MockConnected \/ MockSettlementPreference \/ MockOwnerConfirmation
  \/ MockActive \/ MockReceivePay \/ MockTerminated \/ MockAccount \/ FollowLink

\* Whatever links are followed, no page of the walkthrough shows before its entry has been
\* passed with a code, and the code page never without a complete mobile number, even
\* after the walkthrough was left and begun again.
PreviewNeedsEntry ==
  /\ page \notin Entry \cup {"none"} => previewSignedIn
  /\ page = "otp" => demoMobile = "complete"
============================================================================
