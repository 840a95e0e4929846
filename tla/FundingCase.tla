----------------------------- MODULE FundingCase -----------------------------
(***************************************************************************)
(* One credit application from its draft to the active lease: identity       *)
(* verification, plan selection, registration of the property contract,      *)
(* credit eligibility, bank approval, the freeze of the bank's principal,    *)
(* the tenant's contribution and the funding lifecycle of the lease.         *)
(*                                                                           *)
(* Every service works in the same way: a first transaction records that the *)
(* provider is about to be asked, the provider is asked outside of any       *)
(* transaction, and a second transaction records its answer. Both lock the   *)
(* application row. Requests of the tenant, of the operator, of the worker   *)
(* and of the message consumer may overlap, and each may die between its     *)
(* steps.                                                                    *)
(*                                                                           *)
(* A request keeps one change tracker. A row it has loaded is not read again *)
(* by the SELECT ... FOR UPDATE of its second transaction: its guards see    *)
(* the row as this request knows it, and a column is written only where it   *)
(* differs from what the request knows ("seen", Written).                    *)
(*                                                                           *)
(* Amounts are left out: the contract's terms do not change once captured,   *)
(* so that the services' comparisons of amounts hold; the bank lends less    *)
(* than the full deposit, so that a tenant contribution is needed. A request *)
(* that is turned away without a trace is no step.                           *)
(***************************************************************************)
CONSTANT Requests

VARIABLES
  status,   \* CreditApplicationRow.Status
  file,     \* the rows that belong to the application
  verdict,  \* what each provider has decided for the request's key
  request   \* the requests under way

caseVars == <<status, file, verdict, request>>

Statuses ==
  {"Draft", "IdentityPending", "PlanSelectionPending", "NeedsDocuments",
   "PropertyContractPending", "ExternalChecksPending", "ExternalCheckIndeterminate",
   "DecisionReady", "BankApprovalPending", "FundingPending", "ApprovedFunded", "Rejected"}

\* The transitions the domain's workflow allows, of those statuses.
AllowedTransitions ==
  [s \in Statuses |->
     CASE s = "Draft" -> {"IdentityPending"}
       [] s = "IdentityPending" -> {"PlanSelectionPending", "NeedsDocuments", "Rejected"}
       [] s = "PlanSelectionPending" -> {"PropertyContractPending"}
       [] s = "PropertyContractPending" -> {"ExternalChecksPending", "NeedsDocuments"}
       [] s = "ExternalChecksPending" ->
            {"DecisionReady", "ExternalCheckIndeterminate", "NeedsDocuments", "Rejected"}
       [] s = "ExternalCheckIndeterminate" ->
            {"ExternalChecksPending", "DecisionReady", "BankApprovalPending",
             "FundingPending", "Rejected"}
       [] s = "DecisionReady" -> {"BankApprovalPending", "Rejected"}
       [] s = "BankApprovalPending" ->
            {"FundingPending", "ExternalCheckIndeterminate", "Rejected"}
       [] s = "FundingPending" -> {"ApprovedFunded", "ExternalCheckIndeterminate"}
       [] OTHER -> {}]

\* What is asked of a provider; bank funding asks the bank and then the fund.
Questions ==
  {"Identity", "PropertyContract", "CreditEligibility", "BankApproval", "PrincipalFreeze",
   "TenantContribution"}

\* Answers by which a provider decides a request's key, of which it gives no more
\* than one, and answers that leave it open what it has decided.
Final(q) ==
  CASE q = "Identity" -> {"Verified", "NeedsDocuments"}
    [] q = "PropertyContract" -> {"Confirmed", "NeedsDocuments"}
    [] q = "CreditEligibility" -> {"Valid"}
    [] q = "BankApproval" -> {"Approved", "Declined"}
    [] OTHER -> {"Confirmed"}
Tentative(q) ==
  CASE q = "CreditEligibility" -> {"Unknown", "Invalid"}
    [] q = "TenantContribution" -> {"Indeterminate", "Failed"}
    [] OTHER -> {"Indeterminate"}
Answers == UNION {Final(q) \cup Tentative(q) : q \in Questions}

\* The application's rows: "none" until the row exists.
Files ==
  [planned : BOOLEAN,                     \* a bank loan plan has been selected
   identity : Answers \cup {"none", "Pending"},
   evidence : Answers \cup {"none", "Pending", "PendingSnapshot"},
   lease : {"none", "Draft", "AwaitingFunding", "AwaitingCompletion", "Active"},
   terms : BOOLEAN,                       \* immutable terms and schedule are captured
   grade : Answers \cup {"none"},
   approval : Answers \cup {"none"},
   allocation : BOOLEAN,
   freeze : Answers \cup {"none"},
   principal : BOOLEAN,                   \* FrozenPrincipalRow
   deposit : {"none", "Pending", "Unknown", "Failed", "Succeeded"},
   contribution : BOOLEAN]                \* TenantContributionRow and its journal entry
NewFile ==
  [planned |-> FALSE, identity |-> "none", evidence |-> "none", lease |-> "none",
   terms |-> FALSE, grade |-> "none", approval |-> "none", allocation |-> FALSE,
   freeze |-> "none", principal |-> FALSE, deposit |-> "none", contribution |-> FALSE]

\* A request: where it stands, and the application's status and the row of its
\* question as it knows them.
RequestStates ==
  [question : Questions, at : {"idle", "ask", "record", "capture", "finalize", "freeze"},
   answer : Answers \cup {"none"}, seenStatus : Statuses,
   seenRow : Answers \cup {"none", "Pending", "PendingSnapshot"}]
Idle ==
  [question |-> "Identity", at |-> "idle", answer |-> "none", seenStatus |-> "Draft",
   seenRow |-> "none"]

Init ==
  /\ status = "Draft"
  /\ file = NewFile
  /\ verdict = [q \in Questions |-> "open"]
  /\ request = [r \in Requests |-> Idle]

FundingTypeOK ==
  /\ status \in Statuses
  /\ file \in Files
  /\ verdict \in [Questions -> Answers \cup {"open"}]
  /\ request \in [Requests -> RequestStates]

(***************************************************************************)
(* The shape every service shares.                                           *)
(***************************************************************************)
Free(r) == request[r].at = "idle"
\* SaveChanges updates the columns whose value differs from the one first read.
Written(stored, seen, new) == IF new = seen THEN stored ELSE new
IfNone(row, first) == IF row = "none" THEN first ELSE row

Asks(r, q, knownStatus, knownRow) ==
  request' = [request EXCEPT ![r] = [question |-> q, at |-> "ask", answer |-> "none",
                                     seenStatus |-> knownStatus, seenRow |-> knownRow]]
Records(r, q) == request[r].at = "record" /\ request[r].question = q
Ends(r) == request' = [request EXCEPT ![r] = Idle]

\* A provider answers. It makes one decision for the requests with the same key,
\* though it may fail to give it again.
ProviderAnswers(r) ==
  /\ request[r].at = "ask"
  /\ LET q == request[r].question IN
     \E a \in Tentative(q) \cup IF verdict[q] = "open" THEN Final(q) ELSE {verdict[q]} :
        /\ request' = [request EXCEPT ![r] = [@ EXCEPT !.at = "record", !.answer = a]]
        /\ verdict' = [verdict EXCEPT ![q] = IF a \in Final(q) THEN a ELSE @]
  /\ UNCHANGED <<status, file>>

\* The process, its connection or the provider's answer is lost between two steps.
Dies(r) ==
  /\ ~Free(r) /\ Ends(r)
  /\ UNCHANGED <<status, file, verdict>>

(***************************************************************************)
(* The applicant, in one transaction each.                                   *)
(***************************************************************************)
Submit ==
  /\ status = "Draft" /\ status' = "IdentityPending"
  /\ UNCHANGED <<file, verdict, request>>
SelectPlan ==
  /\ status = "PlanSelectionPending" /\ ~file.planned
  /\ status' = "PropertyContractPending"
  /\ file' = [file EXCEPT !.planned = TRUE]
  /\ UNCHANGED <<verdict, request>>

(***************************************************************************)
(* Identity verification.                                                    *)
(***************************************************************************)
IdentityDue ==
  status = "IdentityPending" /\ file.identity \notin {"Verified", "NeedsDocuments"}
IdentityBegins(r) ==
  /\ Free(r) /\ IdentityDue
  /\ file' = [file EXCEPT !.identity = IfNone(@, "Pending")]
  /\ Asks(r, "Identity", status, IfNone(file.identity, "Pending"))
  /\ UNCHANGED <<status, verdict>>
IdentityRecorded(r) ==
  /\ Records(r, "Identity")
  /\ LET a == request[r].answer IN
     /\ file' = [file EXCEPT !.identity = Written(@, request[r].seenRow, a)]
     /\ status' = CASE a = "Verified" -> "PlanSelectionPending"
                    [] a = "NeedsDocuments" -> "NeedsDocuments"
                    [] OTHER -> status
  /\ Ends(r)
  /\ UNCHANGED verdict

(***************************************************************************)
(* Registration of the property contract: the evidence is asked for, the     *)
(* lease is drafted, its terms are captured and the registration is          *)
(* finalized, each in a transaction of its own.                              *)
(***************************************************************************)
PropertyContractDue == status = "PropertyContractPending" /\ file.planned
PropertyContractBegins(r) ==
  /\ Free(r) /\ PropertyContractDue
  /\ file' = [file EXCEPT !.evidence = IfNone(@, "Pending")]
  /\ Asks(r, "PropertyContract", status, IfNone(file.evidence, "Pending"))
  /\ UNCHANGED <<status, verdict>>
EvidenceNotConfirmed(r) ==
  /\ Records(r, "PropertyContract") /\ request[r].answer # "Confirmed"
  /\ file' = [file EXCEPT !.evidence = Written(@, request[r].seenRow, request[r].answer)]
  /\ status' = IF request[r].answer = "NeedsDocuments" THEN "NeedsDocuments" ELSE status
  /\ Ends(r)
  /\ UNCHANGED verdict
LeaseDrafted(r) ==
  /\ Records(r, "PropertyContract") /\ request[r].answer = "Confirmed"
  /\ file.lease \in {"none", "Draft"}
  /\ file' = [file EXCEPT !.lease = "Draft",
                          !.evidence = Written(@, request[r].seenRow, "PendingSnapshot")]
  /\ request' = [request EXCEPT ![r] = [@ EXCEPT !.at = "capture",
                                                 !.seenRow = "PendingSnapshot"]]
  /\ UNCHANGED <<status, verdict>>
LeaseInTheWay(r) ==
  /\ Records(r, "PropertyContract") /\ request[r].answer = "Confirmed"
  /\ file.lease \notin {"none", "Draft"}
  /\ Ends(r)
  /\ UNCHANGED <<status, file, verdict>>
TermsCaptured(r) ==
  /\ request[r].at = "capture"
  /\ file' = [file EXCEPT !.terms = TRUE]
  /\ request' = [request EXCEPT ![r] = [@ EXCEPT !.at = "finalize"]]
  /\ UNCHANGED <<status, verdict>>
RegistrationFinalized(r) ==
  /\ request[r].at = "finalize"
  /\ status' = "ExternalChecksPending"
  /\ file' = [file EXCEPT !.evidence = Written(@, request[r].seenRow, "Confirmed")]
  /\ Ends(r)
  /\ UNCHANGED verdict

(***************************************************************************)
(* Credit eligibility.                                                       *)
(***************************************************************************)
Trusted == file.planned /\ file.lease # "none" /\ file.terms
Evaluatable(s) == s \in {"ExternalChecksPending", "ExternalCheckIndeterminate"}
CreditEligibilityDue == Trusted /\ file.grade # "Valid" /\ Evaluatable(status)
CreditEligibilityBegins(r) ==
  /\ Free(r) /\ CreditEligibilityDue
  /\ file' = [file EXCEPT !.grade = IfNone(@, "Unknown")]
  /\ Asks(r, "CreditEligibility", status, IfNone(file.grade, "Unknown"))
  /\ UNCHANGED <<status, verdict>>
CreditEligibilityRecorded(r) ==
  /\ Records(r, "CreditEligibility")
  /\ LET a == request[r].answer IN
     /\ file' = [file EXCEPT !.grade = Written(@, request[r].seenRow, a)]
     /\ status' = CASE a = "Valid" -> "DecisionReady"
                    [] a # "Valid" /\ request[r].seenStatus = "ExternalChecksPending" ->
                         "ExternalCheckIndeterminate"
                    [] OTHER -> status
  /\ Ends(r)
  /\ UNCHANGED verdict

(***************************************************************************)
(* Bank funding: the bank's approval, then the fund's freeze.                *)
(***************************************************************************)
\* A plausible bug: any assessment will do.
AnyAssessment == file.grade # "none"
Usable == file.grade = "Valid"
Processable(s) ==
  s \in {"DecisionReady", "BankApprovalPending", "FundingPending",
         "ExternalCheckIndeterminate"}
Resumed ==
  CASE status = "DecisionReady" -> "BankApprovalPending"
    [] status = "ExternalCheckIndeterminate" ->
         IF file.allocation THEN "FundingPending" ELSE "BankApprovalPending"
    [] OTHER -> status
BankFundingDue ==
  /\ Processable(status) /\ Usable /\ Trusted
  /\ Resumed = "FundingPending" => file.allocation
BankFundingBegins(r) ==
  /\ Free(r) /\ BankFundingDue
  /\ status' = Resumed
  /\ file' = [file EXCEPT !.approval = IfNone(@, "Indeterminate")]
  /\ request' = [request EXCEPT ![r] =
                   [question |-> "BankApproval",
                    at |-> IF file.allocation THEN "freeze" ELSE "ask", answer |-> "none",
                    seenStatus |-> Resumed,
                    seenRow |-> IfNone(file.approval, "Indeterminate")]]
  /\ UNCHANGED verdict
BankDeclines(r) ==
  /\ Records(r, "BankApproval") /\ request[r].answer = "Declined"
  /\ file' = [file EXCEPT !.approval = Written(@, request[r].seenRow, "Declined")]
  /\ status' = "Rejected"
  /\ Ends(r)
  /\ UNCHANGED verdict
BankUndecided(r) ==
  /\ Records(r, "BankApproval") /\ request[r].answer = "Indeterminate"
  /\ file' = [file EXCEPT !.approval = Written(@, request[r].seenRow, "Indeterminate")]
  /\ status' = "ExternalCheckIndeterminate"
  /\ Ends(r)
  /\ UNCHANGED verdict
BankApproves(r) ==
  /\ Records(r, "BankApproval") /\ request[r].answer = "Approved"
  /\ ~file.allocation
  /\ file' = [file EXCEPT !.approval = Written(@, request[r].seenRow, "Approved"),
                          !.allocation = TRUE]
  /\ status' = "FundingPending"
  /\ request' = [request EXCEPT ![r] = [@ EXCEPT !.at = "freeze",
                                                 !.seenStatus = "FundingPending",
                                                 !.seenRow = "Approved"]]
  /\ UNCHANGED verdict
\* The allocation's unique index refuses a second one: the transaction is lost.
AllocatedMeanwhile(r) ==
  /\ Records(r, "BankApproval") /\ request[r].answer = "Approved"
  /\ file.allocation
  /\ Ends(r)
  /\ UNCHANGED <<status, file, verdict>>

FreezeBegins(r) ==
  /\ request[r].at = "freeze" /\ request[r].seenStatus = "FundingPending"
  /\ file' = [file EXCEPT !.freeze = IfNone(@, "Indeterminate")]
  /\ Asks(r, "PrincipalFreeze", "FundingPending", IfNone(file.freeze, "Indeterminate"))
  /\ UNCHANGED <<status, verdict>>
FreezeRefused(r) ==
  /\ request[r].at = "freeze" /\ request[r].seenStatus # "FundingPending"
  /\ Ends(r)
  /\ UNCHANGED <<status, file, verdict>>
FreezeConfirmed(r) ==
  /\ Records(r, "PrincipalFreeze") /\ request[r].answer = "Confirmed"
  /\ file' = [file EXCEPT !.freeze = Written(@, request[r].seenRow, "Confirmed"),
                          !.principal = TRUE]
  /\ status' = "ApprovedFunded"
  /\ Ends(r)
  /\ UNCHANGED verdict
FreezeUndecided(r) ==
  /\ Records(r, "PrincipalFreeze") /\ request[r].answer # "Confirmed"
  /\ file' = [file EXCEPT !.freeze = Written(@, request[r].seenRow, "Indeterminate")]
  /\ status' = "ExternalCheckIndeterminate"
  /\ Ends(r)
  /\ UNCHANGED verdict

(***************************************************************************)
(* The tenant's contribution.                                                *)
(***************************************************************************)
TenantContributionDue ==
  /\ file.allocation /\ ~file.contribution
  /\ status = "ApprovedFunded" /\ file.principal
  /\ file.deposit # "Succeeded"
TenantContributionBegins(r) ==
  /\ Free(r) /\ TenantContributionDue
  /\ file' = [file EXCEPT !.deposit = "Pending"]
  /\ Asks(r, "TenantContribution", status, "Pending")
  /\ UNCHANGED <<status, verdict>>

ContributionPosted(r) ==
  /\ Records(r, "TenantContribution") /\ request[r].answer = "Confirmed"
  /\ ~file.contribution
  /\ file' = [file EXCEPT !.deposit = "Succeeded", !.contribution = TRUE]
  /\ Ends(r)
  /\ UNCHANGED <<status, verdict>>

\* A plausible bug: the transaction takes over the provider's own word.
RecordsTheAnswerItself(r) ==
  /\ Records(r, "TenantContribution") /\ request[r].answer # "Confirmed"
  /\ ~file.contribution
  /\ file' = [file EXCEPT !.deposit = request[r].answer]
  /\ Ends(r)
  /\ UNCHANGED <<status, verdict>>
\* A plausible bug: the contribution is not looked up again.
RecordsOverAContribution(r) ==
  /\ Records(r, "TenantContribution") /\ request[r].answer # "Confirmed"
  /\ file' = [file EXCEPT !.deposit = IF request[r].answer = "Failed" THEN "Failed"
                                      ELSE "Unknown"]
  /\ Ends(r)
  /\ UNCHANGED <<status, verdict>>
ContributionNotConfirmed(r) ==
  /\ Records(r, "TenantContribution") /\ request[r].answer # "Confirmed"
  /\ ~file.contribution
  /\ file' = [file EXCEPT !.deposit = IF request[r].answer = "Failed" THEN "Failed"
                                      ELSE "Unknown"]
  /\ Ends(r)
  /\ UNCHANGED <<status, verdict>>
AlreadyReconciled(r) ==
  /\ Records(r, "TenantContribution") /\ file.contribution
  /\ Ends(r)
  /\ UNCHANGED <<status, file, verdict>>

(***************************************************************************)
(* The worker advances the lease.                                            *)
(***************************************************************************)
PrincipalFrozen == file.principal /\ file.freeze = "Confirmed"
ContributionReady == file.contribution /\ file.deposit = "Succeeded"
\* The lease has, or obtains in the same transaction, its bank principal.
PastFunding ==
  \/ file.lease = "AwaitingCompletion"
  \/ /\ file.lease \in {"Draft", "AwaitingFunding"}
     /\ status = "ApprovedFunded" /\ PrincipalFrozen

LeaseAwaitsFunding ==
  /\ file.lease = "Draft" /\ file.allocation
  /\ status # "ApprovedFunded"
  /\ file' = [file EXCEPT !.lease = "AwaitingFunding"]
  /\ UNCHANGED <<status, verdict, request>>
LeaseAwaitsCompletion ==
  /\ file.allocation /\ PastFunding
  /\ ~file.contribution /\ file.deposit \in {"none", "Pending", "Unknown"}
  /\ file' = [file EXCEPT !.lease = "AwaitingCompletion"]
  /\ UNCHANGED <<status, verdict, request>>
LeaseActivates ==
  /\ file.allocation /\ PastFunding
  /\ ContributionReady /\ file.terms
  /\ file' = [file EXCEPT !.lease = "Active"]
  /\ UNCHANGED <<status, verdict, request>>

RequestStep(r) ==
  \/ IdentityBegins(r) \/ IdentityRecorded(r)
  \/ PropertyContractBegins(r) \/ EvidenceNotConfirmed(r) \/ LeaseDrafted(r)
  \/ LeaseInTheWay(r) \/ TermsCaptured(r) \/ RegistrationFinalized(r)
  \/ CreditEligibilityBegins(r) \/ CreditEligibilityRecorded(r)
  \/ BankFundingBegins(r) \/ BankDeclines(r) \/ BankUndecided(r) \/ BankApproves(r)
  \/ AllocatedMeanwhile(r) \/ FreezeBegins(r) \/ FreezeRefused(r)
  \/ FreezeConfirmed(r) \/ FreezeUndecided(r)
  \/ TenantContributionBegins(r) \/ ContributionPosted(r)
  \/ ContributionNotConfirmed(r) \/ AlreadyReconciled(r)
  \/ ProviderAnswers(r) \/ Dies(r)
CaseStep ==
  \/ Submit \/ SelectPlan
  \/ LeaseAwaitsFunding \/ LeaseAwaitsCompletion \/ LeaseActivates
  \/ \E r \in Requests : RequestStep(r)

FundingSpec == Init /\ [][CaseStep]_caseVars

(***************************************************************************)
(* Properties.                                                               *)
(***************************************************************************)

\* However requests overlap, die and overwrite the application's status, no loan is
\* allocated unless the identity was verified, the property contract confirmed, the
\* credit grade valid and the bank's approval given, and no principal is frozen or
\* contribution posted unless the fund confirmed it.
EveryGateWasPassed ==
  /\ file.allocation =>
       /\ verdict["Identity"] = "Verified" /\ verdict["PropertyContract"] = "Confirmed"
       /\ verdict["CreditEligibility"] = "Valid" /\ verdict["BankApproval"] = "Approved"
  /\ file.principal => file.allocation /\ verdict["PrincipalFreeze"] = "Confirmed"
  /\ file.contribution => file.principal /\ verdict["TenantContribution"] = "Confirmed"

\* A lease is active only with its terms captured, the bank's principal frozen, and the
\* tenant's contribution posted for a deposit that is still recorded as succeeded.
ActiveLeaseIsFunded ==
  file.lease = "Active" =>
    file.terms /\ file.principal /\ file.contribution /\ file.deposit = "Succeeded"

\* "Transition {Status} -> {next} is not allowed." (CreditApplicationWorkflow.cs:77).
TransitionsAreAllowed ==
  [][status' # status => status' \in AllowedTransitions[status]]_caseVars
==============================================================================
