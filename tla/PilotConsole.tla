----------------------------- MODULE PilotConsole -----------------------------
(***************************************************************************)
(* The operator's console for one case: the web page that shows the case and *)
(* the operation the API suggests, the form that asks for it, the web's      *)
(* route handler, and the API's reconcile operation, which writes the        *)
(* request's audit row in a transaction of its own and then calls the        *)
(* service of that operation (a request of FundingCase, the one named        *)
(* Operator). The page may be older than the case it shows, everybody else   *)
(* keeps working on the case, and the answer of the API may be lost while    *)
(* the service goes on.                                                      *)
(*                                                                           *)
(* Bound: the operator has one request inside the API at a time.             *)
(***************************************************************************)
EXTENDS FundingCase

CONSTANT Operator
ASSUME OperatorIsARequest == Operator \in Requests

VARIABLES
  view,     \* the page in the operator's browser
  post,     \* the operator's request inside the API
  audited   \* the audit row of that request, or of the last one, is committed

consoleVars == <<view, post, audited>>

Operations ==
  {"Identity", "PropertyContract", "CreditEligibility", "BankFunding", "TenantContribution"}

Views ==
  [at : {"elsewhere", "opening", "loading", "shown", "failed", "posting"},
   seen : Statuses,                        \* the application's row, while the rest is read
   offer : Operations \cup {"none"},       \* the operation in the page's form
   notice : {"none", "ok"}]                \* ?reconcile=ok in the page's address
Elsewhere == [at |-> "elsewhere", seen |-> "Draft", offer |-> "none", notice |-> "none"]
Posts == [at : {"none", "received", "execute", "executing"}, operation : Operations]
NoPost == [at |-> "none", operation |-> "Identity"]

ConsoleTypeOK == view \in Views /\ post \in Posts /\ audited \in BOOLEAN
ConsoleInit == view = Elsewhere /\ post = NoPost /\ audited = FALSE

(***************************************************************************)
(* The page.                                                                 *)
(***************************************************************************)
\* The funding rows of the case, as the page lists them.
Evidence ==
  [approval |-> file.approval, allocation |-> file.allocation, freeze |-> file.freeze,
   deposit |-> file.deposit]

Suggested(s, rows) ==
  CASE s = "IdentityPending" -> "Identity"
    [] s = "PropertyContractPending" -> "PropertyContract"
    [] s = "ExternalChecksPending" -> "CreditEligibility"
    [] s \in {"DecisionReady", "BankApprovalPending", "FundingPending"} -> "BankFunding"
    [] s = "ExternalCheckIndeterminate" ->
         IF rows.allocation \/ rows.approval # "none" \/ rows.freeze # "none"
         THEN "BankFunding" ELSE "CreditEligibility"
    [] s = "ApprovedFunded" /\ rows.allocation /\ rows.deposit # "Succeeded" ->
         "TenantContribution"
    [] OTHER -> "none"

OpenCase ==
  /\ view.at = "elsewhere"
  /\ view' = [Elsewhere EXCEPT !.at = "opening"]
  /\ UNCHANGED <<post, audited, caseVars>>
\* The API reads the application first and the rows that belong to it afterwards.
CaseRead ==
  /\ view.at = "opening"
  /\ view' = [view EXCEPT !.at = "loading", !.seen = status]
  /\ UNCHANGED <<post, audited, caseVars>>
CaseShown ==
  /\ view.at = "loading"
  /\ view' = [view EXCEPT !.at = "shown", !.seen = "Draft",
                          !.offer = Suggested(view.seen, Evidence)]
  /\ UNCHANGED <<post, audited, caseVars>>
\* Neither the bearer token nor the API can be relied on.
CaseNotShown ==
  /\ view.at = "opening"
  /\ view' = [view EXCEPT !.at = "failed"]
  /\ UNCHANGED <<post, audited, caseVars>>
\* The address, and with it the notice of the last request, is kept.
Reload ==
  /\ view.at \in {"shown", "failed"}
  /\ view' = [view EXCEPT !.at = "opening", !.offer = "none"]
  /\ UNCHANGED <<post, audited, caseVars>>
LeaveCase ==
  /\ view.at \in {"shown", "failed"}
  /\ view' = Elsewhere
  /\ UNCHANGED <<post, audited, caseVars>>

\* An address with ?reconcile=error leads to the same as one without a notice.
Redirected(result) ==
  view' = IF view.at # "posting" THEN view
          ELSE [Elsewhere EXCEPT !.at = "opening",
                                 !.notice = IF result = "ok" THEN "ok" ELSE "none"]
SubmitReconcile ==
  /\ view.at = "shown" /\ view.offer # "none"
  /\ post.at = "none"
  /\ view' = [view EXCEPT !.at = "posting"]
  /\ post' = [at |-> "received", operation |-> view.offer]
  /\ audited' = FALSE
  /\ UNCHANGED caseVars
\* The route handler turns the form away (an empty reason, no token), or cannot reach
\* the API; nothing of the request remains.
RouteRefuses ==
  /\ view.at = "posting" /\ post.at = "received"
  /\ Redirected("error") /\ post' = NoPost
  /\ UNCHANGED <<audited, caseVars>>
\* The handler loses the API's answer while the API goes on with the request.
ConnectionLost ==
  /\ view.at = "posting" /\ Redirected("error")
  /\ UNCHANGED <<post, audited, caseVars>>

(***************************************************************************)
(* The API.                                                                  *)
(***************************************************************************)
\* A plausible bug: the row is left to the service's own transaction.
AuditAdded ==
  /\ post.at = "received"
  /\ post' = [post EXCEPT !.at = "execute"]
  /\ UNCHANGED <<view, audited, caseVars>>
AuditWritten ==
  /\ post.at = "received"
  /\ post' = [post EXCEPT !.at = "execute"]
  /\ audited' = TRUE
  /\ UNCHANGED <<view, caseVars>>

Due(o) ==
  CASE o = "Identity" -> IdentityDue
    [] o = "PropertyContract" -> PropertyContractDue
    [] o = "CreditEligibility" -> CreditEligibilityDue
    [] o = "BankFunding" -> BankFundingDue
    [] OTHER -> TenantContributionDue
\* What the service answers with success although it has nothing left to do.
Settled(o) ==
  CASE o = "Identity" -> file.identity \in {"Verified", "NeedsDocuments"}
    [] o = "PropertyContract" ->
         \/ file.evidence = "Confirmed" /\ file.lease # "none" /\ file.terms
         \/ file.evidence = "NeedsDocuments" /\ status = "NeedsDocuments"
    [] o = "CreditEligibility" -> Trusted /\ file.grade = "Valid"
    [] o = "BankFunding" -> status = "ApprovedFunded" /\ file.principal /\ file.allocation
    [] OTHER -> file.allocation /\ file.contribution

CallBegins ==
  /\ post.at = "execute"
  /\ \/ post.operation = "Identity" /\ IdentityBegins(Operator)
     \/ post.operation = "PropertyContract" /\ PropertyContractBegins(Operator)
     \/ post.operation = "CreditEligibility" /\ CreditEligibilityBegins(Operator)
     \/ post.operation = "BankFunding" /\ BankFundingBegins(Operator)
     \/ post.operation = "TenantContribution" /\ TenantContributionBegins(Operator)
  /\ post' = [post EXCEPT !.at = "executing"]
  /\ UNCHANGED <<view, audited>>

PostEnds(result) == post' = NoPost /\ Redirected(result) /\ UNCHANGED audited
CallNotDue ==
  /\ post.at = "execute" /\ ~Due(post.operation)
  /\ PostEnds(IF Settled(post.operation) THEN "ok" ELSE "error")
  /\ UNCHANGED caseVars
PostDies ==
  /\ post.at \in {"received", "execute"}
  /\ PostEnds("error")
  /\ UNCHANGED caseVars

CallContinues ==
  /\ \/ ProviderAnswers(Operator) \/ LeaseDrafted(Operator) \/ TermsCaptured(Operator)
     \/ BankApproves(Operator) \/ FreezeBegins(Operator)
  /\ UNCHANGED consoleVars
CallEnds ==
  \/ /\ \/ IdentityRecorded(Operator) \/ EvidenceNotConfirmed(Operator)
        \/ RegistrationFinalized(Operator) \/ CreditEligibilityRecorded(Operator)
        \/ BankDeclines(Operator) \/ BankUndecided(Operator)
        \/ FreezeConfirmed(Operator) \/ FreezeUndecided(Operator)
        \/ ContributionPosted(Operator) \/ ContributionNotConfirmed(Operator)
        \/ AlreadyReconciled(Operator)
     /\ PostEnds("ok")
  \/ /\ \/ LeaseInTheWay(Operator) \/ AllocatedMeanwhile(Operator)
        \/ FreezeRefused(Operator) \/ Dies(Operator)
     /\ PostEnds("error")

\* The applicant, the worker and the message consumer.
OthersWork ==
  /\ \/ Submit \/ SelectPlan
     \/ LeaseAwaitsFunding \/ LeaseAwaitsCompletion \/ LeaseActivates
     \/ \E r \in Requests \ {Operator} : RequestStep(r)
  /\ UNCHANGED consoleVars

ConsoleStep ==
  \/ OpenCase \/ CaseRead \/ CaseShown \/ CaseNotShown \/ Reload \/ LeaveCase
  \/ SubmitReconcile \/ RouteRefuses \/ ConnectionLost
  \/ AuditWritten \/ CallBegins \/ CallNotDue \/ PostDies \/ CallContinues \/ CallEnds
  \/ OthersWork

(***************************************************************************)
(* Properties.                                                               *)
(***************************************************************************)

\* No provider is asked and no row is changed on an operator's behalf before the audit
\* row of that very request is committed ("The request audit is written before invoking
\* the external reconciliation boundary", pilot-operations-layer-v1.md:112), and a page
\* that says its request was accepted belongs to one that is audited and over, even when
\* answers were lost and the form was sent again.
OperatorCallsAreAudited ==
  /\ ~Free(Operator) => audited
  /\ view.at = "shown" /\ view.notice = "ok" => audited /\ post.at = "none" /\ Free(Operator)
===============================================================================
