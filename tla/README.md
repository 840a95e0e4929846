# Charkhoone, a verification of its services and clients

Charkhoone finances a rented home: a bank lends the deposit, the fund freezes that principal, the tenant
contributes a smaller sum, and over twelve contract months the tenant pays rent to the owner and interest to
the bank. When the tenant misses a payment, the fund pays it from the tenant's contribution; the tenant may
repay what was covered together with the return the fund lost. Three consecutive missed months cancel the
contract. The system is a modular monolith (`Charkhoone.Api` and `Charkhoone.Worker` over one PostgreSQL
database, RabbitMQ for notifications), with its core logic in `src/src/Charkhoone.Infrastructure` and
`src/src/Charkhoone.Domain`; a web application for operators, partners and users (`src/apps/web`, Next.js);
and a mobile application for tenants and owners (`src/apps/mobile`, Expo).

The project models three things: how a contract lives and is cancelled (the monthly cycle, coverage, repayment,
settlement), how an application becomes an active lease (the funding case), and the clients in front of them
(the mobile session and its screens, the operator's console, and the web panels).

## How the services work

Almost every service follows one protocol, and it is the reason for this project:

1. a first transaction locks its rows (`SELECT ... FOR UPDATE`), checks its guards and commits an
   `ExternalTransactionRow` (or coverage, settlement, verification, approval) as `Pending`;
2. the external provider is called **with no lock held** (`EnsureOrQueryAsync`, `QueryAsync`);
3. a second transaction locks the rows again, checks again, and records a definitive failure (`Failed`), an
   exact confirmation (`Succeeded`, with the journal) or anything else (`Unknown`).

A crash leaves `Pending`; `FinancialReconciliationWorker` polls for `Pending` and `Unknown` rows for ever. The
API calls the same services at any time, so two callers may be between steps 1 and 3 for the same rows. Nothing
uses optimistic concurrency tokens; the isolation level is READ COMMITTED.

Some services clear the EF change tracker between the two transactions, and some do not. For those that do not,
a row that the first transaction has loaded is not read again by the `SELECT ... FOR UPDATE` of the second: its guards see
the row as this request knows it, and a column is written only where it differs from what the request knows. The same
holds inside one pass of the worker, which has one `DbContext` for all its stages (`FinancialReconciliationWorker.cs:77-78`):
what one call leaves tracked, the next one still sees. Queries (`AnyAsync`, `SumAsync`, `AsNoTracking`) do read the rows as they stand.
`ArrearsRepayment`, `FundingCase`, `RentCycle`, `TenantCoverage` and `CancellationSettlement` model this where it matters; two of the
findings and several hazards come from it.

## Inventory

| Component | State it keeps | Operations | What makes it correct |
|---|---|---|---|
| Payment reconciliation and monthly closing (`EfPaymentService`) | months, payment instructions, external transactions, delinquency | `ReconcileAsync`, `CloseAsync`, `EnsureAsync` | one outcome per payment; months close in order; oldest debt first; third miss cancels |
| Monthly due lifecycle (`EfMonthlyDueLifecycleService`) | none of its own | `ProcessAsync` | every due month is eventually closed |
| Coverage (`EfTenantContributionCoverageService`, `LostFundReturnTrackingInterceptor`) | coverage payments, tenant contribution, lost fund returns, journal | `CoverAsync`, `PostConfirmedReplenishmentAsync` | the contribution bears every reservation; money moved is accounted for; one debit per transfer |
| Arrears repayment (`EfTenantArrearsRepaymentService`, `TenantArrearsPolicy`, `LostFundReturnTerms`) | external transactions of the contract, replenishments | `ReconcileAsync` | all or nothing; one payment restores once; principal and exposures agree |
| Cancellation settlement, bank principal return | settlements, external transactions, journal | `SettleAsync` | owner gets exactly the residual; contract reaches `Cancelled` |
| Normal maturity and settlement | contract, normal settlement | `PrepareAsync`, `SettleAsync` | nothing is settled with open debt; both transfers once, bank first |
| Credit application, identity, eligibility (`EfCreditApplicationService`, `EfCreditApplicationIdentityService`, `EfCreditEligibilityService`) | application, verification request, assessment | draft, submit, select a plan, verify, evaluate | only legal transitions; indeterminate checks resume; no gate is passed without its evidence |
| Property contract, lease terms | registration, lease contract, terms, schedule | `RegisterAsync`, capture, finalize | terms exist before anything is funded |
| Bank funding, tenant contribution, lease lifecycle | approval, allocation, freeze, contribution, lease status | `ProcessAsync`, `ReconcileAsync`, `AdvanceAsync` | one allocation; a lease is active only when principal is frozen and contribution received |
| Pilot operations and the operator's console | audit rows; the page in the browser | queues, case, reconcile | an operator's call is audited before it is made; the queue hides nothing |
| Partner panels (bank, brokerage, organization) | the browser's storage, shared by all tabs | add, edit, turn off | nothing saved is lost |
| User panel (web) | parameters of links | every page | what was selected reaches the last page |
| Mobile session (`MobileAuthProvider`) | React state, SecureStore, calls in flight | restore, sign in, refresh, request, sign out | an answer reaches only the session that asked |
| Mobile screens | navigator stack, account data on each screen | read the account, select a plan | a plan is recorded once, for its applicant |
| Mobile preview | choices of the walkthrough | every screen | nobody gets past its entry |
| Outbox publisher, three consumers | outbox, inbox, review marks | publish, handle | at least once, handled once |
| Financial worker | none | thirteen stages per pass | nothing waits for ever for a later pass |
| Read models, persistence, administration pages | none or projections | | |

Interactions: closing decides by the coverage and the replenishments of older months; coverage reads the missed
months closing leaves; repayment reads confirmed coverage and open exposures and, by posting, lets newer months
be paid again; cancellation stops all three and settles from the same balance. All of it goes through shared
rows, never through direct calls with state. The funding case hands over one thing only, the captured terms and
schedule, with which `RentCycle` begins. The operator's console calls the services of the funding case as one more request.
The other clients share no state with each other.

## Modules

| Module | Code | Role |
|---|---|---|
| `RentLadder` | the rules of the monthly cycle | abstract specification: months paid, unpaid and repaid, also after the cancellation, and the cancellation |
| `RentCycle` | `EfPaymentService`, `EfMonthlyDueLifecycleService` | reconciliation and closing, with concurrent callers, crashes and overtaken passes |
| `RentCycleProofs` | | theorems about `RentCycle` |
| `TenantCoverage` | `CoverAsync`, exposure interceptor, balance | coverage with concurrent workers, crashes and time |
| `ArrearsRepayment` (extends `TenantCoverage`) | `EfTenantArrearsRepaymentService`, `PostConfirmedReplenishmentAsync` | repayment composed with coverage |
| `ResumableTransfer` | the shape shared by all transfers in two transactions | abstract specification: made at most once, settled only as it really ended |
| `LostFundReturn` | `LostFundReturnTerms` | the return owed for a withdrawal, used by `ArrearsRepayment` and `CancellationSettlement` |
| `CancellationSettlement` (extends `TenantCoverage`) | `EfCancellationSettlementService`, `EfCancellationBankPrincipalSettlementService`, `CancellationFinancialSettlementCalculator` | the owner's residual and the bank's principal, composed with coverage |
| `SumLemmas` | | lemmas about the sums of amounts over finite sets |
| `TenantCoverageProofs`, `ArrearsRepaymentProofs`, `CancellationSettlementProofs` | | theorems; all use `SumLemmas`, the last two build on the first |
| `FundingCase` | application, identity, property contract, eligibility, bank funding, contribution, lease lifecycle | one application from its draft to the active lease, with overlapping and dying requests |
| `FundingCaseProofs` | | theorems about `FundingCase` |
| `PilotConsole` (extends `FundingCase`) | the web page of a case, its route handler, `EfPilotOperationsService` | the operator as one of the requests |
| `PilotQueue` | both queues of the console | paging over a list that changes |
| `PanelStorage` | partner panels | tabs over one `localStorage` |
| `UserWalkthrough` | tenant's and owner's web panel | selections carried by links |
| `MobilePreview` | `apps/mobile/src/preview`, `app/preview` | the walkthrough and its gate |
| `Clients` | | the four above and the console side by side |
| `ClientsProofs` | | theorems about the five clients; builds on `FundingCaseProofs` |
| `MobileSession` | `MobileAuthProvider.tsx`, `runtimeConfig.ts` | the session, SecureStore, calls in flight |
| `MobileApp` (extends `MobileSession`) | root layout, real screens, `useMobileBootstrap`, selection of a plan | the screens that follow the session |
| `MobileAppProofs` | | theorems about `MobileApp` |
| `MC...` | | instances for TLC |

### RentCycle

State: `month` and `payment` are the status columns, `external` the status of the payment's external transaction,
`cancelRequired` the delinquency row, `call` the callers between their two transactions, `provider`
what really happened to the payment (not visible to the code), `now` the number of due dates passed. `coverage`
is what the debt query of this service reads: whether an instruction is covered and whether its lost fund return
has been replaced. `taken`, `unlatched` and `requested` are change trackers: the month a pass is about to close as it has
read it, the passes that know the delinquency row unlatched, and whether a repayment request has begun while the contract was active.
`setBack` is a history variable: a covered month has been written `Missed` again.

| Action | Code |
|---|---|
| `StartReconcile` | first transaction of `ReconcileAsync` with all its early returns |
| `ProviderAnswers`, `ProviderDecides` | the provider; it is only queried, so the tenant may pay at any time |
| `RecordAnswer` | second transaction, including paying the month when its last payment succeeds |
| `CrashCaller` | the process stops between the two |
| `TakeMonth` | `ProcessAsync` reads the month Open and due and the contract Active; with what its `ReconcileAsync` loads they stay tracked |
| `CloseMonth` | `CloseAsync` on that memory, with its outcomes `BlocksOnly`, `ClosesAsPaid`, `ClosesAsMissed`, `RefusesMiss` |
| `CloseAtOnce` | both in a row, nobody between them: the ordinary case, of any worker |
| `LeaveMonth`, `PassForgets` | a closing that decides nothing; the end of a pass, or a reconciliation that clears its tracker |
| `CoverageConfirmed`, `FinalizeCoverage` | coverage as this service sees it |
| `BeginRepayment`, `PostReplenishment` | a repayment request reads contract and delinquency, and posts on them at any later time |

What is read when. The status of the month, of the contract and of the delinquency row, and the instructions a pass has
left `Created`, come from the tracker when the pass knows them. Of the instructions only those are remembered: any other status
is written by a reconciliation that clears the tracker before it reads them again, and an outcome does not change.
`CanCloseChronologically`, older debt and the streak are queries and are read at the closing. So a pass may take a month, another replica
may close it, cover it and see it repaid, and the first one writes `Missed` over it and counts its streak again. That is what `OutcomesAreFinal`
allows and describes: only such a pass does it, only to the newest closed month, and only over `Missed` or `Covered`, since payments that all
succeeded leave nothing to miss. `Missed` written over `Missed` changes nothing but the audit trail. `Missed` over `Covered` is what `setBack` records: from then on a
repaid debt may be open again behind a month that has been paid meanwhile. The properties about debt, payments, outcomes and the latch therefore hold until
`setBack`; `ClosedMonthsAreAPrefix` holds always, because the order of the months is a query. Nothing in the code detects or undoes the
state after it, and no document speaks of it, so it is recorded as a hazard.

The number in the delinquency row (`ConsecutiveMissedMonths`) decides nothing, because every closing computes it from history, and is left out.
`ScheduleAssumption` (every month has an instruction) is what `EfMonthlyScheduleProvisioningService` guarantees by
validating the schedule; a component with amount zero has no row (`ZeroAmount`). `Reversed` is a status no
service assigns and is left out. `ClosesAsPaid` and `BlocksOnly` are defensive branches of closing
that these instances do not reach: reconciliation pays a month together with its last payment, and it starts no payment while an
older debt is open, so that what is unstarted is blocked together. They are kept because the code has them.

### TenantCoverage

`coverage` is the status of a coverage payment, `transfer` what really happened at the provider, `coveredAt` the
time stamp that also opens the exposure, `exposure` the lost fund return, `job` the month a worker is in the middle of.
A worker's time is the beginning of its pass (`pass`), as in `ReconcileOnceAsync`. Components of a month are
asked about one by one in any order (the code's order is that of its query). Closing is reduced to which
components stayed unpaid; `RentCycle` has the rest. `due` and `unlatched` are the passes' memories as in `RentCycle`: `CloseAsMissed` writes
`Missed` over a month that another worker has closed and covered meanwhile, also when the contract has been cancelled or settled, if the pass
knows the delinquency row unlatched. It then writes the transition to `CancellationPending` a second time, and `cutoff` becomes `Never`:
`GetCancellationEffectiveAtUtcAsync` returns a time only if there is exactly one transition. `Reserve` re-asks about indeterminate transfers; a month with
a failed transfer is never taken up again. Two workers stand for two replicas of the worker process.

### ArrearsRepayment

`request` holds what one call of `ReconcileAsync` remembers between its transactions. Unlike its siblings this
service does not clear the EF change tracker after the provider call. So the entities of the second transaction
keep the values of the first, its guards on contract, delinquency and status always pass, and an update writes
only the columns that differ from what is remembered: `RecordProof` and `RecordNoProof` have no such guards, and
write `owed` and `updatedAt` accordingly. `bank` is what the tenant did: pay the total last asked for, or not;
that he might pay before the provider has heard of the attempt over-approximates it. `ReplenishedByRealPayments` compares the
principal restored with the payment only while the row says what was paid, because the code does not guarantee that it does
(see the findings); that a posting belongs to one confirmed payment never posted before holds without that condition.
`Remaining` is the oldest-first allocation, `PayableReturn` the simple return of 3 % a month over 365 days floored to a
rial (a tick is `TickDays` days).

### ResumableTransfer

`status` is the row of a transfer, `transfer` what really happened to it. `Order` commits the row, `Provide` is the
provider dealing with it, `Settle` records an answer. `TenantCoverage` implements it with its instructions as
transfers (`CoverageIsResumable`), `CancellationSettlement` with its two payouts (`PayoutsAreResumable`).

### CancellationSettlement

State: `settlement`, `residual` and `retained` are the settlement row, `order` the external transactions of the two payouts
and `payout` what really happened to them, `journals` the two entries about the frozen principal, `call` what each
worker is asking about, `repayment` a confirmed repayment that is not posted yet. All of `TenantCoverage` runs along:
a missed month may be covered by one worker while another one settles.

| Action | Code |
|---|---|
| `BeginSettlement` | first transaction of the owner's `SettleAsync`; completes at once when nothing is left to transfer |
| `AskForPayout` | `EnsureOrQueryAsync` of either transfer |
| `RecordSettlement` | second transaction, with the amount computed again and `CompleteCancellation` in the same commit |
| `BeginPrincipalReturn`, `RecordPrincipalReturn` | both transactions of the bank's `SettleAsync` |
| `CrashCall` | the process stops between the two |
| `ConfirmRepayment`, `PostRepayment` | a tenant's repayment, with the posting at any later time: it keeps the contract it has read (`ArrearsRepayment` has the details) |

Where the code throws out of its calculation or gives up (a withdrawal after the cutoff, a lost return above the balance, no single cutoff)
`SplitIsDefined` is false and the call changes nothing.

Both payout services clear their trackers after the provider call and read the contract under its lock in both transactions. The closing
of months does not (see `TenantCoverage`), so an overtaken pass moves a month and the status of a contract that is being settled, or is cancelled. `CancelledBooksAreClosed`
says what stays closed all the same (coverage, exposures, the balance, and after its completion the settlement row) and that months and status move only by such a pass.
The contract is then `CancellationPending` without a cutoff for good. If the owner's transfer is under way it is made but never journaled; if the settlement
is completed the bank's principal is never returned. `FrozenResidualStands` is stated as long as there is a cutoff.

### FundingCase

State: `status` is the application's status column, `file` the rows that belong to it ("none" until a row exists),
`verdict` what each provider has decided for the key its requests use, and `request` the requests under way: what they
ask, how far they are (`at`), and the status and the row of their question as they know them (`seenStatus`, `seenRow`).

| Actions | Code |
|---|---|
| `Submit`, `SelectPlan` | `EfCreditApplicationService` |
| `IdentityBegins`, `IdentityRecorded` | both transactions of the identity service |
| `PropertyContractBegins` to `RegistrationFinalized` | evidence, draft of the lease, capture of the terms, finalization: four transactions of one request |
| `CreditEligibilityBegins`, `CreditEligibilityRecorded` | the credit assessment |
| `BankFundingBegins` to `FreezeUndecided` | `ProcessAsync`: the bank's approval, then the fund's freeze |
| `AllocatedMeanwhile` | the unique index on allocations refuses the second one |
| `TenantContributionBegins` to `AlreadyReconciled` | the contribution service; its second transaction decides by the contribution row, which the first one has not found and so does not track |
| `LeaseAwaitsFunding`, `LeaseAwaitsCompletion`, `LeaseActivates` | `AdvanceAsync` by the worker |
| `ProviderAnswers`, `Dies` | the providers; a process that stops between two steps |

`Written(stored, seen, new)` is EF's update of a column. A provider makes one decision: requests repeat one
idempotency key, so `verdict` is final once it is one of `Final(q)`. It may still fail to give that decision again: an indeterminate answer
can follow it at any time. Amounts are left out: terms do not
change once captured, so comparisons of amounts hold, and the bank lends less than the deposit, so that a contribution is
needed. Evidence about the wrong parties or property is folded into `Indeterminate`, which the code records for it.

### PilotConsole and PilotQueue

`view` is the page in the operator's browser, `post` the operator's request inside the API, `audited` whether that request's
audit row is committed. `CaseRead` and `CaseShown` are two steps because the API reads the application first and its rows
afterwards; the page may be older than the case, everybody else works on (`OthersWork`), and `ConnectionLost` leaves the API
going on with a request nobody waits for. `CallBegins` and `CallEnds` are steps of the request `Operator` of `FundingCase`.
The operator has one request inside the API at a time: a form sent again is covered once the first request has ended, two
that overlap inside the API are not. `notice` is the page's notice after a redirect; those that say the operation did not succeed lead on like no notice and are one with it. In `PilotQueue` the list is ordered by the stamp of the last change, newest first. `listed` gives for each
existing item the items with a newer stamp, and page `p` shows those with at least `(p - 1) * PageSize` and fewer than `p * PageSize`
matching items before them. A change moves its item anywhere, because a stamp is taken when a request begins. `walk` remembers what
the operator has seen since the first page. When a change takes an item out of the filter, or moves it behind
others, an untouched item behind it moves up by one place, and the next page misses it. The code does this; `fellBack` marks such walks, and
`NothingUntouchedIsMissed` is about the others.

### PanelStorage and UserWalkthrough

`store` is `window.localStorage`, `tab` what each tab shows. A handler that saves reads the storage again and writes in one
step, as JavaScript does. `panel` says whose panel it is; a form field is one of two values. In `UserWalkthrough` a page is its route
(`where`), its parameters (`query`) and what is marked on it (`form`); `trail` is what the user selected on the way, to which
every page's parameters are compared.

### MobileSession and MobileApp

State of the provider: `status`, `token`, `discovery`, `restoring`, `prompting`; of the device: `store` (SecureStore), `issued`, `expired`,
`spent`. `calls` are the asynchronous calls under way, each with what its closure has captured: the token, and whether the discovery document
was there. `by` names the place on the stack whose effect made it; when that effect is cleaned up `by` becomes `Nobody`, and the call still
refreshes, stores and clears tokens, only its answer is dropped (the `active` flags of the code). Any response of a prompt, that of a dismissed one too, cleans up
the effect that exchanges an earlier code (`PromptEnds`). `dirty` are the places whose effects must run again after a state
update. `FreshAccess` is `getFreshAccessToken` up to its first await, `SaveFinishes` is `persistToken`, `Clears` is `clearToken`: a SecureStore operation
and the state updates behind it are one step.

`MobileApp` adds the stack of screens (`stack`), the part of the application that is shown (`area`), and the backend's record of each applicant's
application (`application`). One action per screen has its buttons; `EffectsRun` is React running the effects of every mounted screen;
legal pages and the preview unmount the provider (`Unmounts`), and coming back mounts it anew (`Remounts`). `PlansFound` and `PlansListed` are the backend's
evaluation of a list of plans and its arrival, between which the application may change; the plans screen drops its list, and no longer listens to the one it waits for, when the
application it shows changes (`Informed`, `ListsDropped`). The confirmation's button has no such flag: `PlanSelected` replaces whatever screen is on top when the answer arrives,
as the handler does. expo-router is external: replace, push and
back, with screens underneath staying mounted. `Kill` ends the process at any time. The provider is unmounted only when no
call is under way, a bound that keeps calls of two providers apart.

### MobilePreview

Every route below `/preview` with its buttons, the provider's choices and the gate of `_layout.tsx`. Links may open any route at any time (`marked` stands
for what a screen keeps to itself). It has no access to the real session.

### Clients

The clients share no state, so a behaviour of `Clients` is a behaviour of one of them, chosen by `client` in the first state, and everything of
the others stays as it begins. The state space is their sum, and one run checks all five.

## What TLC checks

| Run | Instance | Question |
|---|---|---|
| `rent_cycle` | 3 months, first with two components, 2 callers, 1 worker that can be overtaken | interleaved, late and repeated answers; closing on old memories; order of closing; debt; exactly the third consecutive miss cancels and finds nothing in flight; posting after the latch; refinement of `RentLadder` (1.8 million states) |
| `rent_cycle_live` | 2 months, 2 callers, 1 worker, fair | every due month closes, or the contract is cancelled or a covered month set back first (24 thousand states) |
| `arrears_repayment` | 2 months (100 and 200 rial), 2 requests, 2 attempts, 3 times | principal, exposures and the tenant's money (1.0 million states) |
| `cancellation_settlement` | 3 months of 100 rial, contribution 205, 2 workers, 3 times | reservations, real money and single debit in coverage; residual exact and frozen, books closed but for an overtaken pass, bank last, payouts made once (1.7 million states) |
| `mobile_screens` | every screen, 1 token, stack of 2, 2 calls, links to any application | plans are offered only beside an application that waits for one; a plan is recorded once (4.3 million states) |
| `mobile_session` | 2 tokens, rotating refresh, home screen under links | only the present session is listened to; nothing of an ended one remains; loading ends (1.0 million states) |
| `clients` | 2 requests; 3 items with pages of 1; 2 tabs, 2 newcomers, 2 listed users | audit, gates and funding of a case; paging; preview gate; selections; saved data (2.4 million states) |
| `stale_repayment_request` | as `arrears_repayment` | finding: two unposted repayments |
| `out_of_order_coverage` | as `arrears_repayment`, 1 request | finding: outstanding principal of a final exposure |
| `late_coverage` | as `cancellation_settlement`, contribution 305, 1 worker, 4 times | finding: a covered contract that can never be settled |
| `late_refresh` | as `mobile_session`, with the sign-out screen | finding: a sign-out that does not last |
| `case_transitions` | 2 requests | finding: an application taken back by a stale request |

Why the bounds are enough: three months give a full streak of misses, a streak that is broken, and a newest month that is set back in front of none, one or two older ones; a second component of the
first month shows partial payment; one worker with a memory beside closings of all others (`CloseAtOnce`) gives every way of being overtaken, and `cancellation_settlement` has two of them. A month that is still open when
the contract is latched, and closed by an overtaken pass afterwards, needs four months: the runs do not show it, the theorems cover it. The same holds of a list of plans that arrives after two later readings, for which
`MaxCalls` is too small; two callers, workers or requests give every overlap of two, and the code never relates three (a row is
decided by one request against one other). A contribution of 205 bears two of three covered months and leaves 5, so that the third is refused or two workers compete
for it, and the lost returns (2 rial for one tick of 30 days, 5 for two) leave a residual or consume it to the rial. Amounts of
`arrears_repayment` differ so that a wrong allocation shows; times 0, 1 and 2 are enough for quote, payment and posting, and for coverage before, at and after the
cutoff. Two tokens are a session and its successor (a refresh, or another sign-in); a stack of two has a screen underneath; two
calls are one that is listened to and one that is not. Pages of one item make every page full, three items give a first, a middle
and a last page. `MaxTime`, `Attempts`, `Requests`, `MaxTokens`, `MaxDepth` and `MaxCalls` bound what would otherwise grow; `Offered` and
`Linked` say which screens the buttons and links of an instance open. Callers, workers, tabs and newcomers are
symmetric; listed users are not (a `CHOOSE` tells them apart), and `rent_cycle_live` and `mobile_session`, which check liveness, use no
symmetry. Runs with `CHECK_DEADLOCK FALSE` are those of systems that may stop: all months closed, the clock at its bound, the lease active.

Fairness. `FairSpec` of the rent cycle: the worker polls for ever and takes up every due payment and month again (weak fairness of
recording and of `CloseAtOnce`, nothing of overtaken passes; strong fairness of starting, because other callers may occupy the slot), and a provider
that is asked infinitely often eventually gives its definitive answer, which is the assumption under which
"queryable" rows end. Without it a payment may stay `Unknown` for ever, as the documents say. `Spec` of `MobileApp`: SecureStore
and the identity provider's token endpoint answer or fail in the end, for the restore and for a sign-in; nothing is assumed of
people, of the discovery document, or of the API.

Every property has a mutant in `PROJECT.json`: a plausible mistake in one definition that the run's instance
finds. The mutants are the operators marked "A plausible bug" or "Mutant" in the modules.

## Findings

* **Two unposted repayments** (`stale_repayment_request`). Two requests ask about attempt 1 (the tenant and the
  worker, say); one records the failure. New coverage changes the outstanding set, so attempt 2 is opened. The slower
  request then records its older, indeterminate answer: its second transaction still sees the status it wrote
  itself and turns `Failed` into `Unknown`. Two unposted repayments exist, against
  `tenant-arrears-repayment-reconciliation-v1.md:56`, and `ReconcileAsync` refuses the contract from then on.
* **Outstanding principal of a finalized exposure** (`out_of_order_coverage`). Coverage of month 1 stays
  indeterminate while month 2 is covered and repaid. When the coverage of month 1 is confirmed, the oldest-first
  allocation gives the replenishment to month 1 and part of month 2 becomes outstanding again, with a final
  exposure, which the service asserts never to happen. Quotes and postings are then refused.
* **A cancellation nobody can settle** (`late_coverage`). The cutoff is the time of the pass that latched the
  cancellation; a coverage that the provider confirms to a later pass is withdrawn after it. For such an exposure
  `CalculateAccruedReturn` throws and `SettleAsync` answers `InvalidState`, on every pass, since neither time changes.
  `cancellation-owner-settlement-v1.md:51` expects coverage to complete after the latch, and `:12` the return to be
  calculated with that cutoff.
* **A sign-out that does not last** (`late_refresh`). A request that found its access token expired has sent a refresh
  when the person signs out. `clearToken` cancels nothing; the refresh is answered, and `persistToken` stores the new token and
  sets the provider to authenticated. `mobile-real-api-oidc-v1.md:38` says that the local sign-out clears the device session.
* **An application taken back** (`case_transitions`). Two identity requests overlap (the consumer of the submitted
  message and the operator, say). One records `Verified` and the applicant selects a plan; the slower one decides by the
  application row it read first, passes the workflow's check with `IdentityPending`, and writes `PlanSelectionPending` over
  `PropertyContractPending`, a transition that `CreditApplicationWorkflow.cs:77` refuses. The plan cannot be selected again.

More consequences of uncleared trackers are kept in the models and listed as hazards. A succeeded row may hold another amount
than the one paid: a second request refreshes the quote of an attempt (100 to 102 rial) before the first one is answered, the first one
finds the confirmed 100 equal to what it remembers, and EF writes `Succeeded` alone, beside the 102. When the first request stops
there, the worker posts from that row: either 102 does not clear the debt at the row's time, or it does and a return that nobody
paid is booked. `ReplenishedByRealPayments` therefore compares amounts only for rows that hold the amount paid. A repayment
request that has read the contract as active may post after another process has latched the cancellation, as long as the newest
month is not covered yet, although `tenant-arrears-repayment-worker-v1.md:55` says that such a posting is rejected. It cannot harm the settlement:
`FrozenResidualStands` holds and is proved. And an overtaken pass sets a covered month back to `Missed`, or makes the transition to `CancellationPending` a second
time, against `cancellation-owner-settlement-v1.md:11`, which derives the cutoff from the single transition: see `RentCycle` and `CancellationSettlement` above.

One more behaviour of a client is kept in the model and forbidden by no document: the answer to a selection of a plan leads home from whatever screen the person has gone on to
(`plan-confirmation.tsx:110`).

## What is proved

`RentCycleProofs` proves for every number of months, components, callers and workers:

* `TypeCorrect` and `MonthsCloseInOrder`, which need nothing else and hold in every state.
* `SoundUntilSetBack`: as long as no covered month has been set back, `Sound` holds. Its parts need each other, because a pass that closes on an old memory
  does no harm only while the debt it remembers cannot come back, so they are one inductive invariant: rows agree; closed months are settled; the oldest debt is first;
  the latch is the third miss and finds nothing in flight; `CoverageTruth` relates answers in flight, recorded failures, coverage and months to what happened at the
  provider; `MemoryTruth` says what an instruction remembered as `Created` can have become; `AskedPastDebt` that the provider is asked only past all older debt;
  `NoneWaitsPaid` that a latched contract has no open month that is paid for. `QueryFindsDebt` shows that the code's query, which looks at
  months and coverage rows, finds exactly the debt the properties speak of, and `StreakCountsMisses` counts the streak of the code by cardinality.
* `RowsAlwaysAgree`, `ClosedMonthsStaySettled`, `OldestDebtStaysFirst`, `CancellationFollowsThreeMisses`, `CancellationFindsNothingInFlight`, `CoverageNeverPaysTwice`: from it.
* `OutcomesStayFinal`: the action property, which describes the set back itself: it takes a worker with a memory of the month, and the newest closed month.
* `RentCycleImplementsLadder`: initial states map to initial states, and every step that sets nothing back, postings after the latch included, to a step of the ladder or a
  stutter.

`SumLemmas` proves what the models need of `MapThenSumSet` over finite sets of amounts: it is a natural number, it
is monotone, it is additive over disjoint sets, and it changes with one element as expected. The induction theorems
of the library cannot be instantiated here, so each lemma assumes that it fails and refutes its least counterexample.

`TenantCoverageProofs` proves for every number of months, components, workers and times, and every amount:

* `CoverageTypeCorrect`: `RowTypes` is inductive by itself; `replenished` is never changed by coverage.
* `MovedMoneyStaysAccounted` and `CoverageIsReal`: from the strengthening of them by `TransferTruth` (a row, its
  transfer and the answers workers carry agree, also with two workers asking about one transfer) and `MonthsAreTrue`
  (which months are paid up is decided by their coverage).
* `SettledCoverageIsFinal`: an action property; a slow worker re-reads the row under its lock, so only indeterminate
  coverage changes.
* `ContributionBearsCoverage`: a month is reserved as a whole only if its sum fits, and no other step adds a reservation.
* `CoverageResumes`: coverage implements `ResumableTransfer`.

`ArrearsRepaymentProofs` proves the composition of coverage and repayment, for every number of attempts and requests too:

* `RepaymentTypeCorrect` and `RepaymentInvariant`, the inductive invariant.
* `AccountsAgree`: the principal left unpaid by replenishments is the principal of the open exposures. Posting
  closes all of them with an amount equal to their sum, under the lock; coverage opens one with each debit.
* `ReplenishmentsAreReal`: an action property, every posting belongs to one confirmed payment never posted before.
* `ContributionBearsRepayments`: the balance bears the reservations also when replenishments raise it.

`CancellationSettlementProofs` builds on the lemmas of coverage and proves, for the composition with settlement:

* `SettlementTypeCorrect` and `SettlementInvariant`, the inductive invariant: types, `LatchHistory`, `Debts`, `Stages` and `PayoutTruth`.
  `LatchHistory` says which months precede the newest one of a latched contract, so that an overtaken pass that closes a month of an ended contract always makes the
  transition again and takes the cutoff away (`LateClosingStep`). `Debts` says that once the settlement has begun, an unposted repayment misses an exposure that is open: the
  month whose coverage let the settlement begin was covered after the repayment was confirmed. `Stages` relates
  contract, settlement row, transfers and journals to each other. `PayoutTruth` is `TransferTruth` for the payouts.
* `FrozenResidualIsStable`: with `Debts` no repayment can be posted while the owner's transfer is under way, nothing
  is left to cover, and so neither term of the residual changes while there is a cutoff.
* `CancelledBooksStayClosed`: an action property; it says what an overtaken pass can still change, and how it is recognized.
* `CancellationIsComplete`, `BankComesLast`: from the invariant.
* `ContributionBearsSettlement`, `SettledCoverageIsReal`, `SettlementLeavesCoverageFinal`, `SettledCoverageResumes`: what is
  proved of coverage alone still holds when settlement and repayments run beside it.
* `PayoutsResume`: the payouts implement `ResumableTransfer`.

`FundingCaseProofs` proves for any number of requests:

* `CaseTypes`: type correctness, action by action (`TypeStepOfRequest`).
* `GatesArePassed` and `ActiveLeasesAreFunded`. The status column is no help, because stale requests overwrite it
  (`case_transitions`). The inductive invariant `FundingInv` rests on three things that do not go back: verdicts stand
  (`DecisionsStand`); what the file has of plan, lease, terms, allocation, principal and contribution is not taken away
  (`NothingIsTakenBack`); and every request under way is *backed*: an answer it carries is the provider's verdict, and the steps it has
  reached were reached with the evidence they need (`RequestsAreBacked`). `GateStepOfRequest` shows that the request that
  moves stays backed and that the rows it writes are; `OthersStayBacked` that the others stay so, since verdicts and file only grow.
  The grade and the identity row may be overwritten by an older indeterminate answer; the invariant speaks of the
  verdict where the code reads the row.

`ClientsProofs` proves for any number of requests, items, tabs, people and any page size:

* `ConsoleImplementsTheCase`: every step of the clients is a step of `FundingCase` or a stutter, so that all theorems of
  `FundingCaseProofs` hold with the operator at his console as one of the requests.
* `CallsAreAudited`: from an invariant that relates the request inside the API, its audit row, and the step the operator's
  request of `FundingCase` has reached.
* `QueueShowsEverything`: the invariant says that an untouched matching item with fewer items before it than the pages
  walked through hold has been seen. Unless the walk fell back, a change can only move such an item up to later pages,
  and a page shows all items whose count lies in its range; on a page without a next one nothing lies behind it.
* `PreviewIsEntered`, `SelectionsReachTheirPages`: invariants over the routes, with what the parameters of each page hold.
* `TabsLoseNothing`: the action property, from the types: a handler reads the storage in the step in which it writes it.
* `ClientsTypes`, `ClientsInvariant`: the conjunction of these is inductive.

`MobileAppProofs` proves for any number of people, screens on the stack, calls and tokens:

* `MobileInvariant`: `MobileInv` is the types and four parts. `AreaInv`: the provider is mounted exactly when real screens are shown,
  without it there are no calls, and an authenticated session has a token. `CallsInv`: a call carries what its kind needs, the screen it is made for is on the stack, and
  a call that is still listened to carries the token of the present session. `OffersInv`: a confirmation offers a plan only if its link names one, and the plans screen only beside an
  application that waits for one; a list it still waits for was asked on account of what it shows (`PresentCall`), so that one asked before and answered late is dropped. `Forgotten`: the strengthening of `NothingOfTheAccountRemains` slot by slot, because an account
  is forgotten screen by screen as effects run. `SessionKeeps` describes once what any step of the session leaves alone.
* `OffersFollowTheApplication`, `AnswersAreOfThisSession`, `AccountIsForgotten`, `MobileTypes`: from it.
* `PlansAreRecordedOnce`: the action property; the backend decides by its own record, whatever the screens show.

Assumptions: `MonthCount` and `TickDays` are positive natural numbers, `Kinds` is finite, every month has an instruction, amounts
are positive and the contribution is a natural number, and the placeholders (`Idle`, `Nothing`, `Never`, `Nobody`) are not calls, jobs, times, attempts or
repayments. `FundingCase` assumes nothing of `Requests`, `PilotConsole` that the operator's is one of them. A page of a queue holds at least one item
(`PageSizeAssumption`); a panel lists somebody to manage (`ManagedAssumption`), as every panel's fixture does. `SessionAssumption` and
`MobileAssumption` say what the bounds and sets of an instance are, and `LinkAssumption` that links open screens there are.

Only model-checked: `DueMonthsClose` and `StartupEnds`, because liveness under fairness (and with it `ENABLED`) is out of the
prover's reach, and what the five runs with a finding violate, which cannot hold. Every safety property and every action
property of a passing run is stated by a theorem.

## Not modelled

* Normal maturity and normal settlement: the other end of a contract, two transfers with the shape of `ResumableTransfer`.
* Outbox publisher, inbox and notification consumers: nothing modelled here reads what they write. The consumer that starts the identity check is one of
  the requests of `FundingCase`.
* The batch limit of the worker: the models take up every candidate, in any order.
* Row locks and the deadlocks PostgreSQL resolves by aborting one side: transactions are atomic steps.
* `EfPaymentService.EnsureAsync`, which no production code calls; `Reversed`, a status no service assigns.
* Amounts of the funding case and of the calculators, journal lines beyond the amounts, audit events other than the
  operator's.
* Authorization, routing, read models, validation of texts, filters of lists that only change what is shown.
* Mobile: the account's editable fields and the list of seen notifications (local to one component), links that arrive while the
  application runs, calls that outlive an unmounted provider.
* Web: the browser's back button in the walkthrough, the pages in front of the panel (one-time code, identity), the
  preview mode of the console, static administration and public pages, conversions of form fields.
