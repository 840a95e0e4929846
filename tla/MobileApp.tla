------------------------------ MODULE MobileApp ------------------------------
(***************************************************************************)
(* The mobile application: its real screens on the navigator's stack, the    *)
(* effects with which they follow the session (MobileSession) and read the   *)
(* account, the selection of a financing plan, and the parts for which the   *)
(* root layout unmounts the provider of the session: the legal documents and *)
(* the MOCK walkthrough (whose own screens are in MobilePreview).            *)
(*                                                                           *)
(* The navigator is external: replace changes the screen on top, push adds   *)
(* one, back removes it, and screens underneath stay mounted with their      *)
(* state. An entry of the stack keeps the account data its screen has read,  *)
(* the plans it offers, the plan its route names, and its consent box.       *)
(***************************************************************************)
EXTENDS MobileSession, Sequences

CONSTANTS
  Applicants, \* everybody with an application, on this device or not
  Plans,      \* financing plans
  Offered,    \* bound: the screens the buttons of this instance open
  Linked,     \* bound: the screens that links from outside open
  MaxDepth,   \* bound: screens on the stack
  MaxCalls    \* bound: calls under way

NoPlan == "no plan"
Statuses == {"PlanSelectionPending", "PropertyContractPending", "ApprovedFunded", "Rejected"}

ASSUME MobileAssumption ==
  /\ MaxDepth \in Nat \ {0} /\ Slots = 1 .. MaxDepth
  /\ NoPlan \notin Plans
  /\ Users \subseteq Applicants /\ MaxCalls \in Nat
  /\ Payloads = [owner : Applicants, plan : Plans \cup {NoPlan}]

VARIABLES
  area,         \* "off", "real", "legal", "preview" or "crashed"
  stack,        \* the real screens, the one on top last
  application,  \* the backend: each applicant's latest credit application
  signedOut     \* history: the person signed out and has not signed in since

appVars == <<area, stack, application, signedOut>>
vars == <<sessionVars, appVars>>

Hooked == {"plans", "approved", "underReview", "rejected", "contracts", "payments",
           "profile", "owner"}
Guarded == Hooked \cup {"home", "confirm", "legacy"}
Readers == Hooked \cup {"home"}
Screens == Guarded \cup {"login", "signOut"}

ASSUME LinkAssumption == Linked \subseteq Screens

Account == [user : Users, status : Statuses]
ScreenState == [screen : Screens, data : Account \cup {Nothing}, offer : SUBSET Plans,
           ask : Payloads \cup {Nothing}, ok : BOOLEAN]

MobileTypeOK ==
  /\ SessionTypeOK
  /\ area \in {"off", "real", "legal", "preview", "crashed"}
  /\ stack \in Seq(ScreenState) /\ Len(stack) <= MaxDepth
  /\ application \in [Applicants -> [status : Statuses, plan : Plans \cup {NoPlan}]]
  /\ signedOut \in BOOLEAN

Top == Len(stack)
On(s) == area = "real" /\ stack[Top].screen = s
Asking(s, ask) == [screen |-> s, data |-> Nothing, offer |-> {}, ask |-> ask, ok |-> FALSE]
Fresh(s) == Asking(s, Nothing)

(* Navigation                                                                *)
StaysInSession == UNCHANGED <<context, restoring, prompting, device>>
StaysReal == UNCHANGED <<area, application, signedOut>>

\* A screen that leaves the stack takes its effects with it.
ReplaceTop(e, cs) ==
  /\ stack' = [stack EXCEPT ![Top] = e]
  /\ dirty' = dirty \cup {Top}
  /\ calls' = Orphaned(cs, {Top})

Push(e) ==
  /\ Top < MaxDepth /\ e.screen \in Offered
  /\ stack' = Append(stack, e)
  /\ dirty' = dirty \cup {Top + 1}
  /\ UNCHANGED calls

Replaces(ss) == (\E s \in ss \cap Offered : ReplaceTop(Fresh(s), calls)) /\ StaysInSession /\ StaysReal
Pushes(es) == (\E e \in es : Push(e)) /\ StaysInSession /\ StaysReal

\* AppHeader, the cancel button of sign-out, and the hardware key.
GoesBack ==
  /\ area = "real" /\ Top > 1
  /\ stack' = SubSeq(stack, 1, Top - 1)
  /\ dirty' = dirty \ {Top}
  /\ calls' = Orphaned(calls, {Top})
  /\ StaysInSession /\ StaysReal

\* Back from a part of the application without a session: the provider and
\* every screen of the stack mount anew.
Remounts(es) ==
  /\ area' = "real" /\ stack' = es
  /\ Mounts

(* Effects                                                                    *)
\* A plausible bug: the effects have no cleanup.
NotCleanedUp(cs, slots) == cs
\* A cleaned up effect no longer listens; a button's call is not an effect.
CleanedUp(cs, slots) ==
  {IF c.goal \in {"select", "signOut"} THEN c
   ELSE [c EXCEPT !.by = IF @ \in slots THEN Nobody ELSE @] : c \in cs}

\* The list of plans is for an application that waits for one.
Selectable(e) == e.data # Nothing /\ e.data.status = "PlanSelectionPending"

ListCall(i, owner) == ApiCall(i, "plans", [owner |-> owner, plan |-> NoPlan])

Starts(i) ==
  LET e == stack[i] IN
  (IF e.screen \in Readers THEN {ApiCall(i, "activate", Nothing)} ELSE {})
  \cup (IF e.screen = "confirm" /\ e.ask # Nothing THEN {ListCall(i, e.ask.owner)} ELSE {})
  \cup (IF e.screen = "plans" /\ Selectable(e) THEN {ListCall(i, e.data.user)} ELSE {})

ListKept(e) == e.screen = "plans" => status = "authenticated" /\ Selectable(e)

\* A plausible bug: the bootstrap hook keeps the account.
SettledWithItsData(e) == [e EXCEPT !.offer = IF ListKept(e) THEN @ ELSE {}]
\* What the effects leave of an entry: the bootstrap hook forgets the account
\* once the session is gone, and the plans screen its list once the session or
\* the application does not allow one; the home screen forgets nothing.
Settled(e) ==
  [e EXCEPT !.data = IF e.screen \in Hooked /\ SignedOut THEN Nothing ELSE @,
            !.offer = IF ListKept(e) THEN @ ELSE {}]

Redirect ==
  IF SignedOut /\ \E i \in dirty \cap 1 .. Top : stack[i].screen \in Guarded THEN "login"
  ELSE IF status = "authenticated" /\ \E i \in dirty \cap 1 .. Top : stack[i].screen = "login"
    THEN "home"
  ELSE "none"

EffectsRun ==
  /\ area = "real" /\ dirty \cap 1 .. Top # {}
  /\ LET seen == [i \in 1 .. Top |-> IF i \in dirty THEN Settled(stack[i]) ELSE stack[i]]
         started == IF status = "authenticated"
                      THEN UNION {Starts(i) : i \in dirty \cap 1 .. Top} ELSE {}
         running == CleanedUp(calls, dirty) \cup started IN
     /\ Cardinality(running) <= MaxCalls
     /\ IF Redirect = "none"
       THEN stack' = seen /\ dirty' = {} /\ calls' = running
       ELSE /\ stack' = [seen EXCEPT ![Top] = Fresh(Redirect)]
            /\ dirty' = {Top}
            /\ calls' = Orphaned(running, {Top})
  /\ StaysInSession /\ StaysReal

(* Answers of the backend                                                        *)
Offering(e, plans) == [e EXCEPT !.offer = plans]

\* The account is there; the same closure goes on to read the bootstrap.
Activated(c) ==
  /\ c.phase = "fetch" /\ c.goal = "activate"
  /\ Becomes(c, {FreshAccess([c EXCEPT !.goal = "read"])})
  /\ UNCHANGED <<context, dirty, restoring, prompting, device, appVars>>

\* A plausible bug: the plans screen keeps its list beside the new account.
InformedWithItsList(e, data, refetch) == [e EXCEPT !.data = data]
\* A screen with the account just read; the effect of the plans screen follows it.
Informed(e, data, refetch) ==
  LET read == [e EXCEPT !.data = data] IN
  [read EXCEPT !.offer = IF refetch /\ ~Selectable(read) THEN {} ELSE @]

\* The lists the screen at i has asked for before are not listened to any more.
ListsDropped(cs, i) ==
  {IF x.goal = "plans" THEN [x EXCEPT !.by = IF @ = i THEN Nobody ELSE @] ELSE x : x \in cs}

BootstrapRead(c) ==
  /\ c.phase = "fetch" /\ c.goal = "read"
  /\ IF c.by \notin 1 .. Top
       THEN Becomes(c, {}) /\ UNCHANGED stack
       ELSE LET data == [user |-> c.token.user, status |-> application[c.token.user].status]
                refetch == stack[c.by].screen = "plans" /\ c.by \notin dirty
                next == Informed(stack[c.by], data, refetch) IN
            /\ stack' = [stack EXCEPT ![c.by] = next]
            /\ calls' = IF refetch
                 THEN ListsDropped(calls \ {c}, c.by)
                      \cup (IF Selectable(next) THEN {ListCall(c.by, data.user)} ELSE {})
                 ELSE calls \ {c}
  /\ UNCHANGED <<context, dirty, restoring, prompting, device>> /\ StaysReal

\* The backend lists plans for an application that waits for one; the answer is
\* then under way.
PlansFound(c) ==
  /\ c.phase = "fetch" /\ c.goal = "plans"
  /\ c.about.owner = c.token.user
  /\ application[c.token.user].status = "PlanSelectionPending"
  /\ Becomes(c, {[c EXCEPT !.phase = "answer"]})
  /\ UNCHANGED <<context, dirty, restoring, prompting, device, appVars>>

\* The published plans; which ones these are is the banks' affair.
PlansListed(c) ==
  /\ c.phase = "answer"
  /\ IF c.by \notin 1 .. Top
       THEN UNCHANGED stack
       ELSE \E listed \in SUBSET Plans : stack' = [stack EXCEPT ![c.by] = Offering(@,
              IF @.screen = "confirm" THEN listed \cap {@.ask.plan} ELSE listed)]
  /\ Becomes(c, {})
  /\ UNCHANGED <<context, dirty, restoring, prompting, device>> /\ StaysReal

\* The session's part of every call. A list that cannot be read is taken away.
CallMoves(c) ==
  /\ CallAdvances(c)
  /\ stack' = IF c.goal = "plans" /\ c.by \in 1 .. Top /\ calls' = calls \ {c}
                THEN [stack EXCEPT ![c.by] = Offering(@, {})] ELSE stack
  /\ StaysReal
SessionMoves ==
  \/ SessionStep /\ UNCHANGED stack /\ StaysReal
  \/ \E c \in calls : CallMoves(c)

(* The selection of a plan, in one transaction of the backend                *)
\* A plausible bug: a selection made before is written over.
SelectsAgain(c) ==
  /\ c.phase = "fetch" /\ c.goal = "select" /\ c.about.owner = c.token.user
  /\ application' = [application EXCEPT ![c.token.user] =
       [status |-> "PropertyContractPending", plan |-> c.about.plan]]

\* A plausible bug: the selection gets a status of its own that the clients do not know.
SelectsInPlace(c) ==
  /\ c.phase = "fetch" /\ c.goal = "select" /\ c.about.owner = c.token.user
  /\ application' = [application EXCEPT ![c.token.user] = [status |-> "Selected", plan |-> c.about.plan]]

Selects(c) ==
  /\ c.phase = "fetch" /\ c.goal = "select"
  /\ c.about.owner = c.token.user
  /\ LET mine == application[c.token.user] IN
     IF mine.plan # NoPlan
       THEN mine.plan = c.about.plan /\ UNCHANGED application
       ELSE /\ mine.status = "PlanSelectionPending"
            /\ application' = [application EXCEPT ![c.token.user] =
                 [status |-> "PropertyContractPending", plan |-> c.about.plan]]

\* The answer arrives and leads home, or is lost and the screen shows an error.
\* The handler has no flag: it replaces whatever screen is on top by then.
PlanSelected(c) ==
  /\ Selects(c)
  /\ \/ ReplaceTop(Fresh("home"), calls \ {c})
     \/ Becomes(c, {}) /\ UNCHANGED <<stack, dirty>>
  /\ StaysInSession /\ UNCHANGED <<area, signedOut>>

SignOutFinishes(c) ==
  /\ c.phase = "clear" /\ c.goal = "signOut"
  /\ store' = NoToken /\ signedOut' = TRUE
  /\ status' = "unauthenticated" /\ token' = NoToken /\ dirty' = Slots
  /\ stack' = [stack EXCEPT ![Top] = Fresh("login")]
  /\ calls' = Orphaned(calls \ {c}, {Top})
  /\ UNCHANGED <<discovery, restoring, prompting, area, issued, expired, spent, application>>

(* The screens: what their buttons do                                        *)
Working == \E c \in calls : c.by = Top /\ c.goal \in {"select", "signOut"}
Calls(c) ==
  /\ Cardinality(calls) < MaxCalls
  /\ calls' = calls \cup {c}
  /\ UNCHANGED <<stack, dirty>> /\ StaysInSession /\ StaysReal

StatusScreen(data) ==
  CASE data.status = "PlanSelectionPending" -> "plans"
    [] data.status = "ApprovedFunded" -> "approved"
    [] data.status = "Rejected" -> "rejected"
    [] OTHER -> "underReview"

TenantHomeScreen ==
  /\ On("home")
  /\ \/ Pushes({Fresh(s) : s \in {"contracts", "payments", "profile"}})
     \/ Replaces({"home"})
     \/ /\ stack[Top].data # Nothing
        /\ Pushes({Fresh(StatusScreen(stack[Top].data))})

FinancingPlansScreen ==
  /\ On("plans") /\ stack[Top].data # Nothing
  /\ Pushes({Asking("confirm", [owner |-> stack[Top].data.user, plan |-> p]) :
               p \in stack[Top].offer})

Ticked(e) == [e EXCEPT !.ok = ~@]

PlanConfirmationScreen ==
  /\ On("confirm")
  /\ \/ /\ stack[Top].offer # {}
        /\ stack' = [stack EXCEPT ![Top] = Ticked(@)]
        /\ UNCHANGED <<calls, dirty>> /\ StaysInSession /\ StaysReal
     \/ /\ stack[Top].offer # {} /\ stack[Top].ok /\ ~Working /\ token # NoToken
        /\ Calls(ApiCall(Top, "select", stack[Top].ask))
     \/ Replaces({"plans"})

FinancingUnderReviewScreen == On("underReview") /\ Replaces({"home"})
FinancingNotApprovedScreen == On("rejected") /\ Replaces({"home", "contracts"})
FinancingApprovedScreen == On("approved") /\ Replaces({"home", "contracts"})

ContractsOverviewScreen ==
  On("contracts") /\ stack[Top].data # Nothing /\ Pushes({Fresh("owner")})
OwnerContractsScreen ==
  On("owner") /\ status = "authenticated" /\ Replaces({"contracts", "profile"})

ProfileScreen ==
  /\ On("profile")
  /\ \/ Pushes({Fresh(s) : s \in {"signOut", "contracts", "payments", "home"}})
     \/ Replaces({"profile"})

LegacyTenantRouteUnavailable ==
  On("legacy") /\ status = "authenticated" /\ Replaces({"home", "payments", "contracts"})

SignOutScreen ==
  /\ On("signOut") /\ ~Working
  /\ Calls(NewCall(Top, "signOut", Nothing, "clear"))

\* promptAsync opens once the request is ready.
LoginScreen ==
  /\ On("login") /\ ~prompting
  /\ status \notin {"loading", "config-error"} /\ discovery = "loaded"
  /\ prompting' = TRUE /\ signedOut' = FALSE
  /\ UNCHANGED <<context, restoring, dirty, calls, device, area, stack, application>>

(* Parts without a session. A screen left mounted below has lost its context  *)
(* and throws, if the navigator renders it.                                   *)
OpensPreview ==
  /\ On("login") /\ Unmounts
  /\ area' \in IF Top > 1 THEN {"preview", "crashed"} ELSE {"preview"}
  /\ stack' = <<>>
  /\ UNCHANGED <<device, application, signedOut>>

OpensLegalText ==
  /\ On("login") /\ Unmounts
  /\ area' \in {"legal", "crashed"}
  /\ UNCHANGED <<stack, device, application, signedOut>>

LegalDocumentScreen ==
  /\ area = "legal"
  /\ Remounts(IF stack = <<>> THEN <<Fresh("login")>>
              ELSE [i \in 1 .. Top |-> Asking(stack[i].screen, stack[i].ask)])
  /\ UNCHANGED <<calls, device, application, signedOut>>

EntryPoints ==
  {<<Fresh(s)>> : s \in Linked}
  \cup {<<Asking("confirm", a)>> : a \in {p \in Payloads : p.plan # NoPlan}}

\* A link to a real route, from the walkthrough or from outside.
LeavesPreview ==
  /\ area = "preview" /\ \E es \in EntryPoints : Remounts(es)
  /\ UNCHANGED <<calls, device, application, signedOut>>

(* The process                                                               *)
Launch ==
  /\ area = "off"
  /\ \/ \E es \in EntryPoints : Remounts(es)
     \/ /\ area' \in {"preview", "legal"}
        /\ UNCHANGED <<stack, context, restoring, prompting, dirty>>
  /\ UNCHANGED <<calls, device, application, signedOut>>

Kill ==
  /\ area # "off" /\ area' = "off" /\ stack' = <<>>
  /\ status' = "closed" /\ token' = NoToken /\ discovery' = "pending"
  /\ restoring' = FALSE /\ prompting' = FALSE /\ dirty' = {} /\ calls' = {}
  /\ UNCHANGED <<device, application, signedOut>>

(* Specification                                                             *)
Init ==
  /\ area = "off" /\ stack = <<>> /\ signedOut = FALSE
  /\ status = "closed" /\ token = NoToken /\ discovery = "pending"
  /\ restoring = FALSE /\ prompting = FALSE /\ dirty = {} /\ calls = {}
  /\ \E s \in Statuses, p \in Plans : application = [u \in Applicants |->
        IF u \in Users /\ s # "PlanSelectionPending" THEN [status |-> s, plan |-> p]
        ELSE [status |-> "PlanSelectionPending", plan |-> NoPlan]]
  /\ store \in {NoToken} \cup {t \in Token : t.no = 1}
  /\ issued = IF store = NoToken THEN 0 ELSE 1
  /\ expired \in {{}, {store} \ {NoToken}} /\ spent = {}

Answers ==
  \E c \in calls : \/ Activated(c) \/ BootstrapRead(c) \/ PlansFound(c) \/ PlansListed(c)
                   \/ PlanSelected(c) \/ SignOutFinishes(c)

Presses ==
  \/ TenantHomeScreen \/ FinancingPlansScreen \/ PlanConfirmationScreen
  \/ FinancingUnderReviewScreen \/ FinancingNotApprovedScreen \/ FinancingApprovedScreen
  \/ ContractsOverviewScreen \/ OwnerContractsScreen \/ ProfileScreen
  \/ LegacyTenantRouteUnavailable \/ SignOutScreen \/ LoginScreen \/ GoesBack
  \/ OpensPreview \/ OpensLegalText \/ LegalDocumentScreen \/ LeavesPreview

Next ==
  \/ SessionMoves \/ EffectsRun \/ Answers \/ Presses
  \/ Launch \/ Kill

\* SecureStore and the provider's token endpoint answer or fail in the end.
Fairness ==
  /\ WF_vars(Restores /\ UNCHANGED stack /\ StaysReal)
  /\ WF_vars(\E c \in calls : c.goal = "signIn" /\ CallMoves(c))

Spec == Init /\ [][Next]_vars /\ Fairness

(* Properties                                                                *)
\* Once the effects have run, the plans screen offers plans only beside an
\* application that waits for one: a list never outlasts the application it was
\* read for, in whatever order lists, later readings of the application and
\* changes of the session arrive (the effect of financing-plans.tsx depends on
\* all of them, and its flag drops the lists asked for before).
OffersMatchTheApplication ==
  area = "real" =>
    \A i \in (1 .. Top) \ dirty :
      stack[i].screen = "plans" /\ stack[i].offer # {} => Selectable(stack[i])

\* Once the effects have run, whatever a screen still waits for was asked with
\* the session's present token: an answer to an earlier session, or to a token
\* replaced since, never reaches a screen (effects depend on apiRequest).
CurrentSessionAsks ==
  \A c \in calls :
    c.by \in Slots \ dirty /\ c.goal \notin {"select", "signOut"} =>
      status = "authenticated" /\ c.token = token

\* Once the session is gone and the effects have run, no screen that reads the
\* account through useMobileBootstrap still holds it, although answers to the
\* session's calls keep arriving. The home screen is not among them.
NothingOfTheAccountRemains ==
  area = "real" /\ SignedOut /\ dirty \cap 1 .. Top = {} =>
    \A i \in 1 .. Top : stack[i].screen \in Hooked => stack[i].data = Nothing

\* A plan is recorded once, for the applicant whose session asked for this very
\* plan, however the confirmation screen was reached: a link may name any
\* application, and an answer may be lost and the request repeated.
PlanRecordedByItsApplicant ==
  [][\A a \in Applicants : application'[a] # application[a] =>
       /\ application[a].plan = NoPlan
       /\ \E c \in calls : /\ c.goal = "select" /\ c.token.user = a
                           /\ c.about = [owner |-> a, plan |-> application'[a].plan]]_vars

\* The login button is disabled while the session loads: loading always ends,
\* whatever restore, sign-in, late refreshes and sign-outs do to each other.
StartupEnds == status = "loading" ~> status # "loading"

\* "Local sign-out clears the device session" (mobile-real-api-oidc-v1.md:38):
\* until the person signs in again SecureStore stays empty.
SignOutLasts == signedOut => store = NoToken
============================================================================
