----------------------------- MODULE PanelStorage -----------------------------
(***************************************************************************)
(* The bank, brokerage and organization panels keep what their users enter   *)
(* in the browser's storage, which all tabs of the browser share: added      *)
(* plans and users, the changed role and status of a listed user, the bank's *)
(* own record and the connection to the panel's system. A page reads the     *)
(* storage when it opens and shows that; a handler that saves reads the      *)
(* storage again, writes, and leads to the panel's overview.                 *)
(*                                                                           *)
(* A handler runs to its end before another tab's handler reads the storage. *)
(* "choice" stands for what a form edits: a role, a payer, a text.           *)
(***************************************************************************)
EXTENDS SequencesExt

CONSTANTS Tabs, Newcomers, Managed
\* Every panel lists a few users to begin with.
ASSUME ManagedAssumption == Managed # {}

VARIABLES
  panel,  \* the panel the tabs show
  store,  \* window.localStorage
  tab     \* the page of each tab and its React state

panelVars == <<panel, store, tab>>

Values == {"first", "second"}
Overrides == [choice : Values \cup {"none"}, status : {"none", "active", "inactive"}]
Stores ==
  [users : Seq(Newcomers), plans : Seq(Newcomers),     \* newest first
   overrides : [Managed -> Overrides],                 \* of the listed users
   plan : Values \cup {"none"},                       \* the override of the first plan
   info : Values \cup {"none"},                       \* the bank's record
   api : {"none", "connected", "disconnected"}]
EmptyStore ==
  [users |-> <<>>, plans |-> <<>>,
   overrides |-> [u \in Managed |-> [choice |-> "none", status |-> "none"]],
   plan |-> "none", info |-> "none", api |-> "none"]

BankPages == {"plans", "plan-new", "plan-1", "settings", "user-new", "api"}
BrokeragePages == {"settings", "user-new", "user", "deactivate", "api"}
OrganizationPages == {"users", "user-new", "user", "api"}
TabStates ==
  [page : {"closed"} \cup BankPages \cup BrokeragePages \cup OrganizationPages,
   who : Managed, choice : Values, status : {"active", "inactive"},
   listed : Seq(Newcomers), inactive : SUBSET Managed]
AnyManaged == CHOOSE u \in Managed : TRUE
Closed ==
  [page |-> "closed", who |-> AnyManaged, choice |-> "first", status |-> "active",
   listed |-> <<>>, inactive |-> {}]

StorageTypeOK ==
  /\ panel \in {"bank", "brokerage", "organization"}
  /\ store \in Stores /\ tab \in [Tabs -> TabStates]
StorageInit ==
  /\ panel \in {"bank", "brokerage", "organization"}
  /\ store = EmptyStore /\ tab = [t \in Tabs |-> Closed]

(***************************************************************************)
(* Reading: what a page shows of the storage when it opens.                  *)
(***************************************************************************)
InactiveUsers(s) == {u \in Managed : s.overrides[u].status = "inactive"}
OrElse(saved, initial) == IF saved = "none" THEN initial ELSE saved

\* The overviews: the bank's plans, its settings, the brokerage's settings, the
\* organization's users.
BankPlansPage(s) == [Closed EXCEPT !.page = "plans", !.listed = s.plans]
BankSettingsPage(s) ==
  [Closed EXCEPT !.page = "settings", !.listed = s.users, !.choice = OrElse(s.info, "first")]
BrokerageSettingsPage(s) ==
  [Closed EXCEPT !.page = "settings", !.listed = s.users, !.inactive = InactiveUsers(s)]
OrganizationUsersOverview(s) ==
  [Closed EXCEPT !.page = "users", !.listed = s.users, !.inactive = InactiveUsers(s)]
\* The overview to which a handler of the panel leads; user and API pages are laid over it.
Overview(s) ==
  CASE panel = "bank" -> BankSettingsPage(s)
    [] panel = "brokerage" -> BrokerageSettingsPage(s)
    [] OTHER -> OrganizationUsersOverview(s)

Shows(t, p) == tab' = [tab EXCEPT ![t] = p] /\ UNCHANGED <<panel, store>>

\* (Of the first plan's override the form restores all but the payer.)
OpenBankPage(t) ==
  /\ panel = "bank"
  /\ \/ Shows(t, BankPlansPage(store)) \/ Shows(t, BankSettingsPage(store))
     \/ Shows(t, [BankPlansPage(store) EXCEPT !.page = "plan-new"])
     \/ Shows(t, [BankPlansPage(store) EXCEPT !.page = "plan-1"])
     \/ \E p \in {"user-new", "api"} : Shows(t, [BankSettingsPage(store) EXCEPT !.page = p])
OpenPanelPage(t) ==
  /\ panel # "bank"
  /\ \E p \in {Overview(store).page, "user-new", "api"} :
       Shows(t, [Overview(store) EXCEPT !.page = p])
\* The form of a listed user starts from the saved override.
OpenManageUserForm(t) ==
  /\ panel # "bank"
  /\ \E u \in Managed, initial \in Values :
       Shows(t, [Overview(store) EXCEPT !.page = "user", !.who = u,
                 !.choice = OrElse(store.overrides[u].choice, initial),
                 !.status = OrElse(store.overrides[u].status, "active")])
OpenDeactivate(t) ==
  /\ panel = "brokerage" /\ tab[t].page = "user" /\ tab[t].status = "active"
  /\ Shows(t, [BrokerageSettingsPage(store) EXCEPT !.page = "deactivate", !.who = tab[t].who])

\* The brokerage's overview listens to what the other tabs write.
StorageEvent(t) ==
  /\ panel = "brokerage" /\ tab[t].page # "closed"
  /\ Shows(t, [tab[t] EXCEPT !.listed = store.users, !.inactive = InactiveUsers(store)])

EditForm(t) ==
  /\ \/ tab[t].page \in {"user", "plan-1"}
     \/ panel = "bank" /\ tab[t].page = "settings"
  /\ \E c \in Values : Shows(t, [tab[t] EXCEPT !.choice = c])
\* Only the organization's form edits the status as well.
EditStatus(t) ==
  /\ panel = "organization" /\ tab[t].page = "user"
  /\ \E s \in {"active", "inactive"} : Shows(t, [tab[t] EXCEPT !.status = s])

(***************************************************************************)
(* Saving.                                                                   *)
(***************************************************************************)
Saves(t, s, next) == store' = s /\ tab' = [tab EXCEPT ![t] = next] /\ UNCHANGED panel
Unused(n) == n \notin ToSet(store.users) \cup ToSet(store.plans)

\* A plausible bug: the list the page has shown is written back.
AddsToTheShownList(t) ==
  /\ tab[t].page = "user-new"
  /\ \E n \in Newcomers :
       LET s == [store EXCEPT !.users = <<n>> \o tab[t].listed]
       IN Unused(n) /\ Saves(t, s, Overview(s))
AddsUser(t) ==
  /\ tab[t].page = "user-new"
  /\ \E n \in Newcomers :
       LET s == [store EXCEPT !.users = <<n>> \o @]
       IN Unused(n) /\ Saves(t, s, Overview(s))
BankAddsUser(t) == panel = "bank" /\ AddsUser(t)
BrokerageAddsUser(t) == panel = "brokerage" /\ AddsUser(t)
OrganizationAddsUser(t) == panel = "organization" /\ AddsUser(t)

SavePlan(t) ==
  /\ tab[t].page = "plan-new"
  /\ \E n \in Newcomers :
       LET s == [store EXCEPT !.plans = <<n>> \o @]
       IN Unused(n) /\ Saves(t, s, BankPlansPage(s))
SaveExistingPlan(t) ==
  /\ tab[t].page = "plan-1"
  /\ LET s == [store EXCEPT !.plan = tab[t].choice] IN Saves(t, s, BankPlansPage(s))
SaveBankInfo(t) ==
  /\ panel = "bank" /\ tab[t].page = "settings"
  /\ Saves(t, [store EXCEPT !.info = tab[t].choice], tab[t])

\* A user's form saves role and status together, the status as the form knows it.
SaveUser(t) ==
  /\ tab[t].page = "user"
  /\ LET s == [store EXCEPT !.overrides[tab[t].who] =
                 [choice |-> tab[t].choice, status |-> tab[t].status]]
     IN Saves(t, s, Overview(s))
BrokerageSavesUser(t) == panel = "brokerage" /\ SaveUser(t)
OrganizationSavesUser(t) == panel = "organization" /\ SaveUser(t)
Activate(t) ==
  /\ panel = "brokerage" /\ tab[t].page = "user" /\ tab[t].status = "inactive"
  /\ LET s == [store EXCEPT !.overrides[tab[t].who].status = "active"]
     IN Saves(t, s, Overview(s))
Deactivate(t) ==
  /\ tab[t].page = "deactivate"
  /\ LET s == [store EXCEPT !.overrides[tab[t].who].status = "inactive"]
     IN Saves(t, s, Overview(s))

SaveConnection(t) ==
  /\ tab[t].page = "api"
  /\ LET s == [store EXCEPT !.api = "connected"] IN Saves(t, s, Overview(s))
BankSavesConnection(t) == panel = "bank" /\ SaveConnection(t)
BrokerageSavesConnection(t) == panel = "brokerage" /\ SaveConnection(t)
OrganizationConnection(t) ==
  /\ panel = "organization" /\ tab[t].page = "api"
  /\ \E c \in {"connected", "disconnected"} : Saves(t, [store EXCEPT !.api = c], tab[t])

TabStep(t) ==
  \/ OpenBankPage(t) \/ OpenPanelPage(t) \/ OpenManageUserForm(t) \/ OpenDeactivate(t)
  \/ StorageEvent(t) \/ EditForm(t) \/ EditStatus(t)
  \/ BankAddsUser(t) \/ BrokerageAddsUser(t) \/ OrganizationAddsUser(t)
  \/ SavePlan(t) \/ SaveExistingPlan(t) \/ SaveBankInfo(t)
  \/ BrokerageSavesUser(t) \/ OrganizationSavesUser(t) \/ Activate(t) \/ Deactivate(t)
  \/ BankSavesConnection(t) \/ BrokerageSavesConnection(t) \/ OrganizationConnection(t)
StorageStep == \E t \in Tabs : TabStep(t)

\* What a step of a tab may do to the storage.
KeepsWhatWasSaved ==
  /\ IsSuffix(store.users, store'.users) /\ IsSuffix(store.plans, store'.plans)
  /\ \A u \in Managed : store'.overrides[u] # store.overrides[u] =>
       \E t \in Tabs :
         /\ tab[t].who = u /\ tab'[t] # tab[t]
         /\ tab[t].page \in {"user", "deactivate"}
         /\ store'.overrides[u].choice # store.overrides[u].choice =>
              tab[t].page = "user" /\ store'.overrides[u].choice = tab[t].choice

\* Whatever two tabs of a panel have shown meanwhile, nothing that was added disappears,
\* no user's role or status changes but by a form or button opened for that very user,
\* and turning a user off or on keeps the role another tab has saved.
NothingSavedIsLost == [][KeepsWhatWasSaved]_panelVars
===============================================================================
