------------------------------ MODULE PilotQueue ------------------------------
(***************************************************************************)
(* The operator works through a queue of the console, the cases or the       *)
(* payments, page by page. The API lists the newest change first and cuts    *)
(* the list by page number; the list is read anew for every page, and the    *)
(* items keep changing between two pages.                                    *)
(*                                                                           *)
(* A change stamps its item with the time at which its request began, which  *)
(* may be older than the stamps of other items, and older than the item's    *)
(* own when two requests overlapped: the changed item may land anywhere.     *)
(***************************************************************************)
EXTENDS Naturals, FiniteSets

CONSTANTS Items, PageSize
ASSUME PageSizeAssumption == PageSize \in Nat \ {0}

VARIABLES
  queue,    \* which of the two queues the operator looks at
  listed,   \* of every existing item, the items with a newer stamp
  waiting,  \* the items in the status the filter can ask for
  screen,   \* the page in the operator's browser
  walk      \* what happened since the operator last began at the first page

queueVars == <<queue, listed, waiting, screen, walk>>

Existing == DOMAIN listed
Filters == {"", "waiting"}
NotOpened == [at |-> "closed", page |-> 1, filter |-> "", next |-> FALSE]
Begun == [seen |-> {}, touched |-> {}, fellBack |-> FALSE]

QueueTypeOK ==
  /\ queue \in {"cases", "payments"}
  /\ Existing \subseteq Items /\ listed \in [Existing -> SUBSET Existing]
  /\ waiting \subseteq Items
  /\ screen \in [at : {"closed", "shown", "failed"}, page : Nat \ {0}, filter : Filters,
                 next : BOOLEAN]
  /\ walk \in [seen : SUBSET Items, touched : SUBSET Items, fellBack : BOOLEAN]
QueueInit ==
  /\ queue \in {"cases", "payments"}
  /\ listed = [i \in {} |-> {}] /\ waiting = {}
  /\ screen = NotOpened /\ walk = Begun

Matches(i, f, wanted) == f = "waiting" => i \in wanted
Matching(f) == {i \in Existing : Matches(i, f, waiting)}
\* OrderByDescending(stamp).Skip((page - 1) * PageSize).Take(PageSize)
Before(i, items) == Cardinality(listed[i] \cap items)
PageOf(items, p) ==
  {i \in items : (p - 1) * PageSize <= Before(i, items) /\ Before(i, items) < p * PageSize}
\* A plausible bug: a page that is full is taken for the last one.
MoreThanAPage(items) == Cardinality(items) > PageSize
HasNextPage(items) == Cardinality(items) = PageSize

(***************************************************************************)
(* The list changes: an item is created, or changes and takes a new stamp,   *)
(* and then stands behind the newest of the other items, some or none.       *)
(***************************************************************************)
Restamped(i, newer) ==
  [j \in Existing \cup {i} |->
     IF j = i THEN newer
     ELSE IF j \in newer THEN listed[j] \ {i} ELSE listed[j] \cup {i}]
FallsBack(i, newer, wanted) ==
  \/ Matches(i, screen.filter, waiting) /\ ~Matches(i, screen.filter, wanted)
  \/ \E j \in newer : i \in listed[j]
ItemChanges(i) ==
  \E newer \in SUBSET (Existing \ {i}), wanted \in {waiting \cup {i}, waiting \ {i}} :
    /\ \A j \in newer : listed[j] \subseteq newer \cup {i}
    /\ listed' = Restamped(i, newer) /\ waiting' = wanted
    /\ walk' = [walk EXCEPT !.touched = @ \cup {i},
                            !.fellBack = @ \/ FallsBack(i, newer, wanted)]
    /\ UNCHANGED <<queue, screen>>

(***************************************************************************)
(* The operator's pages. Each is read from the list as it is then.           *)
(***************************************************************************)
ShowsItems(p, f, before) ==
  LET items == PageOf(Matching(f), p) IN
  /\ screen' = [at |-> "shown", page |-> p, filter |-> f, next |-> HasNextPage(items)]
  /\ walk' = [before EXCEPT !.seen = @ \cup items]
ShowsFailure(p, f, before) ==
  /\ screen' = [at |-> "failed", page |-> p, filter |-> f, next |-> FALSE]
  /\ walk' = before
CasesPage(p, f, before) ==
  queue = "cases" /\ (ShowsItems(p, f, before) \/ ShowsFailure(p, f, before))
PaymentsPage(p, f, before) ==
  queue = "payments" /\ (ShowsItems(p, f, before) \/ ShowsFailure(p, f, before))
Follows(p, f, before) ==
  /\ CasesPage(p, f, before) \/ PaymentsPage(p, f, before)
  /\ UNCHANGED <<queue, listed, waiting>>

\* A filter's link leads to the first page, where a new walk begins.
OpenFirstPage(f) == Follows(1, f, Begun)
NextPage ==
  screen.at = "shown" /\ screen.next /\ Follows(screen.page + 1, screen.filter, walk)
PreviousPage ==
  screen.at = "shown" /\ screen.page > 1 /\ Follows(screen.page - 1, screen.filter, walk)
ReloadPage == screen.at # "closed" /\ Follows(screen.page, screen.filter, walk)

QueueStep ==
  \/ \E i \in Items : ItemChanges(i)
  \/ \E f \in Filters : OpenFirstPage(f)
  \/ NextPage \/ PreviousPage \/ ReloadPage

\* An operator who follows the pages to the last one has seen every matching item that
\* was left alone meanwhile, whatever else was changed and wherever it was moved to by
\* its stamp, unless some change took an item of the list away or moved it back.
NothingUntouchedIsMissed ==
  screen.at = "shown" /\ ~screen.next =>
    \/ walk.fellBack
    \/ Matching(screen.filter) \ walk.touched \subseteq walk.seen
===============================================================================
