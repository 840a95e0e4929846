--------------------------- MODULE MobileAppProofs ---------------------------
(***************************************************************************)
(* What holds of the mobile application whatever the people, plans, tokens,  *)
(* links and the depth of the stack: an effect's answer reaches a screen only *)
(* under the session it was asked in, a list of plans never outlasts the      *)
(* application it was read for, nothing of the account remains after the      *)
(* session, and a plan is recorded for its applicant.                         *)
(*                                                                           *)
(* A step of the session is described once (SessionKeeps: what it may do to  *)
(* the calls and the context, the screens being what they are), and so is    *)
(* each way in which the stack changes.                                      *)
(***************************************************************************)
EXTENDS MobileApp, SequenceTheorems, TLAPS

-----------------------------------------------------------------------------
(* The inductive invariant. *)

\* A call whose phase and goal belong together, with the token it needs.
WellFormed(c) ==
  /\ c \in Call
  /\ c.phase = "exchange" => c.goal = "signIn"
  /\ c.phase = "answer" => c.goal = "plans"
  /\ c.goal = "signIn" => c.phase \in {"exchange", "save"} /\ c.by \notin Slots
  /\ c.goal = "signOut" => c.phase = "clear"
  /\ c.phase = "save" => c.new \in Token
  /\ c.goal \notin {"signIn", "signOut"} => c.token \in Token
  /\ c.goal \in {"plans", "select"} => c.about \in Payloads

\* The provider is mounted exactly while real screens are, and calls need it.
AreaInv ==
  /\ area = "real" <=> status # "closed"
  /\ area = "real" => stack # <<>>
  /\ area # "real" => calls = {} /\ ~restoring /\ ~prompting
  /\ status = "authenticated" => token # NoToken

\* A confirmation offers its plan only if its route names one, and the plans
\* screen its list only beside an application that waits for one.
OffersInv ==
  /\ \A i \in 1 .. Top :
       stack[i].screen = "confirm" /\ stack[i].offer # {} => stack[i].ask # Nothing
  /\ OffersMatchTheApplication

\* A call that is listened to is asked by the screen it was made for.
MountedCall(c) ==
  c.by \in Slots =>
    /\ c.by <= Top
    /\ c.goal = "select" => stack[c.by].screen = "confirm" /\ stack[c.by].ask = c.about
    /\ c.goal = "signOut" => stack[c.by].screen = "signOut"
    /\ c.goal = "plans" => \/ stack[c.by].screen = "plans"
                           \/ stack[c.by].screen = "confirm" /\ stack[c.by].ask # Nothing
    /\ c.goal \notin {"select", "signOut", "plans"} => stack[c.by].screen \in Readers

\* A call of an effect that need not run again is one of the present session,
\* and the plans screen asks for its list on account of what it shows.
PresentCall(c) ==
  c.by \in Slots \ dirty /\ c.goal \notin {"select", "signOut"} =>
    /\ status = "authenticated" /\ c.token = token
    /\ c.goal = "plans" /\ stack[c.by].screen = "plans" => Selectable(stack[c.by])

\* A screen whose effects need not run again has forgotten the account.
Forgotten ==
  area = "real" /\ SignedOut =>
    \A i \in (1 .. Top) \ dirty : stack[i].screen \in Hooked => stack[i].data = Nothing

CallsInv == \A c \in calls : WellFormed(c) /\ MountedCall(c) /\ PresentCall(c)
ScreensInv == OffersInv /\ Forgotten
MobileInv == MobileTypeOK /\ AreaInv /\ CallsInv /\ ScreensInv

\* The invariant is what the properties of the runs say, and more.
LEMMA InvariantSuffices ==
  ASSUME MobileInv
  PROVE  OffersMatchTheApplication /\ CurrentSessionAsks /\ NothingOfTheAccountRemains
<1>1. OffersMatchTheApplication
  BY DEF MobileInv, ScreensInv, OffersInv
<1>2. CurrentSessionAsks
  BY DEF MobileInv, CallsInv, PresentCall, CurrentSessionAsks
<1>3. NothingOfTheAccountRemains
  BY DEF MobileInv, ScreensInv, Forgotten, NothingOfTheAccountRemains
<1> QED
  BY <1>1, <1>2, <1>3

-----------------------------------------------------------------------------
(* Calls. *)

\* No slot of the stack stands for nobody or for the provider.
LEMMA NobodyIsNoSlot == Nobody \notin Slots /\ TheProvider \notin Slots
  BY SessionAssumption DEF Nobody, TheProvider

\* A token is told from the lack of one by its number.
LEMMA NoTokenIsNone == NoToken \notin Token
  BY SessionAssumption DEF NoToken, Token

\* The parts of a call.
LEMMA CallParts ==
  ASSUME NEW c \in Call
  PROVE  /\ c.by \in Slots \cup {Nobody, TheProvider}
         /\ c.token \in Token \cup {NoToken} /\ c.new \in Token \cup {NoToken}
         /\ c.about \in Payloads \cup {Nothing}
         /\ c.goal \in {"activate", "read", "plans", "select", "signIn", "signOut"}
         /\ c.phase \in {"fetch", "answer", "refresh", "exchange", "save", "clear"}
  BY DEF Call

\* A call that is no longer listened to.
LEMMA CallOfNobody ==
  ASSUME NEW c \in Call
  PROVE  LET x == [c EXCEPT !.by = Nobody] IN
         /\ x \in Call
         /\ x.by = Nobody /\ x.goal = c.goal /\ x.about = c.about /\ x.phase = c.phase
         /\ x.token = c.token /\ x.new = c.new
  BY DEF Call

\* A call that goes on in another phase with another answer.
LEMMA CallWithAnswer ==
  ASSUME NEW c \in Call, NEW p \in {"fetch", "answer", "refresh", "exchange", "save", "clear"},
         NEW t \in Token \cup {NoToken}
  PROVE  LET x == [c EXCEPT !.phase = p, !.new = t] IN
         /\ x \in Call
         /\ x.by = c.by /\ x.goal = c.goal /\ x.about = c.about /\ x.phase = p
         /\ x.token = c.token /\ x.new = t
  BY DEF Call

\* The call x continues the call c.
Inherits(x, c) ==
  x.by = c.by /\ x.goal = c.goal /\ x.about = c.about /\ x.token = c.token

\* Asking for a fresh access token does not change what a call is about.
LEMMA FreshAccessContinues ==
  ASSUME NEW c \in Call, c.goal \notin {"signIn", "signOut"}, c.token \in Token,
         c.goal \in {"plans", "select"} => c.about \in Payloads
  PROVE  WellFormed(FreshAccess(c)) /\ Inherits(FreshAccess(c), c)
<1>1. PICK p \in {"fetch", "refresh", "clear"} : FreshAccess(c) = [c EXCEPT !.phase = p]
  BY DEF FreshAccess
<1> DEFINE x == [c EXCEPT !.phase = p]
<1>2. /\ x \in Call
      /\ x.by = c.by /\ x.goal = c.goal /\ x.about = c.about /\ x.phase = p
      /\ x.token = c.token
  BY DEF Call
<1> HIDE DEF x
<1>3. WellFormed(x) /\ Inherits(x, c)
  BY <1>2 DEF WellFormed, Inherits
<1> QED
  BY <1>1, <1>3 DEF x

\* A new call of a screen of the present session.
LEMMA NewCallAsked ==
  ASSUME NEW i \in Slots, NEW g \in {"activate", "plans", "select"},
         NEW a \in Payloads \cup {Nothing}, g # "activate" => a \in Payloads,
         token \in Token
  PROVE  LET x == ApiCall(i, g, a) IN
         /\ WellFormed(x)
         /\ x.by = i /\ x.goal = g /\ x.about = a /\ x.token = token
<1> DEFINE n == NewCall(i, g, a, "fetch")
<1>1. /\ n \in Call
      /\ n.by = i /\ n.goal = g /\ n.about = a /\ n.token = token
  BY DEF NewCall, Call
<1> HIDE DEF n
<1>2. WellFormed(FreshAccess(n)) /\ Inherits(FreshAccess(n), n)
  BY <1>1, FreshAccessContinues
<1> QED
  BY <1>1, <1>2 DEF Inherits, ApiCall, n

\* A call whose caller has gone.
LEMMA Orphans ==
  ASSUME NEW cs, \A c \in cs : WellFormed(c), NEW gone, NEW x \in Orphaned(cs, gone)
  PROVE  /\ WellFormed(x)
         /\ \/ x \in cs /\ x.by \notin gone
            \/ x.by = Nobody
<1>1. PICK c \in cs : x = [c EXCEPT !.by = IF @ \in gone THEN Nobody ELSE @]
  BY DEF Orphaned
<1>2. c \in Call
  BY DEF WellFormed
<1>3. CASE c.by \in gone
  <2>1. x = [c EXCEPT !.by = Nobody]
    BY <1>1, <1>2, <1>3 DEF Call
  <2> QED
    BY <2>1, <1>2, CallOfNobody, NobodyIsNoSlot DEF WellFormed
<1>4. CASE c.by \notin gone
  <2>1. x = c
    BY <1>1, <1>2, <1>4 DEF Call
  <2> QED
    BY <2>1, <1>4
<1> QED
  BY <1>3, <1>4

-----------------------------------------------------------------------------
(* The steps of the session. *)

\* What the session's state is, apart from its calls.
SessionShape ==
  /\ SessionTypeOK
  /\ status = "authenticated" => token # NoToken

\* What a step of the session may do: its calls continue the calls under way,
\* and with another context every effect runs again.
SessionKeeps ==
  /\ SessionShape'
  /\ IF status = "closed" THEN UNCHANGED <<status, restoring, prompting, calls>>
                           ELSE status' # "closed"
  /\ \/ dirty' = Slots
     \/ UNCHANGED <<status, token, dirty>>
  /\ \A x \in calls' : /\ WellFormed(x)
                       /\ x.by \in Slots => \E c \in calls : Inherits(x, c)

\* An update of the context.
LEMMA ContextUpdates ==
  ASSUME SessionShape,
         NEW s \in {"loading", "authenticated", "unauthenticated", "config-error"},
         NEW t \in Token \cup {NoToken}, s = "authenticated" => t # NoToken,
         NEW d \in {"pending", "loaded", "failed", "unconfigured"},
         SetContext(s, t, d)
  PROVE  /\ status' = s /\ token' = t /\ discovery' = d
         /\ dirty' \subseteq Slots
         /\ dirty' = Slots \/ UNCHANGED <<status, token, dirty>>
  BY DEF SetContext, SessionShape, SessionTypeOK, context

\* A call takes its next step with nothing else of the session changing but
\* what the context and the device make of it.
LEMMA CallBecomes ==
  ASSUME NEW c \in calls, \A k \in calls : WellFormed(k), NEW next, Becomes(c, next),
         \A x \in next : WellFormed(x) /\ Inherits(x, c)
  PROVE  /\ calls' \subseteq Call
         /\ \A x \in calls' : /\ WellFormed(x)
                              /\ x.by \in Slots => \E k \in calls : Inherits(x, k)
<1>1. \A x \in calls' : x \in calls \/ x \in next
  BY DEF Becomes
<1>2. \A x \in calls' : WellFormed(x)
  BY <1>1
<1>3. \A x \in calls' : \E k \in calls : Inherits(x, k)
  BY <1>1 DEF Inherits
<1> QED
  BY <1>2, <1>3 DEF WellFormed

\* A call that waits for SecureStore, once it is told what to store.
LEMMA CallStores ==
  ASSUME NEW c, WellFormed(c), c.goal # "signOut", NEW t \in Token
  PROVE  WellFormed(Storing(c, t)) /\ Inherits(Storing(c, t), c)
<1> DEFINE x == Storing(c, t)
<1>1. /\ x \in Call
      /\ x.by = c.by /\ x.goal = c.goal /\ x.about = c.about /\ x.phase = "save"
      /\ x.token = c.token /\ x.new = t
  BY DEF Call, WellFormed, Storing
<1> HIDE DEF x
<1>2. WellFormed(x) /\ Inherits(x, c)
  BY <1>1 DEF WellFormed, Inherits
<1> QED
  BY <1>2 DEF x

\* A call that clears the session.
LEMMA CallClears ==
  ASSUME NEW c, WellFormed(c), c.goal # "signIn"
  PROVE  WellFormed(Clearing(c)) /\ Inherits(Clearing(c), c)
<1> DEFINE x == Clearing(c)
<1>1. /\ x \in Call
      /\ x.by = c.by /\ x.goal = c.goal /\ x.about = c.about /\ x.phase = "clear"
      /\ x.token = c.token /\ x.new = NoToken
  BY DEF Call, WellFormed, Clearing
<1> HIDE DEF x
<1>2. WellFormed(x) /\ Inherits(x, c)
  BY <1>1 DEF WellFormed, Inherits
<1> QED
  BY <1>2 DEF x

\* A call that fetches after its token is stored.
LEMMA CallFetches ==
  ASSUME NEW c, WellFormed(c), c.goal \notin {"signIn", "signOut"}
  PROVE  WellFormed(Fetching(c)) /\ Inherits(Fetching(c), c)
<1> DEFINE x == Fetching(c)
<1>1. /\ x \in Call
      /\ x.by = c.by /\ x.goal = c.goal /\ x.about = c.about /\ x.phase = "fetch"
      /\ x.token = c.token /\ x.new = NoToken
  BY DEF Call, WellFormed, Fetching
<1> HIDE DEF x
<1>2. WellFormed(x) /\ Inherits(x, c)
  BY <1>1 DEF WellFormed, Inherits
<1> QED
  BY <1>2 DEF x

\* A step of a call of the session.
LEMMA CallAdvancesKeeps ==
  ASSUME SessionShape, status # "closed", \A k \in calls : WellFormed(k),
         NEW c \in calls, CallAdvances(c)
  PROVE  SessionKeeps
<1> USE NoTokenIsNone DEF SessionShape, SessionTypeOK
<1>1. WellFormed(c) /\ c \in Call
  BY DEF WellFormed
<1>2. CASE ExchangeAnswered(c)
  <2>1. PICK u \in Users : \E t \in NewTokens(u) : Becomes(c, {Storing(c, t)})
    BY <1>2 DEF ExchangeAnswered
  <2>2. PICK t \in NewTokens(u) : Becomes(c, {Storing(c, t)})
    BY <2>1
  <2>3. t \in Token /\ c.goal = "signIn"
    BY <1>1, <1>2 DEF NewTokens, ExchangeAnswered, WellFormed
  <2>4. /\ calls' \subseteq Call
        /\ \A x \in calls' : /\ WellFormed(x)
                             /\ x.by \in Slots => \E k \in calls : Inherits(x, k)
    BY <1>1, <2>2, <2>3, CallStores, CallBecomes
  <2>5. SessionTypeOK' /\ UNCHANGED <<status, token, dirty>>
    BY <1>2, <2>4, SessionAssumption DEF ExchangeAnswered, context
  <2> QED
    BY <2>4, <2>5 DEF SessionKeeps
<1>3. CASE ExchangeRefused(c)
  <2>1. /\ calls' \subseteq Call
        /\ \A x \in calls' : /\ WellFormed(x)
                             /\ x.by \in Slots => \E k \in calls : Inherits(x, k)
    BY <1>3, CallBecomes DEF ExchangeRefused
  <2>2. /\ status' = "unauthenticated" /\ token' = token /\ discovery' = discovery
        /\ dirty' \subseteq Slots
        /\ dirty' = Slots \/ UNCHANGED <<status, token, dirty>>
    BY <1>3, ContextUpdates DEF ExchangeRefused
  <2> QED
    BY <1>3, <2>1, <2>2 DEF SessionKeeps, ExchangeRefused, device
<1>4. CASE RefreshAnswered(c)
  <2>0. PICK t \in NewTokens(c.token.user) : t.refresh /\ Becomes(c, {Storing(c, t)})
    BY <1>4 DEF RefreshAnswered
  <2>1. /\ calls' \subseteq Call
        /\ \A x \in calls' : /\ WellFormed(x)
                             /\ x.by \in Slots => \E k \in calls : Inherits(x, k)
    BY <1>1, <1>4, <2>0, CallStores, CallBecomes DEF NewTokens, RefreshAnswered, WellFormed
  <2>2. c.token \in Token
    BY <1>1, <1>4 DEF WellFormed, RefreshAnswered
  <2>3. SessionTypeOK' /\ UNCHANGED <<status, token, dirty>>
    BY <1>4, <2>1, <2>2, SessionAssumption DEF RefreshAnswered, context
  <2> QED
    BY <2>1, <2>3 DEF SessionKeeps
<1>5. CASE RefreshRefused(c) \/ FetchUnauthorized(c)
  <2>0. Becomes(c, {Clearing(c)}) /\ c.goal # "signIn"
    BY <1>1, <1>5 DEF RefreshRefused, FetchUnauthorized, WellFormed
  <2>1. /\ calls' \subseteq Call
        /\ \A x \in calls' : /\ WellFormed(x)
                             /\ x.by \in Slots => \E k \in calls : Inherits(x, k)
    BY <1>1, <2>0, CallClears, CallBecomes
  <2> QED
    BY <1>5, <2>1 DEF SessionKeeps, RefreshRefused, FetchUnauthorized, context, device
<1>6. CASE SaveFinishes(c)
  <2>0. c.new \in Token
    BY <1>1, <1>6 DEF WellFormed, SaveFinishes
  <2>1. /\ calls' \subseteq Call
        /\ \A x \in calls' : /\ WellFormed(x)
                             /\ x.by \in Slots => \E k \in calls : Inherits(x, k)
    <3>1. CASE c.goal = "signIn"
      BY <1>6, <3>1, CallBecomes DEF SaveFinishes
    <3>2. CASE c.goal # "signIn"
      <4>1. c.goal # "signOut" /\ Becomes(c, {Fetching(c)})
        BY <1>1, <1>6, <3>2 DEF WellFormed, SaveFinishes
      <4> QED
        BY <1>1, <3>2, <4>1, CallFetches, CallBecomes
    <3> QED
      BY <3>1, <3>2
  <2>2. /\ status' = "authenticated" /\ token' = c.new /\ discovery' = discovery
        /\ dirty' \subseteq Slots
        /\ dirty' = Slots \/ UNCHANGED <<status, token, dirty>>
    BY <1>6, <2>0, ContextUpdates DEF SaveFinishes
  <2> QED
    BY <1>6, <2>0, <2>1, <2>2 DEF SessionKeeps, SaveFinishes
<1>7. CASE SaveFails(c)
  <2>1. /\ calls' \subseteq Call
        /\ \A x \in calls' : /\ WellFormed(x)
                             /\ x.by \in Slots => \E k \in calls : Inherits(x, k)
    <3>1. CASE c.goal = "signIn"
      BY <1>7, <3>1, CallBecomes DEF SaveFails
    <3>2. CASE c.goal # "signIn"
      BY <1>1, <1>7, <3>2, CallClears, CallBecomes DEF SaveFails
    <3> QED
      BY <3>1, <3>2
  <2>2. KeepContext \/ SetContext("unauthenticated", token, discovery)
    BY <1>7 DEF SaveFails
  <2>3. /\ status' \in {status, "unauthenticated"} /\ token' = token /\ discovery' = discovery
        /\ dirty' \subseteq Slots
        /\ dirty' = Slots \/ UNCHANGED <<status, token, dirty>>
    BY <2>2, ContextUpdates DEF KeepContext, context
  <2> QED
    BY <1>7, <2>1, <2>3 DEF SessionKeeps, SaveFails, device
<1>8. CASE SessionEnds(c)
  <2>1. /\ calls' \subseteq Call
        /\ \A x \in calls' : /\ WellFormed(x)
                             /\ x.by \in Slots => \E k \in calls : Inherits(x, k)
    BY <1>8, CallBecomes DEF SessionEnds
  <2>2. /\ status' = "unauthenticated" /\ token' = NoToken /\ discovery' = discovery
        /\ dirty' \subseteq Slots
        /\ dirty' = Slots \/ UNCHANGED <<status, token, dirty>>
    BY <1>8, ContextUpdates DEF SessionEnds, Clears
  <2> QED
    BY <1>8, <2>1, <2>2 DEF SessionKeeps, SessionEnds, Clears
<1>9. CASE ClearFails(c) \/ FetchFails(c)
  <2>1. /\ calls' \subseteq Call
        /\ \A x \in calls' : /\ WellFormed(x)
                             /\ x.by \in Slots => \E k \in calls : Inherits(x, k)
    BY <1>9, CallBecomes DEF ClearFails, FetchFails
  <2> QED
    BY <1>9, <2>1 DEF SessionKeeps, ClearFails, FetchFails, context, device
<1> QED
  BY <1>2, <1>3, <1>4, <1>5, <1>6, <1>7, <1>8, <1>9 DEF CallAdvances

\* The exchange of an earlier response is cleaned up by any other one.
LEMMA ExchangeCleanedUp ==
  ASSUME \A k \in calls : WellFormed(k), NEW x \in WithoutExchange(calls)
  PROVE  WellFormed(x) /\ (x.by \in Slots => x \in calls)
<1> DEFINE kept == {c \in calls : c.phase # "exchange"}
<1>1. x \in Orphaned(kept, {TheProvider}) /\ \A c \in kept : WellFormed(c)
  BY DEF WithoutExchange
<1>2. kept \subseteq calls
  OBVIOUS
<1> HIDE DEF kept
<1> QED
  BY <1>1, <1>2, Orphans, NobodyIsNoSlot

\* The new exchange is nobody's but the provider's.
LEMMA ExchangeBegins ==
  ASSUME token \in Token \cup {NoToken}
  PROVE  LET n == NewCall(TheProvider, "signIn", Nothing, "exchange") IN
         WellFormed(n) /\ n.by \notin Slots
<1> DEFINE n == NewCall(TheProvider, "signIn", Nothing, "exchange")
<1>1. /\ n \in Call
      /\ n.by = TheProvider /\ n.goal = "signIn" /\ n.phase = "exchange"
  BY DEF NewCall, Call
<1> HIDE DEF n
<1>2. WellFormed(n) /\ n.by \notin Slots
  BY <1>1, NobodyIsNoSlot DEF WellFormed
<1> QED
  BY <1>2 DEF n

\* A step of the provider itself.
LEMMA SessionStepKeeps ==
  ASSUME SessionShape, restoring \/ prompting => status # "closed",
         \A k \in calls : WellFormed(k), SessionStep
  PROVE  SessionKeeps
<1> USE NoTokenIsNone DEF SessionShape, SessionTypeOK
<1>0. \A x \in calls : Inherits(x, x)
  BY DEF Inherits
<1>1. CASE DiscoveryLoads
  <2>1. /\ status' = status /\ token' = token /\ discovery' = "loaded"
        /\ dirty' \subseteq Slots
        /\ dirty' = Slots \/ UNCHANGED <<status, token, dirty>>
    BY <1>1, ContextUpdates DEF DiscoveryLoads
  <2> QED
    BY <1>0, <1>1, <2>1 DEF SessionKeeps, DiscoveryLoads, device
<1>2. CASE DiscoveryFails
  <2>1. /\ status' = "config-error" /\ token' = token /\ discovery' = "failed"
        /\ dirty' \subseteq Slots
        /\ dirty' = Slots \/ UNCHANGED <<status, token, dirty>>
    BY <1>2, ContextUpdates DEF DiscoveryFails
  <2> QED
    BY <1>0, <1>2, <2>1 DEF SessionKeeps, DiscoveryFails, device
<1>3. CASE RestoreFinds
  <2>1. /\ status' = "authenticated" /\ token' = store /\ discovery' = discovery
        /\ dirty' \subseteq Slots
        /\ dirty' = Slots \/ UNCHANGED <<status, token, dirty>>
    BY <1>3, ContextUpdates DEF RestoreFinds
  <2> QED
    BY <1>0, <1>3, <2>1 DEF SessionKeeps, RestoreFinds, device
<1>4. CASE RestoreDiscards \/ RestoreFindsNothing
  <2>1. /\ status' = "unauthenticated" /\ token' = token /\ discovery' = discovery
        /\ dirty' \subseteq Slots
        /\ dirty' = Slots \/ UNCHANGED <<status, token, dirty>>
    BY <1>4, ContextUpdates DEF RestoreDiscards, RestoreFindsNothing
  <2> QED
    BY <1>0, <1>4, <2>1 DEF SessionKeeps, RestoreDiscards, RestoreFindsNothing, device
<1>5. CASE PromptEnds
  <2>1. /\ calls' \subseteq Call
        /\ \A x \in calls' : /\ WellFormed(x)
                             /\ x.by \in Slots => \E k \in calls : Inherits(x, k)
    <3>1. calls' \subseteq WithoutExchange(calls) \cup
                          {NewCall(TheProvider, "signIn", Nothing, "exchange")}
      BY <1>5 DEF PromptEnds
    <3>2. \A x \in calls' : WellFormed(x) /\ (x.by \in Slots => x \in calls)
      BY <3>1, ExchangeCleanedUp, ExchangeBegins
    <3> QED
      BY <1>0, <3>2 DEF WellFormed
  <2>2. \/ KeepContext
        \/ SetContext("unauthenticated", token, discovery)
        \/ SetContext("loading", token, discovery)
    BY <1>5 DEF PromptEnds
  <2>3. /\ status' \in {status, "unauthenticated", "loading"} /\ token' = token
        /\ discovery' = discovery /\ dirty' \subseteq Slots
        /\ dirty' = Slots \/ UNCHANGED <<status, token, dirty>>
    BY <2>2, ContextUpdates DEF KeepContext, context
  <2> QED
    BY <1>5, <2>1, <2>3 DEF SessionKeeps, PromptEnds, device
<1>6. ASSUME NEW t \in {token, store} \ {NoToken}, Expires(t)
      PROVE  SessionKeeps
  BY <1>0, <1>6 DEF SessionKeeps, Expires, context
<1> QED
  BY <1>1, <1>2, <1>3, <1>4, <1>5, <1>6 DEF SessionStep, Restores

-----------------------------------------------------------------------------
(* Screens. *)

\* The parts of a screen on the stack.
LEMMA ScreenParts ==
  ASSUME NEW e \in ScreenState
  PROVE  /\ e.screen \in Screens /\ e.data \in Account \cup {Nothing}
         /\ e.offer \subseteq Plans /\ e.ask \in Payloads \cup {Nothing} /\ e.ok \in BOOLEAN
  BY DEF ScreenState

\* A screen that has just been opened.
LEMMA ScreenOpened ==
  ASSUME NEW s \in Screens, NEW a \in Payloads \cup {Nothing}
  PROVE  /\ Asking(s, a) \in ScreenState
         /\ Asking(s, a).screen = s /\ Asking(s, a).data = Nothing
         /\ Asking(s, a).offer = {} /\ Asking(s, a).ask = a
  BY DEF Asking, ScreenState

\* A screen that is given plans to offer.
LEMMA ScreenOffers ==
  ASSUME NEW e \in ScreenState, NEW ps \in SUBSET Plans
  PROVE  /\ Offering(e, ps) \in ScreenState
         /\ Offering(e, ps).screen = e.screen /\ Offering(e, ps).data = e.data
         /\ Offering(e, ps).offer = ps /\ Offering(e, ps).ask = e.ask
  BY DEF Offering, ScreenState

\* A screen that has read the account.
LEMMA ScreenReads ==
  ASSUME NEW e \in ScreenState, NEW d \in Account \cup {Nothing}
  PROVE  LET x == [e EXCEPT !.data = d] IN
         /\ x \in ScreenState
         /\ x.screen = e.screen /\ x.data = d /\ x.offer = e.offer /\ x.ask = e.ask
  BY DEF ScreenState

\* A screen whose consent box is ticked or unticked.
LEMMA ScreenTicked ==
  ASSUME NEW e \in ScreenState
  PROVE  /\ Ticked(e) \in ScreenState
         /\ Ticked(e).screen = e.screen /\ Ticked(e).data = e.data
         /\ Ticked(e).offer = e.offer /\ Ticked(e).ask = e.ask
<1> DEFINE v == ~e.ok
<1>1. v \in BOOLEAN /\ Ticked(e) = [e EXCEPT !.ok = v]
  BY DEF Ticked
<1> HIDE DEF v
<1> QED
  BY <1>1 DEF ScreenState

\* A screen whose effects have run.
LEMMA ScreenSettles ==
  ASSUME NEW e \in ScreenState
  PROVE  /\ Settled(e) \in ScreenState
         /\ Settled(e).screen = e.screen /\ Settled(e).ask = e.ask
         /\ Settled(e).data = IF e.screen \in Hooked /\ SignedOut THEN Nothing ELSE e.data
         /\ Settled(e).offer \in {e.offer, {}}
         /\ Settled(e).offer # {} => ListKept(e)
<1> DEFINE d == IF e.screen \in Hooked /\ SignedOut THEN Nothing ELSE e.data
           o == IF ListKept(e) THEN e.offer ELSE {}
<1>1. /\ d \in Account \cup {Nothing} /\ o \in SUBSET Plans /\ o \in {e.offer, {}}
      /\ o # {} => ListKept(e)
  BY ScreenParts
<1>2. Settled(e) = [e EXCEPT !.data = d, !.offer = o]
  BY DEF Settled
<1> HIDE DEF d, o
<1>3. /\ Settled(e) \in ScreenState
      /\ Settled(e).screen = e.screen /\ Settled(e).ask = e.ask
      /\ Settled(e).data = d /\ Settled(e).offer = o
  BY <1>1, <1>2 DEF ScreenState
<1> QED
  BY <1>1, <1>3 DEF d

\* The stack of a well-formed state, and the slots it takes.
LEMMA StackParts ==
  ASSUME MobileTypeOK
  PROVE  /\ Top \in Nat /\ 1 .. Top \subseteq Slots
         /\ stack = <<>> <=> Top = 0
         /\ \A i \in 1 .. Top : stack[i] \in ScreenState
<1>1. stack \in Seq(ScreenState) /\ Top <= MaxDepth
  BY DEF Top, MobileTypeOK
<1> QED
  BY <1>1, ElementOfSeq, EmptySeq, LenProperties, MobileAssumption DEF Top

\* One screen of the stack changes.
LEMMA StackWith ==
  ASSUME MobileTypeOK, NEW i \in 1 .. Top, NEW e \in ScreenState,
         stack' = [stack EXCEPT ![i] = e]
  PROVE  /\ stack' \in Seq(ScreenState) /\ Len(stack') = Top
         /\ \A j \in 1 .. Top : stack'[j] = IF j = i THEN e ELSE stack[j]
  BY ExceptSeq DEF Top, MobileTypeOK

\* What the session's steps leave of the screens.
ScreensStay ==
  /\ stack' \in Seq(ScreenState) /\ Len(stack') = Top
  /\ \A i \in 1 .. Top :
       /\ stack'[i].screen = stack[i].screen /\ stack'[i].ask = stack[i].ask
       /\ stack'[i].data = stack[i].data /\ stack'[i].offer \in {stack[i].offer, {}}

\* A step of the session leaves every screen with the calls it asked for, and
\* either the present session or effects that have yet to run.
LEMMA SessionLeavesTheScreens ==
  ASSUME MobileInv, SessionKeeps, ScreensStay, StaysReal
  PROVE  MobileInv'
<1>0. MobileTypeOK /\ AreaInv /\ CallsInv /\ OffersInv /\ Forgotten
  BY DEF MobileInv, ScreensInv
<1>1. MobileTypeOK'
  BY <1>0 DEF Top, MobileTypeOK, SessionKeeps, SessionShape, ScreensStay, StaysReal
<1>2. AreaInv'
  <2>1. area = "real" => stack' # <<>>
    BY <1>0, <1>1, StackParts, EmptySeq DEF AreaInv, ScreensStay
  <2> QED
    BY <1>0, <2>1 DEF AreaInv, SessionKeeps, SessionShape, StaysReal
<1>3. CallsInv'
  <2> SUFFICES ASSUME NEW x \in calls'
               PROVE  (WellFormed(x) /\ MountedCall(x) /\ PresentCall(x))'
    BY DEF CallsInv
  <2>1. WellFormed(x) /\ (x.by \in Slots => \E c \in calls : Inherits(x, c))
    BY DEF SessionKeeps
  <2>2. CASE x.by \in Slots
    <3>1. PICK c \in calls : Inherits(x, c)
      BY <2>1, <2>2
    <3>2. MountedCall(c) /\ PresentCall(c)
      BY <1>0 DEF CallsInv
    <3>3. Top \in Nat /\ Slots = 1 .. MaxDepth /\ MaxDepth \in Nat
      BY <1>0, StackParts, MobileAssumption
    <3>4. MountedCall(x)'
      BY <2>2, <3>1, <3>2, <3>3 DEF Top, MountedCall, Inherits, ScreensStay
    <3>5. PresentCall(x)'
      BY <2>2, <3>1, <3>2, <3>3
         DEF Top, MountedCall, PresentCall, Inherits, SessionKeeps, ScreensStay, Selectable
    <3> QED
      BY <2>1, <3>4, <3>5 DEF WellFormed
  <2>3. CASE x.by \notin Slots
    BY <2>1, <2>3 DEF WellFormed, MountedCall, PresentCall
  <2> QED
    BY <2>2, <2>3
<1>4. OffersInv'
  BY <1>0, StackParts
     DEF Top, OffersInv, OffersMatchTheApplication, ScreensStay, SessionKeeps, Selectable, StaysReal
<1>5. Forgotten'
  BY <1>0, StackParts DEF Top, Forgotten, ScreensStay, SessionKeeps, SignedOut, StaysReal
<1> QED
  BY <1>1, <1>2, <1>3, <1>4, <1>5 DEF MobileInv, ScreensInv

\* Every step of the session is such a step.
LEMMA SessionMovesStep ==
  ASSUME MobileInv, SessionMoves
  PROVE  MobileInv'
<1>0. MobileTypeOK /\ AreaInv /\ CallsInv /\ (\A k \in calls : WellFormed(k)) /\ SessionShape
  BY DEF MobileInv, CallsInv, SessionShape, MobileTypeOK, AreaInv
<1>1. CASE SessionStep /\ UNCHANGED stack /\ StaysReal
  <2>1. SessionKeeps
    BY <1>0, <1>1, SessionStepKeeps DEF AreaInv
  <2>2. ScreensStay
    BY <1>0, <1>1 DEF Top, ScreensStay, MobileTypeOK
  <2> QED
    BY <1>1, <2>1, <2>2, SessionLeavesTheScreens
<1>2. ASSUME NEW c \in calls, CallMoves(c)
      PROVE  MobileInv'
  <2>1. status # "closed"
    BY <1>0 DEF AreaInv
  <2>2. SessionKeeps
    BY <1>0, <1>2, <2>1, CallAdvancesKeeps DEF CallMoves
  <2>3. ScreensStay
    <3>1. CASE UNCHANGED stack
      BY <1>0, <3>1 DEF Top, ScreensStay, MobileTypeOK
    <3>2. CASE c.by \in 1 .. Top /\ stack' = [stack EXCEPT ![c.by] = Offering(stack[c.by], {})]
      <4>1. stack[c.by] \in ScreenState
        BY <1>0, <3>2, StackParts
      <4>2. Offering(stack[c.by], {}) \in ScreenState
        BY <4>1, ScreenOffers
      <4>3. /\ stack' \in Seq(ScreenState) /\ Len(stack') = Top
            /\ \A j \in 1 .. Top :
                 stack'[j] = IF j = c.by THEN Offering(stack[c.by], {}) ELSE stack[j]
        BY <1>0, <3>2, <4>2, StackWith
      <4> QED
        BY <4>1, <4>3, ScreenOffers DEF ScreensStay
    <3> QED
      BY <1>2, <3>1, <3>2 DEF CallMoves
  <2> QED
    BY <1>2, <2>2, <2>3, SessionLeavesTheScreens DEF CallMoves
<1> QED
  BY <1>1, <1>2 DEF SessionMoves

-----------------------------------------------------------------------------
(* The steps of the screens. *)

ApplicationOK == application \in [Applicants -> [status : Statuses, plan : Plans \cup {NoPlan}]]

\* What is left to show of a step of the screens, which leaves the session as it is.
LEMMA ScreenStep ==
  ASSUME MobileInv, area = "real", StaysInSession, area' = area, signedOut' \in BOOLEAN,
         ApplicationOK', stack' \in Seq(ScreenState), Len(stack') \in 1 .. MaxDepth,
         dirty' \subseteq Slots,
         \A x \in calls' : WellFormed(x) /\ MountedCall(x)' /\ PresentCall(x)',
         OffersInv', Forgotten'
  PROVE  MobileInv'
<1>0. MobileTypeOK /\ AreaInv /\ stack' # <<>>
  BY EmptySeq, MobileAssumption DEF MobileInv
<1>1. calls' \subseteq Call
  BY DEF WellFormed
<1>2. MobileTypeOK'
  BY <1>0, <1>1, MobileAssumption
     DEF MobileTypeOK, SessionTypeOK, StaysInSession, context, device, ApplicationOK
<1>3. AreaInv'
  BY <1>0 DEF AreaInv, StaysInSession, context
<1>4. CallsInv'
  BY DEF CallsInv, WellFormed
<1> QED
  BY <1>2, <1>3, <1>4 DEF MobileInv, ScreensInv

\* Where a step of the screens begins.
LEMMA ScreenStart ==
  ASSUME MobileInv, area = "real"
  PROVE  /\ MobileTypeOK /\ ApplicationOK /\ OffersInv /\ Forgotten
         /\ Top \in 1 .. MaxDepth /\ 1 .. Top \subseteq Slots /\ Slots = 1 .. MaxDepth
         /\ MaxDepth \in Nat \ {0}
         /\ stack \in Seq(ScreenState) /\ dirty \subseteq Slots /\ calls \subseteq Call
         /\ \A i \in 1 .. Top : stack[i] \in ScreenState
         /\ \A c \in calls : WellFormed(c) /\ MountedCall(c) /\ PresentCall(c)
<1>1. MobileTypeOK /\ AreaInv /\ CallsInv /\ ScreensInv
  BY DEF MobileInv
<1>2. Top \in 1 .. MaxDepth
  BY <1>1, StackParts, MobileAssumption DEF MobileTypeOK, AreaInv, Top
<1> QED
  BY <1>1, <1>2, StackParts, MobileAssumption
     DEF MobileTypeOK, SessionTypeOK, ApplicationOK, CallsInv, ScreensInv

\* The screen on top gives way to another one, and its calls with it.
LEMMA TopReplaced ==
  ASSUME MobileInv, area = "real", NEW s \in Screens, NEW cs \in SUBSET calls,
         ReplaceTop(Fresh(s), cs), StaysInSession, UNCHANGED <<area, signedOut>>, ApplicationOK'
  PROVE  MobileInv'
<1>0. USE ScreenStart
<1> DEFINE e == Fresh(s)
<1>1. /\ e \in ScreenState /\ e.data = Nothing /\ e.offer = {}
  BY ScreenOpened DEF Fresh
<1>2. /\ stack' \in Seq(ScreenState) /\ Len(stack') = Top
      /\ \A j \in 1 .. Top : stack'[j] = IF j = Top THEN e ELSE stack[j]
  <2> HIDE DEF e
  <2>1. stack' = [stack EXCEPT ![Top] = e]
    BY DEF ReplaceTop, e
  <2>2. MobileTypeOK /\ Top \in 1 .. Top
    OBVIOUS
  <2> QED
    BY <1>1, <2>1, <2>2, StackWith
<1> HIDE DEF e
<1>3. dirty' = dirty \cup {Top} /\ calls' = Orphaned(cs, {Top})
  BY DEF ReplaceTop
<1>4. ASSUME NEW x \in calls'
      PROVE  WellFormed(x) /\ MountedCall(x)' /\ PresentCall(x)'
  <2>1. WellFormed(x) /\ ((x \in cs /\ x.by # Top) \/ x.by = Nobody)
    BY <1>3, Orphans
  <2>2. CASE x.by \in Slots
    <3>1. x \in calls /\ x.by # Top /\ MountedCall(x) /\ PresentCall(x)
      BY <2>1, <2>2, NobodyIsNoSlot
    <3>2. MountedCall(x)'
      BY <1>2, <2>2, <3>1 DEF MountedCall, Top
    <3>3. PresentCall(x)'
      BY <1>2, <1>3, <2>2, <3>1 DEF MountedCall, PresentCall, StaysInSession, context
    <3> QED
      BY <2>1, <3>2, <3>3
  <2>3. CASE x.by \notin Slots
    BY <2>1, <2>3 DEF MountedCall, PresentCall
  <2> QED
    BY <2>2, <2>3
<1>5. OffersInv'
  BY <1>1, <1>2, <1>3 DEF OffersInv, OffersMatchTheApplication, Top
<1>6. Forgotten'
  BY <1>1, <1>2, <1>3 DEF Forgotten, Top, SignedOut, StaysInSession, context
<1>7. signedOut' \in BOOLEAN
  BY DEF MobileTypeOK
<1> QED
  BY <1>2, <1>3, <1>4, <1>5, <1>6, <1>7, ScreenStep

\* A screen is opened on top of the others.
LEMMA ScreenPushed ==
  ASSUME MobileInv, area = "real", NEW s \in Screens, NEW a \in Payloads \cup {Nothing},
         Push(Asking(s, a)), StaysInSession, StaysReal
  PROVE  MobileInv'
<1>0. USE ScreenStart
<1> DEFINE e == Asking(s, a)
<1>1. e \in ScreenState /\ e.data = Nothing /\ e.offer = {}
  BY ScreenOpened
<1> HIDE DEF e
<1>2. Top < MaxDepth /\ stack' = Append(stack, e) /\ dirty' = dirty \cup {Top + 1} /\ calls' = calls
  BY DEF Push, e
<1>3. /\ stack' \in Seq(ScreenState) /\ Len(stack') = Top + 1
      /\ \A j \in 1 .. Top : stack'[j] = stack[j]
      /\ stack'[Top + 1] = e
  BY <1>1, <1>2, AppendProperties DEF Top
<1>4. ASSUME NEW x \in calls'
      PROVE  WellFormed(x) /\ MountedCall(x)' /\ PresentCall(x)'
  <2>1. x \in calls /\ WellFormed(x) /\ MountedCall(x) /\ PresentCall(x)
    BY <1>2
  <2>2. MountedCall(x)'
    BY <1>3, <2>1 DEF MountedCall, Top
  <2>3. PresentCall(x)'
    BY <1>2, <1>3, <2>1 DEF MountedCall, PresentCall, StaysInSession, context
  <2> QED
    BY <2>1, <2>2, <2>3
<1>5. OffersInv'
  BY <1>1, <1>2, <1>3 DEF OffersInv, OffersMatchTheApplication, Top, StaysReal
<1>6. Forgotten'
  BY <1>1, <1>2, <1>3 DEF Forgotten, Top, SignedOut, StaysInSession, StaysReal, context
<1>7. signedOut' \in BOOLEAN /\ ApplicationOK' /\ area' = area
  BY DEF MobileTypeOK, StaysReal, ApplicationOK
<1> QED
  BY <1>2, <1>3, <1>4, <1>5, <1>6, <1>7, ScreenStep

\* The screen on top is left, and its calls with it.
LEMMA GoesBackStep ==
  ASSUME MobileInv, GoesBack
  PROVE  MobileInv'
<1>1. area = "real"
  BY DEF GoesBack
<1>0. USE ScreenStart, <1>1
<1>2. /\ Top > 1 /\ stack' = SubSeq(stack, 1, Top - 1)
      /\ dirty' = dirty \ {Top} /\ calls' = Orphaned(calls, {Top})
      /\ StaysInSession /\ StaysReal
  BY DEF GoesBack
<1>3. /\ stack' \in Seq(ScreenState) /\ Len(stack') = Top - 1
      /\ \A j \in 1 .. Top - 1 : stack'[j] = stack[j]
  BY <1>2, SubSeqProperties
<1>4. ASSUME NEW x \in calls'
      PROVE  WellFormed(x) /\ MountedCall(x)' /\ PresentCall(x)'
  <2>1. WellFormed(x) /\ ((x \in calls /\ x.by # Top) \/ x.by = Nobody)
    BY <1>2, Orphans
  <2>2. CASE x.by \in Slots
    <3>1. x \in calls /\ x.by # Top /\ MountedCall(x) /\ PresentCall(x)
      BY <2>1, <2>2, NobodyIsNoSlot
    <3>2. x.by \in 1 .. Top - 1
      BY <2>2, <3>1 DEF MountedCall
    <3>3. MountedCall(x)'
      BY <1>3, <3>1, <3>2 DEF MountedCall, Top
    <3>4. PresentCall(x)'
      BY <1>2, <1>3, <2>2, <3>1, <3>2 DEF PresentCall, StaysInSession, context
    <3> QED
      BY <2>1, <3>3, <3>4
  <2>3. CASE x.by \notin Slots
    BY <2>1, <2>3 DEF MountedCall, PresentCall
  <2> QED
    BY <2>2, <2>3
<1>5. OffersInv'
  <2>1. Top' = Top - 1 /\ Top \in Nat /\ area' = area
    BY <1>2, <1>3 DEF Top, StaysReal
  <2>2. ASSUME NEW i \in 1 .. Top'
        PROVE  i \in 1 .. Top /\ i # Top /\ stack'[i] = stack[i]
    BY <1>3, <2>1
  <2>3. \A i \in (1 .. Top \ dirty)' : i \in 1 .. Top \ dirty
    BY <1>2, <2>2
  <2>4. OffersMatchTheApplication'
    BY <2>1, <2>2, <2>3 DEF OffersInv, OffersMatchTheApplication
  <2> QED
    BY <2>2, <2>4 DEF OffersInv
<1>6. Forgotten'
  BY <1>2, <1>3 DEF Forgotten, Top, SignedOut, StaysInSession, StaysReal, context
<1>7. signedOut' \in BOOLEAN /\ ApplicationOK' /\ area' = area
  BY <1>2 DEF MobileTypeOK, StaysReal, ApplicationOK
<1>8. Len(stack') \in 1 .. MaxDepth /\ dirty' \subseteq Slots
  BY <1>2, <1>3
<1> QED
  BY <1>2, <1>3, <1>4, <1>5, <1>6, <1>7, <1>8, ScreenStep

\* Only the calls under way change.
LEMMA CallsChange ==
  ASSUME MobileInv, area = "real", StaysInSession, UNCHANGED <<area, stack, dirty, signedOut>>,
         ApplicationOK',
         \A x \in calls' : x \in calls \/ (WellFormed(x) /\ MountedCall(x) /\ PresentCall(x))
  PROVE  MobileInv'
<1>0. USE ScreenStart
<1>1. ASSUME NEW x \in calls'
      PROVE  WellFormed(x) /\ MountedCall(x)' /\ PresentCall(x)'
  <2>1. WellFormed(x) /\ MountedCall(x) /\ PresentCall(x)
    OBVIOUS
  <2> QED
    BY <2>1 DEF MountedCall, PresentCall, Top, StaysInSession, context
<1>2. OffersInv'
  BY DEF OffersInv, OffersMatchTheApplication, Top
<1>3. Forgotten'
  BY DEF Forgotten, Top, SignedOut, StaysInSession, context
<1>4. signedOut' \in BOOLEAN /\ stack' \in Seq(ScreenState) /\ Len(stack') \in 1 .. MaxDepth
  BY DEF MobileTypeOK, Top
<1> QED
  BY <1>1, <1>2, <1>3, <1>4, ScreenStep

\* The account is there, and the same closure goes on.
LEMMA ActivatedStep ==
  ASSUME MobileInv, NEW c \in calls, Activated(c)
  PROVE  MobileInv'
<1>1. area = "real"
  BY DEF MobileInv, AreaInv
<1>0. USE ScreenStart, <1>1
<1> DEFINE r == [c EXCEPT !.goal = "read"]
           x == FreshAccess(r)
<1>2. /\ WellFormed(c) /\ MountedCall(c) /\ PresentCall(c) /\ c \in Call
      /\ c.goal = "activate" /\ calls' = (calls \ {c}) \cup {x}
  BY DEF Activated, WellFormed, Becomes
<1>3. /\ r \in Call /\ r.goal = "read"
      /\ r.by = c.by /\ r.token = c.token /\ r.about = c.about
  BY <1>2 DEF Call
<1> HIDE DEF r
<1>4. r.token \in Token
  BY <1>2, <1>3 DEF WellFormed
<1>5. WellFormed(x) /\ Inherits(x, r)
  BY <1>3, <1>4, FreshAccessContinues
<1> HIDE DEF x
<1>6. MountedCall(x) /\ PresentCall(x)
  BY <1>2, <1>3, <1>5 DEF MountedCall, PresentCall, Inherits
<1>7. StaysInSession /\ UNCHANGED <<area, stack, dirty, signedOut>> /\ ApplicationOK'
  BY DEF Activated, StaysInSession, appVars, ApplicationOK
<1> QED
  BY <1>2, <1>5, <1>6, <1>7, CallsChange

\* What PresentCall says of a call of the screen e.
Presents(x, e) ==
  x.by \in Slots \ dirty /\ x.goal \notin {"select", "signOut"} =>
    /\ status = "authenticated" /\ x.token = token
    /\ x.goal = "plans" /\ e.screen = "plans" => Selectable(e)

\* One screen takes something in, and its calls change with it.
LEMMA ScreenTakes ==
  ASSUME MobileInv, area = "real", StaysInSession, UNCHANGED dirty, StaysReal,
         NEW i \in 1 .. Top, NEW e \in ScreenState, stack' = [stack EXCEPT ![i] = e],
         e.screen = stack[i].screen, e.ask = stack[i].ask,
         e.screen = "confirm" /\ e.offer # {} => e.ask # Nothing,
         SignedOut /\ i \notin dirty => e.data \in {stack[i].data, Nothing},
         e.screen = "plans" /\ i \notin dirty /\ e.offer # {} => Selectable(e),
         \A x \in calls' : /\ WellFormed(x) /\ MountedCall(x)
                          /\ IF x.by = i THEN Presents(x, e) ELSE PresentCall(x)
  PROVE  MobileInv'
<1>0. USE ScreenStart
<1>1. /\ stack' \in Seq(ScreenState) /\ Len(stack') = Top
      /\ \A j \in 1 .. Top : stack'[j] = IF j = i THEN e ELSE stack[j]
  BY StackWith
<1>2. ASSUME NEW x \in calls'
      PROVE  WellFormed(x) /\ MountedCall(x)' /\ PresentCall(x)'
  <2>1. WellFormed(x) /\ MountedCall(x) /\ IF x.by = i THEN Presents(x, e) ELSE PresentCall(x)
    OBVIOUS
  <2>2. MountedCall(x)'
    BY <1>1, <2>1 DEF MountedCall, Top
  <2>3. PresentCall(x)'
    BY <1>1, <2>1 DEF MountedCall, Presents, PresentCall, StaysInSession, context
  <2> QED
    BY <2>1, <2>2, <2>3
<1>3. OffersInv'
  BY <1>1 DEF OffersInv, OffersMatchTheApplication, Top, StaysReal
<1>4. Forgotten'
  BY <1>1 DEF Forgotten, Top, SignedOut, StaysInSession, StaysReal, context
<1>5. signedOut' \in BOOLEAN /\ ApplicationOK' /\ area' = area
  BY DEF MobileTypeOK, StaysReal, ApplicationOK
<1>6. Len(stack') \in 1 .. MaxDepth /\ dirty' \subseteq Slots
  BY <1>1
<1> QED
  BY <1>1, <1>2, <1>3, <1>4, <1>5, <1>6, ScreenStep

\* The list of plans is asked for again for the account that was read.
LEMMA ListCallAsked ==
  ASSUME NEW i \in Slots, NEW o \in Applicants, token \in Token
  PROVE  LET x == ListCall(i, o) IN
         WellFormed(x) /\ x.by = i /\ x.goal = "plans" /\ x.token = token
<1>1. [owner |-> o, plan |-> NoPlan] \in Payloads
  BY MobileAssumption
<1> QED
  BY <1>1, NewCallAsked DEF ListCall

\* The bootstrap arrives: for a screen that still listens, and under the session
\* it was asked in, unless that screen's effects are about to run.
LEMMA BootstrapReadStep ==
  ASSUME MobileInv, NEW c \in calls, BootstrapRead(c)
  PROVE  MobileInv'
<1>1. area = "real"
  BY DEF MobileInv, AreaInv
<1>0. USE ScreenStart, <1>1
<1>2. /\ StaysInSession /\ StaysReal /\ UNCHANGED dirty /\ ApplicationOK'
      /\ WellFormed(c) /\ MountedCall(c) /\ PresentCall(c) /\ c.goal = "read"
  BY DEF BootstrapRead, StaysInSession, StaysReal, ApplicationOK
<1>3. CASE c.by \notin 1 .. Top
  <2>1. calls' = calls \ {c} /\ UNCHANGED stack
    BY <1>3 DEF BootstrapRead, Becomes
  <2> QED
    BY <1>2, <2>1, CallsChange DEF StaysReal
<1>4. CASE c.by \in 1 .. Top
  <2> DEFINE u == c.token.user
             data == [user |-> u, status |-> application[u].status]
             refetch == stack[c.by].screen = "plans" /\ c.by \notin dirty
             read == [stack[c.by] EXCEPT !.data = data]
             e == Informed(stack[c.by], data, refetch)
             asked == ListCall(c.by, u)
             quiet == ListsDropped(calls \ {c}, c.by)
  <2>1. u \in Users /\ u \in Applicants /\ data \in Account
    BY <1>2, MobileAssumption DEF WellFormed, Token, ApplicationOK, Account
  <2>2. /\ stack' = [stack EXCEPT ![c.by] = e]
        /\ calls' = IF refetch THEN quiet \cup (IF Selectable(e) THEN {asked} ELSE {})
                    ELSE calls \ {c}
    BY <1>4 DEF BootstrapRead
  <2>3. /\ e \in ScreenState /\ e.screen = stack[c.by].screen /\ e.ask = stack[c.by].ask
        /\ e.offer \in {stack[c.by].offer, {}}
        /\ refetch /\ e.offer # {} => Selectable(e)
    <3>1. /\ read \in ScreenState
          /\ read.screen = stack[c.by].screen /\ read.ask = stack[c.by].ask
          /\ read.offer = stack[c.by].offer
      BY <1>4, <2>1, ScreenReads
    <3>2. e = [read EXCEPT !.offer = IF refetch /\ ~Selectable(read) THEN {} ELSE @]
      BY DEF Informed
    <3> HIDE DEF read, e, refetch, data
    <3>3. CASE refetch /\ ~Selectable(read)
      <4>1. e = Offering(read, {})
        BY <3>2, <3>3 DEF Offering
      <4> QED
        BY <3>1, <4>1, ScreenOffers
    <3>4. CASE ~(refetch /\ ~Selectable(read))
      <4>1. e = read
        BY <3>1, <3>2, <3>4 DEF ScreenState
      <4> QED
        BY <3>1, <3>4, <4>1
    <3> QED
      BY <3>3, <3>4
  <2> HIDE DEF e, data
  <2>4. c.by \in Slots /\ (c.by \notin dirty => status = "authenticated" /\ c.token = token)
    BY <1>2, <1>4 DEF PresentCall
  <2>5. e.screen = "confirm" /\ e.offer # {} => e.ask # Nothing
    BY <1>4, <2>3 DEF OffersInv
  <2>6. ~(SignedOut /\ c.by \notin dirty)
    BY <2>4 DEF SignedOut
  <2>7. ASSUME NEW x \in calls'
        PROVE  /\ WellFormed(x) /\ MountedCall(x)
               /\ IF x.by = c.by THEN Presents(x, e) ELSE PresentCall(x)
    <3>1. CASE refetch /\ x \in quiet
      <4>1. PICK y \in calls \ {c} : x = IF y.goal = "plans"
                                         THEN [y EXCEPT !.by = IF @ = c.by THEN Nobody ELSE @] ELSE y
        BY <3>1 DEF ListsDropped
      <4>2. CASE y.goal = "plans" /\ y.by = c.by
        <5>1. x = [y EXCEPT !.by = Nobody]
          BY <4>1, <4>2
        <5>2. WellFormed(x) /\ x.by = Nobody
          BY <5>1, CallOfNobody, NobodyIsNoSlot DEF WellFormed
        <5> QED
          BY <2>4, <5>2, NobodyIsNoSlot DEF MountedCall, PresentCall
      <4>3. CASE ~(y.goal = "plans" /\ y.by = c.by)
        <5>1. x = y
          BY <4>1, <4>3 DEF Call
        <5> QED
          BY <4>3, <5>1 DEF PresentCall, Presents
      <4> QED
        BY <4>2, <4>3
    <3>2. CASE refetch /\ Selectable(e) /\ x = asked
      <4>1. /\ WellFormed(x) /\ x.by = c.by /\ x.goal = "plans" /\ x.token = token
            /\ status = "authenticated"
        BY <1>2, <2>1, <2>4, <3>2, ListCallAsked DEF WellFormed
      <4> QED
        BY <1>4, <3>2, <4>1 DEF MountedCall, Presents
    <3>3. CASE ~refetch /\ x \in calls
      BY <2>3, <3>3 DEF PresentCall, Presents
    <3> QED
      BY <2>2, <3>1, <3>2, <3>3
  <2> QED
    BY ZenonT(30), <1>2, <1>4, <2>2, <2>3, <2>5, <2>6, <2>7, ScreenTakes
<1> QED
  BY <1>3, <1>4

\* The backend has found the plans, and the same call waits for them.
LEMMA PlansFoundStep ==
  ASSUME MobileInv, NEW c \in calls, PlansFound(c)
  PROVE  MobileInv'
<1>1. area = "real"
  BY DEF MobileInv, AreaInv
<1>0. USE ScreenStart, <1>1
<1> DEFINE x == [c EXCEPT !.phase = "answer"]
<1>2. /\ WellFormed(c) /\ MountedCall(c) /\ PresentCall(c) /\ c \in Call
      /\ c.goal = "plans" /\ calls' = (calls \ {c}) \cup {x}
  BY DEF PlansFound, WellFormed, Becomes
<1>3. x \in Call /\ x.phase = "answer" /\ Inherits(x, c)
  BY <1>2 DEF Call, Inherits
<1> HIDE DEF x
<1>4. WellFormed(x) /\ MountedCall(x) /\ PresentCall(x)
  BY <1>2, <1>3 DEF WellFormed, MountedCall, PresentCall, Inherits
<1>5. StaysInSession /\ UNCHANGED <<area, stack, dirty, signedOut>> /\ ApplicationOK'
  BY DEF PlansFound, StaysInSession, appVars, ApplicationOK
<1> QED
  BY <1>2, <1>4, <1>5, CallsChange

\* The plans arrive: on the list, or on the confirmation of one of them.
LEMMA PlansListedStep ==
  ASSUME MobileInv, NEW c \in calls, PlansListed(c)
  PROVE  MobileInv'
<1>1. area = "real"
  BY DEF MobileInv, AreaInv
<1>0. USE ScreenStart, <1>1
<1>2. /\ StaysInSession /\ StaysReal /\ UNCHANGED dirty /\ ApplicationOK' /\ calls' \subseteq calls
      /\ MountedCall(c) /\ PresentCall(c) /\ c.goal = "plans"
  BY DEF PlansListed, StaysInSession, StaysReal, ApplicationOK, Becomes, WellFormed
<1>3. CASE c.by \notin 1 .. Top
  BY <1>2, <1>3, CallsChange DEF PlansListed, StaysReal
<1>4. CASE c.by \in 1 .. Top
  <2>1. PICK listed \in SUBSET Plans : stack' = [stack EXCEPT ![c.by] = Offering(stack[c.by],
          IF stack[c.by].screen = "confirm" THEN listed \cap {stack[c.by].ask.plan} ELSE listed)]
    BY <1>4 DEF PlansListed
  <2> DEFINE ps == IF stack[c.by].screen = "confirm" THEN listed \cap {stack[c.by].ask.plan} ELSE listed
             e == Offering(stack[c.by], ps)
  <2>2. ps \in SUBSET Plans
    OBVIOUS
  <2>3. stack' = [stack EXCEPT ![c.by] = e]
    BY <2>1
  <2> HIDE DEF ps
  <2>4. /\ e \in ScreenState /\ e.screen = stack[c.by].screen /\ e.ask = stack[c.by].ask
        /\ e.data = stack[c.by].data
    BY <1>4, <2>2, ScreenOffers
  <2> HIDE DEF e
  <2>5. e.screen = "confirm" => e.ask # Nothing
    BY <1>2, <1>4, <2>4 DEF MountedCall
  <2>6. e.screen = "plans" /\ c.by \notin dirty => Selectable(e)
    BY <1>2, <1>4, <2>4 DEF PresentCall, Selectable
  <2>7. \A x \in calls' : /\ WellFormed(x) /\ MountedCall(x)
                          /\ IF x.by = c.by THEN Presents(x, e) ELSE PresentCall(x)
    BY <1>2, <1>4, <2>4 DEF PresentCall, Presents, Selectable
  <2> QED
    BY <1>2, <1>4, <2>3, <2>4, <2>5, <2>6, <2>7, ScreenTakes
<1> QED
  BY <1>3, <1>4

\* The backend's applications stay well formed when a plan is selected.
LEMMA SelectsType ==
  ASSUME NEW c, WellFormed(c), ApplicationOK, Selects(c)
  PROVE  ApplicationOK'
<1>1. CASE UNCHANGED application
  BY <1>1 DEF ApplicationOK
<1>2. CASE application' = [application EXCEPT ![c.token.user] =
                             [status |-> "PropertyContractPending", plan |-> c.about.plan]]
  <2>1. c.about \in Payloads
    BY DEF WellFormed, Selects
  <2>2. [status |-> "PropertyContractPending", plan |-> c.about.plan]
           \in [status : Statuses, plan : Plans \cup {NoPlan}]
    BY <2>1, MobileAssumption DEF Statuses
  <2> QED
    BY <1>2, <2>2 DEF ApplicationOK
<1> QED
  BY <1>1, <1>2 DEF Selects

\* The plan is selected, whether the answer arrives or not.
LEMMA PlanSelectedStep ==
  ASSUME MobileInv, NEW c \in calls, PlanSelected(c)
  PROVE  MobileInv'
<1>1. area = "real"
  BY DEF MobileInv, AreaInv
<1>0. USE ScreenStart, <1>1
<1>2. ApplicationOK' /\ StaysInSession /\ UNCHANGED <<area, signedOut>>
  BY SelectsType DEF PlanSelected
<1>3. CASE ReplaceTop(Fresh("home"), calls \ {c})
  BY <1>2, <1>3, TopReplaced DEF Screens, Guarded
<1>4. CASE Becomes(c, {}) /\ UNCHANGED <<stack, dirty>>
  BY <1>2, <1>4, CallsChange DEF Becomes
<1> QED
  BY <1>3, <1>4 DEF PlanSelected

\* The device is signed out, and the screen on top gives way to the login screen.
LEMMA SignOutStep ==
  ASSUME MobileInv, NEW c \in calls, SignOutFinishes(c)
  PROVE  MobileInv'
<1>1. area = "real" /\ MobileTypeOK /\ AreaInv
  BY DEF MobileInv, AreaInv
<1>0. USE ScreenStart, <1>1
<1> DEFINE e == Fresh("login")
<1>2. e \in ScreenState /\ e.offer = {}
  BY ScreenOpened DEF Fresh, Screens
<1>3. /\ status' = "unauthenticated" /\ token' = NoToken /\ dirty' = Slots /\ store' = NoToken
      /\ calls' = Orphaned(calls \ {c}, {Top}) /\ signedOut' = TRUE
      /\ stack' = [stack EXCEPT ![Top] = e]
      /\ UNCHANGED <<discovery, restoring, prompting, area, issued, expired, spent, application>>
  BY DEF SignOutFinishes
<1> HIDE DEF e
<1>4. /\ stack' \in Seq(ScreenState) /\ Len(stack') = Top
      /\ \A j \in 1 .. Top : stack'[j] = IF j = Top THEN e ELSE stack[j]
  <2>1. MobileTypeOK /\ Top \in 1 .. Top
    OBVIOUS
  <2> QED
    BY <1>2, <1>3, <2>1, StackWith
<1>5. ASSUME NEW x \in calls'
      PROVE  WellFormed(x) /\ MountedCall(x)' /\ PresentCall(x)'
  <2>1. WellFormed(x) /\ ((x \in calls /\ x.by # Top) \/ x.by = Nobody)
    BY <1>3, Orphans
  <2>2. PresentCall(x)'
    BY <1>3 DEF PresentCall
  <2>3. CASE x.by \in Slots
    <3>1. x \in calls /\ x.by # Top /\ MountedCall(x)
      BY <2>1, <2>3, NobodyIsNoSlot
    <3>2. MountedCall(x)'
      BY <1>4, <2>3, <3>1 DEF MountedCall, Top
    <3> QED
      BY <2>1, <2>2, <3>2
  <2>4. CASE x.by \notin Slots
    BY <2>1, <2>2, <2>4 DEF MountedCall
  <2> QED
    BY <2>3, <2>4
<1>6. CallsInv' /\ calls' \subseteq Call
  BY <1>5 DEF CallsInv, WellFormed
<1>7. ScreensInv'
  BY <1>2, <1>3, <1>4 DEF ScreensInv, OffersInv, OffersMatchTheApplication, Forgotten, Top
<1>8. stack' # <<>> /\ Len(stack') <= MaxDepth
  BY <1>4, EmptySeq
<1>9. MobileTypeOK'
  BY <1>3, <1>4, <1>6, <1>8 DEF MobileTypeOK, SessionTypeOK
<1>10. AreaInv'
  BY <1>3, <1>8 DEF AreaInv
<1> QED
  BY <1>6, <1>7, <1>9, <1>10 DEF MobileInv

-----------------------------------------------------------------------------
(* The effects. *)

\* The effects' own calls are no longer listened to; a button's call is.
LEMMA CleanedUpCalls ==
  ASSUME \A c \in calls : WellFormed(c), NEW slots, NEW x \in CleanedUp(calls, slots)
  PROVE  /\ WellFormed(x)
         /\ \/ x \in calls /\ (x.by \notin slots \/ x.goal \in {"select", "signOut"})
            \/ x.by = Nobody
<1>1. PICK c \in calls : x = IF c.goal \in {"select", "signOut"} THEN c
                             ELSE [c EXCEPT !.by = IF @ \in slots THEN Nobody ELSE @]
  BY DEF CleanedUp
<1>2. WellFormed(c) /\ c \in Call
  BY DEF WellFormed
<1>3. CASE c.goal \in {"select", "signOut"} \/ c.by \notin slots
  <2>1. x = c
    BY <1>1, <1>2, <1>3 DEF Call
  <2> QED
    BY <1>2, <1>3, <2>1
<1>4. CASE c.goal \notin {"select", "signOut"} /\ c.by \in slots
  <2>1. x = [c EXCEPT !.by = Nobody]
    BY <1>1, <1>4
  <2> QED
    BY <1>2, <2>1, CallOfNobody, NobodyIsNoSlot DEF WellFormed
<1> QED
  BY <1>3, <1>4

\* What a screen's effects ask under the present session is for that screen.
LEMMA StartedCalls ==
  ASSUME MobileTypeOK, token \in Token, NEW i \in 1 .. Top, NEW x \in Starts(i)
  PROVE  /\ WellFormed(x) /\ x.by = i /\ x.token = token
         /\ x.goal \notin {"select", "signOut"} /\ MountedCall(x)
         /\ x.goal = "plans" /\ stack[i].screen = "plans" => Selectable(stack[i])
<1>0. stack[i] \in ScreenState /\ i \in Slots /\ Top \in Nat
  BY StackParts
<1>1. CASE stack[i].screen \in Readers /\ x = ApiCall(i, "activate", Nothing)
  <2>1. WellFormed(x) /\ x.by = i /\ x.goal = "activate" /\ x.token = token
    BY <1>0, <1>1, NewCallAsked
  <2> QED
    BY <1>1, <2>1 DEF MountedCall
<1>2. CASE /\ stack[i].screen = "confirm" /\ stack[i].ask # Nothing
           /\ x = ListCall(i, stack[i].ask.owner)
  <2>1. stack[i].ask.owner \in Applicants
    BY <1>0, <1>2, ScreenParts, MobileAssumption
  <2>2. WellFormed(x) /\ x.by = i /\ x.goal = "plans" /\ x.token = token
    BY <1>0, <1>2, <2>1, ListCallAsked
  <2> QED
    BY <1>2, <2>2 DEF MountedCall
<1>3. CASE /\ stack[i].screen = "plans" /\ Selectable(stack[i])
           /\ x = ListCall(i, stack[i].data.user)
  <2>1. stack[i].data.user \in Applicants
    BY <1>0, <1>3, ScreenParts, MobileAssumption DEF Account, Selectable
  <2>2. WellFormed(x) /\ x.by = i /\ x.goal = "plans" /\ x.token = token
    BY <1>0, <1>3, <2>1, ListCallAsked
  <2> QED
    BY <1>3, <2>2 DEF MountedCall
<1> QED
  BY <1>1, <1>2, <1>3 DEF Starts

\* The stack as the effects of the slots in dirty leave it.
SeenStack == [i \in 1 .. Top |-> IF i \in dirty THEN Settled(stack[i]) ELSE stack[i]]

\* No effect changes what a screen is, and each forgets what it must.
LEMMA SeenScreens ==
  ASSUME MobileInv, area = "real"
  PROVE  /\ SeenStack \in Seq(ScreenState) /\ Len(SeenStack) = Top
         /\ \A i \in 1 .. Top :
              /\ SeenStack[i].screen = stack[i].screen /\ SeenStack[i].ask = stack[i].ask
              /\ SeenStack[i].offer \in {stack[i].offer, {}}
              /\ SignedOut /\ SeenStack[i].screen \in Hooked => SeenStack[i].data = Nothing
              /\ ~SignedOut => SeenStack[i].data = stack[i].data
              /\ SeenStack[i].screen = "plans" /\ SeenStack[i].offer # {} => Selectable(SeenStack[i])
<1>0. USE ScreenStart
<1>1. \A i \in 1 .. Top : SeenStack[i] = IF i \in dirty THEN Settled(stack[i]) ELSE stack[i]
  BY DEF SeenStack
<1>2. \A i \in 1 .. Top :
        /\ SeenStack[i] \in ScreenState
        /\ SeenStack[i].screen = stack[i].screen /\ SeenStack[i].ask = stack[i].ask
        /\ SeenStack[i].offer \in {stack[i].offer, {}}
        /\ SignedOut /\ SeenStack[i].screen \in Hooked => SeenStack[i].data = Nothing
        /\ ~SignedOut => SeenStack[i].data = stack[i].data
        /\ SeenStack[i].screen = "plans" /\ SeenStack[i].offer # {} => Selectable(SeenStack[i])
  BY <1>1, ScreenSettles
     DEF Forgotten, OffersInv, OffersMatchTheApplication, ListKept, Selectable, SignedOut
<1>3. SeenStack \in [1 .. Top -> ScreenState]
  BY <1>2 DEF SeenStack
<1>4. SeenStack \in Seq(ScreenState) /\ Len(SeenStack) = Top
  <2>1. Top \in Nat
    OBVIOUS
  <2>2. SeenStack \in Seq(ScreenState)
    BY <1>3, <2>1, SeqDef
  <2>3. DOMAIN SeenStack = 1 .. Top
    BY <1>3
  <2>4. Len(SeenStack) \in Nat /\ DOMAIN SeenStack = 1 .. Len(SeenStack)
    BY <2>2, LenProperties
  <2> QED
    BY <2>1, <2>2, <2>3, <2>4
<1> QED
  BY <1>2, <1>4

\* The effects run: what they ask is asked under the present session, for the
\* screens that remain, and what they must forget is forgotten.
LEMMA EffectsRunStep ==
  ASSUME MobileInv, EffectsRun
  PROVE  MobileInv'
<1>1. area = "real" /\ AreaInv
  BY DEF EffectsRun, MobileInv
<1>0. USE ScreenStart, <1>1
<1> DEFINE started == IF status = "authenticated"
                        THEN UNION {Starts(i) : i \in dirty \cap 1 .. Top} ELSE {}
           running == CleanedUp(calls, dirty) \cup started
<1>2. /\ IF Redirect = "none"
           THEN stack' = SeenStack /\ dirty' = {} /\ calls' = running
           ELSE /\ stack' = [SeenStack EXCEPT ![Top] = Fresh(Redirect)]
                /\ dirty' = {Top}
                /\ calls' = Orphaned(running, {Top})
      /\ StaysInSession /\ StaysReal
  BY DEF EffectsRun, SeenStack
<1>3. /\ SeenStack \in Seq(ScreenState) /\ Len(SeenStack) = Top
      /\ \A i \in 1 .. Top :
           /\ SeenStack[i].screen = stack[i].screen /\ SeenStack[i].ask = stack[i].ask
           /\ SeenStack[i].offer \in {stack[i].offer, {}}
           /\ SignedOut /\ SeenStack[i].screen \in Hooked => SeenStack[i].data = Nothing
           /\ ~SignedOut => SeenStack[i].data = stack[i].data
           /\ SeenStack[i].screen = "plans" /\ SeenStack[i].offer # {} => Selectable(SeenStack[i])
  BY SeenScreens
<1>4. ASSUME NEW x \in running
      PROVE  /\ WellFormed(x) /\ MountedCall(x)
             /\ x.by \in Slots /\ x.goal \notin {"select", "signOut"} =>
                  /\ status = "authenticated" /\ x.token = token
                  /\ x.goal = "plans" /\ stack[x.by].screen = "plans" => Selectable(stack[x.by])
  <2>1. CASE x \in CleanedUp(calls, dirty)
    <3>1. WellFormed(x) /\ (\/ x \in calls /\ (x.by \notin dirty \/ x.goal \in {"select", "signOut"})
                            \/ x.by = Nobody)
      BY <2>1, CleanedUpCalls
    <3>2. CASE x.by = Nobody
      BY <3>1, <3>2, NobodyIsNoSlot DEF MountedCall
    <3>3. CASE x \in calls /\ (x.by \notin dirty \/ x.goal \in {"select", "signOut"})
      BY <3>1, <3>3 DEF PresentCall
    <3> QED
      BY <3>1, <3>2, <3>3
  <2>2. CASE x \in started
    <3>1. status = "authenticated" /\ token \in Token
      BY <2>2 DEF AreaInv, MobileTypeOK, SessionTypeOK
    <3>2. PICK i \in 1 .. Top : x \in Starts(i)
      BY <2>2, <3>1
    <3> QED
      BY <3>1, <3>2, StartedCalls
  <2> QED
    BY <2>1, <2>2
<1> HIDE DEF started, running
<1>5. signedOut' \in BOOLEAN /\ ApplicationOK' /\ area' = area
  BY <1>2 DEF MobileTypeOK, StaysReal, ApplicationOK
<1>6. UNCHANGED <<status, token>>
  BY <1>2 DEF StaysInSession, context
<1>7. CASE Redirect = "none"
  <2>1. stack' = SeenStack /\ dirty' = {} /\ calls' = running
    BY <1>2, <1>7
  <2>2. ASSUME NEW x \in calls'
        PROVE  WellFormed(x) /\ MountedCall(x)' /\ PresentCall(x)'
    <3>1. /\ WellFormed(x) /\ MountedCall(x)
          /\ x.by \in Slots /\ x.goal \notin {"select", "signOut"} =>
               /\ status = "authenticated" /\ x.token = token
               /\ x.goal = "plans" /\ stack[x.by].screen = "plans" => Selectable(stack[x.by])
      BY <1>4, <2>1
    <3>2. MountedCall(x)'
      BY <1>3, <2>1, <3>1 DEF MountedCall, Top
    <3>3. PresentCall(x)'
      BY <1>3, <1>6, <2>1, <3>1 DEF MountedCall, PresentCall, Selectable, SignedOut
    <3> QED
      BY <3>1, <3>2, <3>3
  <2>3. OffersInv'
    BY <1>3, <2>1 DEF OffersInv, OffersMatchTheApplication, Top
  <2>4. Forgotten'
    BY <1>3, <1>6, <2>1 DEF Forgotten, Top, SignedOut
  <2>5. stack' \in Seq(ScreenState) /\ Len(stack') \in 1 .. MaxDepth /\ dirty' \subseteq Slots
    BY <1>3, <2>1
  <2> QED
    BY <1>2, <1>5, <2>2, <2>3, <2>4, <2>5, ScreenStep
<1>8. CASE Redirect # "none"
  <2> DEFINE e == Fresh(Redirect)
  <2>1. stack' = [SeenStack EXCEPT ![Top] = e] /\ dirty' = {Top} /\ calls' = Orphaned(running, {Top})
    BY <1>2, <1>8
  <2>2. e \in ScreenState /\ e.offer = {} /\ e.data = Nothing
    <3>1. Redirect \in {"login", "home"}
      BY <1>8 DEF Redirect
    <3>2. Redirect \in Screens
      BY <3>1 DEF Screens, Guarded
    <3> QED
      BY <3>2, ScreenOpened DEF Fresh
  <2> HIDE DEF e
  <2>3. /\ stack' \in Seq(ScreenState) /\ Len(stack') = Top
        /\ \A j \in 1 .. Top : stack'[j] = IF j = Top THEN e ELSE SeenStack[j]
    <3>1. Top \in 1 .. Len(SeenStack)
      BY <1>3
    <3> QED
      BY <1>3, <2>1, <2>2, <3>1, ExceptSeq
  <2>4. ASSUME NEW x \in calls'
        PROVE  WellFormed(x) /\ MountedCall(x)' /\ PresentCall(x)'
    <3>1. WellFormed(x) /\ ((x \in running /\ x.by # Top) \/ x.by = Nobody)
      BY <1>4, <2>1, Orphans
    <3>2. CASE x.by \in Slots
      <4>1. /\ MountedCall(x) /\ x.by # Top
            /\ x.goal \notin {"select", "signOut"} =>
                 /\ status = "authenticated" /\ x.token = token
                 /\ x.goal = "plans" /\ stack[x.by].screen = "plans" => Selectable(stack[x.by])
        BY <1>4, <3>1, <3>2, NobodyIsNoSlot
      <4>2. MountedCall(x)'
        BY <1>3, <2>3, <3>2, <4>1 DEF MountedCall, Top
      <4>3. PresentCall(x)'
        BY <1>3, <1>6, <2>3, <3>2, <4>1 DEF MountedCall, PresentCall, Selectable, SignedOut
      <4> QED
        BY <3>1, <4>2, <4>3
    <3>3. CASE x.by \notin Slots
      BY <3>1, <3>3 DEF MountedCall, PresentCall
    <3> QED
      BY <3>2, <3>3
  <2>5. OffersInv'
    BY SMTT(30), <1>3, <2>1, <2>2, <2>3 DEF OffersInv, OffersMatchTheApplication, Top
  <2>6. Forgotten'
    BY <1>3, <1>6, <2>2, <2>3 DEF Forgotten, Top, SignedOut
  <2>7. stack' \in Seq(ScreenState) /\ Len(stack') \in 1 .. MaxDepth /\ dirty' \subseteq Slots
    BY <2>1, <2>3
  <2> QED
    BY <1>2, <1>5, <2>4, <2>5, <2>6, <2>7, ScreenStep
<1> QED
  BY <1>7, <1>8

-----------------------------------------------------------------------------
(* The buttons. *)

\* A screen gives way to another one by a button.
LEMMA ReplacesStep ==
  ASSUME MobileInv, area = "real", NEW ss \in SUBSET Screens, Replaces(ss)
  PROVE  MobileInv'
<1>1. PICK s \in ss : ReplaceTop(Fresh(s), calls)
  BY DEF Replaces
<1>2. StaysInSession /\ StaysReal /\ s \in Screens
  BY DEF Replaces
<1>3. ApplicationOK' /\ UNCHANGED <<area, signedOut>>
  BY <1>2, ScreenStart DEF StaysReal, ApplicationOK
<1> QED
  BY <1>1, <1>2, <1>3, TopReplaced

\* A screen opens another one by a button.
LEMMA PushesStep ==
  ASSUME MobileInv, area = "real", NEW es, Pushes(es),
         \A e \in es : \E s \in Screens, a \in Payloads \cup {Nothing} : e = Asking(s, a)
  PROVE  MobileInv'
<1>1. PICK e \in es : Push(e)
  BY DEF Pushes
<1>2. PICK s \in Screens, a \in Payloads \cup {Nothing} : e = Asking(s, a)
  OBVIOUS
<1>3. StaysInSession /\ StaysReal
  BY DEF Pushes
<1> QED
  BY <1>1, <1>2, <1>3, ScreenPushed

\* The account a screen shows chooses the next screen among the real ones.
LEMMA StatusScreens ==
  ASSUME NEW data \in Account
  PROVE  StatusScreen(data) \in Screens
<1>1. StatusScreen(data) \in {"plans", "approved", "rejected", "underReview"}
  BY DEF StatusScreen
<1> QED
  BY <1>1 DEF Screens, Guarded, Hooked

\* The consent box, the selection of the plan the route names, and the way back.
LEMMA ConfirmationStep ==
  ASSUME MobileInv, PlanConfirmationScreen
  PROVE  MobileInv'
<1>1. area = "real" /\ stack[Top].screen = "confirm"
  BY DEF PlanConfirmationScreen, On
<1>0. USE ScreenStart, <1>1
<1>2. CASE /\ stack' = [stack EXCEPT ![Top] = Ticked(stack[Top])]
           /\ UNCHANGED <<calls, dirty>> /\ StaysInSession /\ StaysReal
  <2> DEFINE e == Ticked(stack[Top])
  <2>1. stack[Top] \in ScreenState /\ Top \in 1 .. Top
    OBVIOUS
  <2>2. /\ e \in ScreenState /\ e.screen = stack[Top].screen /\ e.ask = stack[Top].ask
        /\ e.data = stack[Top].data /\ e.offer = stack[Top].offer
    BY <2>1, ScreenTicked
  <2>3. stack' = [stack EXCEPT ![Top] = e]
    BY <1>2
  <2> HIDE DEF e
  <2>4. e.screen = "confirm" /\ e.offer # {} => e.ask # Nothing
    BY <2>1, <2>2 DEF OffersInv
  <2>5. \A x \in calls' : /\ WellFormed(x) /\ MountedCall(x)
                          /\ IF x.by = Top THEN Presents(x, e) ELSE PresentCall(x)
    BY <1>2, <2>1, <2>2 DEF PresentCall, Presents
  <2> QED
    BY <1>2, <2>1, <2>2, <2>3, <2>4, <2>5, ScreenTakes
<1>3. CASE /\ stack[Top].offer # {} /\ token # NoToken
           /\ Calls(ApiCall(Top, "select", stack[Top].ask))
  <2> DEFINE x == ApiCall(Top, "select", stack[Top].ask)
  <2>1. stack[Top] \in ScreenState /\ Top \in 1 .. Top /\ Top \in Slots
    OBVIOUS
  <2>2. stack[Top].ask \in Payloads /\ token \in Token
    BY <1>3, <2>1, ScreenParts DEF OffersInv, MobileTypeOK, SessionTypeOK
  <2>3. WellFormed(x) /\ x.by = Top /\ x.goal = "select" /\ x.about = stack[Top].ask
    BY <2>1, <2>2, NewCallAsked
  <2>4. calls' = calls \cup {x} /\ UNCHANGED <<stack, dirty>> /\ StaysInSession /\ StaysReal
    BY <1>3 DEF Calls
  <2> HIDE DEF x
  <2>5. MountedCall(x) /\ PresentCall(x)
    BY <2>1, <2>3 DEF MountedCall, PresentCall
  <2> QED
    BY <2>3, <2>4, <2>5, CallsChange DEF StaysReal, ApplicationOK
<1>4. CASE Replaces({"plans"})
  BY <1>4, ReplacesStep DEF Screens, Guarded, Hooked
<1> QED
  BY <1>2, <1>3, <1>4 DEF PlanConfirmationScreen

\* Signing out clears the token of the device for the screen that asks for it.
LEMMA SignOutPressed ==
  ASSUME MobileInv, SignOutScreen
  PROVE  MobileInv'
<1>1. area = "real" /\ stack[Top].screen = "signOut"
  BY DEF SignOutScreen, On
<1>0. USE ScreenStart, <1>1
<1> DEFINE x == NewCall(Top, "signOut", Nothing, "clear")
<1>2. /\ x \in Call
      /\ x.by = Top /\ x.goal = "signOut" /\ x.phase = "clear"
  <2>1. token \in Token \cup {NoToken} /\ Top \in Slots
    BY DEF MobileTypeOK, SessionTypeOK
  <2> QED
    BY <2>1 DEF NewCall, Call
<1>3. calls' = calls \cup {x} /\ UNCHANGED <<stack, dirty>> /\ StaysInSession /\ StaysReal
  BY DEF SignOutScreen, Calls
<1> HIDE DEF x
<1>4. WellFormed(x) /\ MountedCall(x) /\ PresentCall(x)
  BY <1>2 DEF WellFormed, MountedCall, PresentCall
<1> QED
  BY <1>3, <1>4, CallsChange DEF StaysReal, ApplicationOK

\* Opening the prompt changes neither the screens nor their calls.
LEMMA LoginStep ==
  ASSUME MobileInv, LoginScreen
  PROVE  MobileInv'
<1>1. area = "real" /\ MobileTypeOK /\ AreaInv /\ CallsInv /\ ScreensInv
  BY DEF LoginScreen, On, MobileInv
<1>2. /\ prompting' = TRUE /\ signedOut' = FALSE
      /\ UNCHANGED <<status, token, discovery, restoring, dirty, calls, store, issued, expired,
                     spent, area, stack, application>>
  BY DEF LoginScreen, context, device
<1>3. MobileTypeOK' /\ AreaInv'
  BY <1>1, <1>2 DEF MobileTypeOK, SessionTypeOK, AreaInv
<1>4. CallsInv'
  BY <1>1, <1>2 DEF CallsInv, WellFormed, MountedCall, PresentCall, Top
<1>5. ScreensInv'
  BY <1>1, <1>2 DEF ScreensInv, OffersInv, OffersMatchTheApplication, Forgotten, SignedOut, Top
<1> QED
  BY <1>3, <1>4, <1>5 DEF MobileInv

\* The provider and its screens mount anew, with nothing read and nothing asked.
LEMMA MountStep ==
  ASSUME MobileInv, area # "real", NEW es, Remounts(es),
         UNCHANGED <<calls, device, application, signedOut>>,
         es \in Seq(ScreenState), Len(es) \in 1 .. MaxDepth,
         \A i \in 1 .. Len(es) : es[i].offer = {}
  PROVE  MobileInv'
<1>1. MobileTypeOK /\ calls = {} /\ es # <<>>
  BY EmptySeq, MobileAssumption DEF MobileInv, AreaInv
<1>2. /\ area' = "real" /\ stack' = es /\ dirty' = Slots /\ token' = NoToken
      /\ status' \in {"loading", "config-error"} /\ discovery' \in {"pending", "unconfigured"}
      /\ restoring' \in BOOLEAN /\ prompting' = FALSE
  <2>1. RuntimeConfigured \in BOOLEAN
    BY DEF RuntimeConfigured
  <2> QED
    BY <2>1 DEF Remounts, Mounts
<1>3. MobileTypeOK'
  <2>1. SessionTypeOK'
    BY <1>1, <1>2 DEF MobileTypeOK, SessionTypeOK, device
  <2>2. stack' \in Seq(ScreenState) /\ Len(stack') <= MaxDepth
    BY <1>2, MobileAssumption
  <2> QED
    BY <1>1, <1>2, <2>1, <2>2 DEF MobileTypeOK
<1>4. AreaInv' /\ CallsInv'
  BY <1>1, <1>2 DEF AreaInv, CallsInv
<1>5. ScreensInv'
  <2>1. 1 .. Len(stack') \subseteq Slots
    BY <1>2, MobileAssumption
  <2> QED
    BY <1>2, <2>1 DEF ScreensInv, OffersInv, OffersMatchTheApplication, Forgotten, Top
<1> QED
  BY <1>3, <1>4, <1>5 DEF MobileInv

\* Where the provider is unmounted there is no call, and nothing is restored.
LEMMA UnmountedStep ==
  ASSUME MobileInv, area' \in {"off", "legal", "preview", "crashed"},
         stack' \in {stack, <<>>}, calls' = {}, status' = "closed", token' = NoToken,
         discovery' \in {"pending", "unconfigured", discovery}, ~restoring', ~prompting',
         restoring' \in BOOLEAN, prompting' \in BOOLEAN, dirty' \in {{}, dirty},
         UNCHANGED <<device, application, signedOut>>
  PROVE  MobileInv'
<1>1. MobileTypeOK /\ OffersInv /\ MaxDepth \in Nat
  BY MobileAssumption DEF MobileInv, ScreensInv
<1>2. stack' \in Seq(ScreenState) /\ Len(stack') <= MaxDepth
  <2>1. CASE stack' = stack
    BY <1>1, <2>1 DEF MobileTypeOK
  <2>2. CASE stack' = <<>>
    <3>1. stack' \in Seq(ScreenState) /\ Len(stack') = 0
      BY <2>2, EmptySeq
    <3> QED
      BY <1>1, <3>1
  <2> QED
    BY <2>1, <2>2
<1>3. MobileTypeOK'
  BY <1>1, <1>2 DEF MobileTypeOK, SessionTypeOK, device
<1>4. AreaInv' /\ CallsInv' /\ Forgotten'
  BY DEF AreaInv, CallsInv, Forgotten
<1>5. OffersInv'
  <2>1. CASE stack' = stack
    BY <1>1, <2>1 DEF OffersInv, OffersMatchTheApplication, Top
  <2>2. CASE stack' = <<>>
    <3>1. Len(stack') = 0
      BY <2>2, EmptySeq
    <3> QED
      BY <3>1 DEF OffersInv, OffersMatchTheApplication, Top
  <2> QED
    BY <2>1, <2>2
<1> QED
  BY <1>3, <1>4, <1>5 DEF MobileInv, ScreensInv

\* A link opens one real screen.
LEMMA EntryPointsType ==
  ASSUME NEW es \in EntryPoints
  PROVE  es \in Seq(ScreenState) /\ Len(es) \in 1 .. MaxDepth /\ \A i \in 1 .. Len(es) : es[i].offer = {}
<1>1. PICK s \in Screens, a \in Payloads \cup {Nothing} : es = <<Asking(s, a)>>
  BY LinkAssumption DEF EntryPoints, Fresh, Screens, Guarded
<1> DEFINE e == Asking(s, a)
<1>2. e \in ScreenState /\ e.offer = {}
  BY ScreenOpened
<1>3. es = <<e>>
  BY <1>1
<1> HIDE DEF e
<1> QED
  BY <1>2, <1>3, MobileAssumption

\* The stack that mounts anew after a legal text: the same screens, with nothing read.
LEMMA LegalDocumentStep ==
  ASSUME MobileInv, LegalDocumentScreen
  PROVE  MobileInv'
<1>1. MobileTypeOK /\ area = "legal"
  BY DEF MobileInv, LegalDocumentScreen
<1>2. CASE stack = <<>>
  <2> DEFINE e == Fresh("login")
             es == <<e>>
  <2>1. e \in ScreenState /\ e.offer = {}
    BY ScreenOpened DEF Fresh, Screens
  <2>2. Remounts(es) /\ UNCHANGED <<calls, device, application, signedOut>>
    BY <1>2 DEF LegalDocumentScreen
  <2> HIDE DEF e
  <2>3. es \in Seq(ScreenState) /\ Len(es) \in 1 .. MaxDepth /\ \A i \in 1 .. Len(es) : es[i].offer = {}
    BY <2>1, MobileAssumption
  <2> HIDE DEF es
  <2> QED
    BY <1>1, <2>2, <2>3, MountStep
<1>3. CASE stack # <<>>
  <2> DEFINE es == [i \in 1 .. Top |-> Asking(stack[i].screen, stack[i].ask)]
  <2>1. Top \in 1 .. MaxDepth /\ MaxDepth \in Nat
    BY <1>1, <1>3, StackParts, MobileAssumption DEF MobileTypeOK, Top
  <2>2. \A i \in 1 .. Top : es[i] \in ScreenState /\ es[i].offer = {}
    BY <1>1, StackParts, ScreenParts, ScreenOpened
  <2>3. Remounts(es) /\ UNCHANGED <<calls, device, application, signedOut>>
    BY <1>3 DEF LegalDocumentScreen
  <2>4. es \in [1 .. Top -> ScreenState]
    BY <2>2
  <2>5. DOMAIN es = 1 .. Top
    OBVIOUS
  <2> HIDE DEF es
  <2>6. es \in Seq(ScreenState)
    BY <2>1, <2>4, SeqDef
  <2>7. Len(es) = Top
    BY <2>1, <2>5, <2>6, LenProperties
  <2> QED
    BY <1>1, <2>1, <2>2, <2>3, <2>6, <2>7, MountStep
<1> QED
  BY <1>2, <1>3

\* Each button, link and key keeps the invariant.
LEMMA PressesStep ==
  ASSUME MobileInv, Presses
  PROVE  MobileInv'
<1>1. CASE TenantHomeScreen
  <2>1. area = "real"
    BY <1>1 DEF TenantHomeScreen, On
  <2>2. CASE Pushes({Fresh(s) : s \in {"contracts", "payments", "profile"}})
    <3>1. \A s \in {"contracts", "payments", "profile"} : s \in Screens
      BY DEF Screens, Guarded, Hooked
    <3> QED
      BY <2>1, <2>2, <3>1, PushesStep DEF Fresh
  <2>3. CASE Replaces({"home"})
    BY <2>1, <2>3, ReplacesStep DEF Screens, Guarded
  <2>4. CASE stack[Top].data # Nothing /\ Pushes({Fresh(StatusScreen(stack[Top].data))})
    <3>1. stack[Top].data \in Account
      BY <2>1, <2>4, ScreenStart, ScreenParts
    <3>2. StatusScreen(stack[Top].data) \in Screens
      BY <3>1, StatusScreens
    <3> QED
      BY <2>1, <2>4, <3>2, PushesStep DEF Fresh
  <2> QED
    BY <1>1, <2>2, <2>3, <2>4 DEF TenantHomeScreen
<1>2. CASE FinancingPlansScreen
  <2>1. area = "real" /\ stack[Top].data # Nothing
    BY <1>2 DEF FinancingPlansScreen, On
  <2>2. stack[Top].data.user \in Applicants /\ stack[Top].offer \subseteq Plans
    <3>1. stack[Top] \in ScreenState
      BY <2>1, ScreenStart
    <3>2. stack[Top].data \in Account /\ stack[Top].offer \subseteq Plans
      BY <2>1, <3>1, ScreenParts
    <3> QED
      BY <3>2, MobileAssumption DEF Account
  <2>3. \A p \in stack[Top].offer : [owner |-> stack[Top].data.user, plan |-> p] \in Payloads
    BY <2>2, MobileAssumption
  <2>4. "confirm" \in Screens
    BY DEF Screens, Guarded
  <2>5. Pushes({Asking("confirm", [owner |-> stack[Top].data.user, plan |-> p]) :
                  p \in stack[Top].offer})
    BY <1>2 DEF FinancingPlansScreen
  <2> QED
    BY <2>1, <2>3, <2>4, <2>5, PushesStep
<1>3. CASE PlanConfirmationScreen
  BY <1>3, ConfirmationStep
<1>4. CASE \/ FinancingUnderReviewScreen \/ FinancingNotApprovedScreen \/ FinancingApprovedScreen
           \/ OwnerContractsScreen \/ LegacyTenantRouteUnavailable
  <2>1. /\ area = "real"
        /\ \/ Replaces({"home"}) \/ Replaces({"home", "contracts"})
           \/ Replaces({"contracts", "profile"}) \/ Replaces({"home", "payments", "contracts"})
    BY <1>4 DEF FinancingUnderReviewScreen, FinancingNotApprovedScreen, FinancingApprovedScreen,
                OwnerContractsScreen, LegacyTenantRouteUnavailable, On
  <2>2. {"home", "contracts", "profile", "payments"} \subseteq Screens
    BY DEF Screens, Guarded, Hooked
  <2> QED
    BY <2>1, <2>2, ReplacesStep
<1>5. CASE ContractsOverviewScreen
  <2>1. area = "real" /\ Pushes({Fresh("owner")}) /\ "owner" \in Screens
    BY <1>5 DEF ContractsOverviewScreen, On, Screens, Guarded, Hooked
  <2> QED
    BY <2>1, PushesStep DEF Fresh
<1>6. CASE ProfileScreen
  <2>1. area = "real"
    BY <1>6 DEF ProfileScreen, On
  <2>2. CASE Pushes({Fresh(s) : s \in {"signOut", "contracts", "payments", "home"}})
    <3>1. \A s \in {"signOut", "contracts", "payments", "home"} : s \in Screens
      BY DEF Screens, Guarded, Hooked
    <3> QED
      BY <2>1, <2>2, <3>1, PushesStep DEF Fresh
  <2>3. CASE Replaces({"profile"})
    BY <2>1, <2>3, ReplacesStep DEF Screens, Guarded, Hooked
  <2> QED
    BY <1>6, <2>2, <2>3 DEF ProfileScreen
<1>7. CASE SignOutScreen
  BY <1>7, SignOutPressed
<1>8. CASE LoginScreen
  BY <1>8, LoginStep
<1>9. CASE GoesBack
  BY <1>9, GoesBackStep
<1>10. CASE OpensPreview \/ OpensLegalText
  <2>1. /\ area' \in {"legal", "preview", "crashed"} /\ stack' \in {stack, <<>>}
        /\ calls' = {} /\ status' = "closed" /\ token' = NoToken /\ discovery' = "pending"
        /\ restoring' = FALSE /\ prompting' = FALSE /\ dirty' = {}
        /\ UNCHANGED <<device, application, signedOut>>
    BY <1>10 DEF OpensPreview, OpensLegalText, Unmounts
  <2> QED
    BY <2>1, UnmountedStep
<1>11. CASE LegalDocumentScreen
  BY <1>11, LegalDocumentStep
<1>12. CASE LeavesPreview
  <2>1. PICK es \in EntryPoints : Remounts(es)
    BY <1>12 DEF LeavesPreview
  <2>2. area # "real" /\ UNCHANGED <<calls, device, application, signedOut>>
    BY <1>12 DEF LeavesPreview
  <2> QED
    BY <2>1, <2>2, EntryPointsType, MountStep
<1> QED
  BY <1>1, <1>2, <1>3, <1>4, <1>5, <1>6, <1>7, <1>8, <1>9, <1>10, <1>11, <1>12 DEF Presses

\* The process starts with a link, or in a part without a session.
LEMMA LaunchStep ==
  ASSUME MobileInv, Launch
  PROVE  MobileInv'
<1>1. area = "off" /\ UNCHANGED <<calls, device, application, signedOut>>
  BY DEF Launch
<1>2. CASE \E es \in EntryPoints : Remounts(es)
  BY <1>1, <1>2, EntryPointsType, MountStep
<1>3. CASE /\ area' \in {"preview", "legal"}
           /\ UNCHANGED <<stack, context, restoring, prompting, dirty>>
  <2>1. MobileTypeOK /\ AreaInv /\ CallsInv /\ ScreensInv
    BY DEF MobileInv
  <2>2. MobileTypeOK' /\ AreaInv' /\ CallsInv'
    BY <1>1, <1>3, <2>1 DEF MobileTypeOK, SessionTypeOK, AreaInv, CallsInv, context, device
  <2>3. ScreensInv'
    BY <1>1, <1>3, <2>1 DEF ScreensInv, OffersInv, OffersMatchTheApplication, Forgotten, Top
  <2> QED
    BY <2>2, <2>3 DEF MobileInv
<1> QED
  BY <1>2, <1>3 DEF Launch

\* The process ends at any moment.
LEMMA KillStep ==
  ASSUME MobileInv, Kill
  PROVE  MobileInv'
  BY UnmountedStep DEF Kill

\* The process has not started, and nobody's plan is chosen without being recorded.
LEMMA MobileInit ==
  ASSUME Init
  PROVE  MobileInv
<1>1. /\ area = "off" /\ stack = <<>> /\ signedOut = FALSE
      /\ status = "closed" /\ token = NoToken /\ discovery = "pending"
      /\ restoring = FALSE /\ prompting = FALSE /\ dirty = {} /\ calls = {}
  BY DEF Init
<1>2. ApplicationOK
  <2>1. PICK s \in Statuses, p \in Plans : application = [u \in Applicants |->
          IF u \in Users /\ s # "PlanSelectionPending" THEN [status |-> s, plan |-> p]
          ELSE [status |-> "PlanSelectionPending", plan |-> NoPlan]]
    BY DEF Init
  <2> QED
    BY <2>1 DEF ApplicationOK, Statuses
<1>3. store \in Token \cup {NoToken} /\ issued \in 0 .. MaxTokens /\ expired \subseteq Token /\ spent = {}
  BY SessionAssumption DEF Init
<1>4. stack \in Seq(ScreenState) /\ Len(stack) = 0 /\ MaxDepth \in Nat
  BY <1>1, EmptySeq, MobileAssumption
<1>5. MobileTypeOK
  <2>1. SessionTypeOK
    BY <1>1, <1>3 DEF SessionTypeOK
  <2>2. Len(stack) <= MaxDepth
    BY <1>4, MobileAssumption
  <2> QED
    BY <1>1, <1>2, <1>4, <2>1, <2>2 DEF MobileTypeOK, ApplicationOK
<1> QED
  BY <1>1, <1>4, <1>5 DEF MobileInv, AreaInv, CallsInv, ScreensInv, OffersInv, OffersMatchTheApplication, Forgotten, Top

\* Every step keeps the invariant.
LEMMA MobileStep ==
  ASSUME MobileInv, [Next]_vars
  PROVE  MobileInv'
<1>1. CASE SessionMoves
  BY <1>1, SessionMovesStep
<1>2. CASE EffectsRun
  BY <1>2, EffectsRunStep
<1>3. ASSUME NEW c \in calls,
             \/ Activated(c) \/ BootstrapRead(c) \/ PlansFound(c) \/ PlansListed(c) \/ PlanSelected(c)
             \/ SignOutFinishes(c)
      PROVE  MobileInv'
  BY <1>3, ActivatedStep, BootstrapReadStep, PlansFoundStep, PlansListedStep, PlanSelectedStep, SignOutStep
<1>4. CASE Presses
  BY <1>4, PressesStep
<1>5. CASE Launch
  BY <1>5, LaunchStep
<1>6. CASE Kill
  BY <1>6, KillStep
<1>7. CASE UNCHANGED vars
  BY <1>7 DEF vars, sessionVars, appVars, context, device, MobileInv, MobileTypeOK, SessionTypeOK,
       AreaInv, CallsInv, WellFormed, MountedCall, PresentCall, ScreensInv, OffersInv,
       OffersMatchTheApplication, Forgotten,       SignedOut, Top
<1> QED
  BY <1>1, <1>2, <1>3, <1>4, <1>5, <1>6, <1>7 DEF Next, Answers

-----------------------------------------------------------------------------
(* The theorems. *)

\* The inductive invariant holds of every behaviour of the application.
THEOREM MobileInvariant == Spec => []MobileInv
<1>1. Init => MobileInv
  BY MobileInit
<1>2. MobileInv /\ [Next]_vars => MobileInv'
  BY MobileStep
<1> QED
  BY <1>1, <1>2, PTL DEF Spec

\* The session, the stack and the calls stay well formed, however deep the
\* stack and however many tokens and calls there are.
THEOREM MobileTypes == Spec => []MobileTypeOK
<1>1. MobileInv => MobileTypeOK
  BY DEF MobileInv
<1> QED
  BY <1>1, MobileInvariant, PTL

\* A list of plans never outlasts the application it was read for.
THEOREM OffersFollowTheApplication == Spec => []OffersMatchTheApplication
<1>1. MobileInv => OffersMatchTheApplication
  BY InvariantSuffices
<1> QED
  BY <1>1, MobileInvariant, PTL

\* No answer to an earlier session reaches a screen of the present one.
THEOREM AnswersAreOfThisSession == Spec => []CurrentSessionAsks
<1>1. MobileInv => CurrentSessionAsks
  BY InvariantSuffices
<1> QED
  BY <1>1, MobileInvariant, PTL

\* Once the session is gone the screens of the account forget it.
THEOREM AccountIsForgotten == Spec => []NothingOfTheAccountRemains
<1>1. MobileInv => NothingOfTheAccountRemains
  BY InvariantSuffices
<1> QED
  BY <1>1, MobileInvariant, PTL

\* What PlanRecordedByItsApplicant says of one step.
RecordedOnce ==
  \A a \in Applicants : application'[a] # application[a] =>
    /\ application[a].plan = NoPlan
    /\ \E c \in calls : /\ c.goal = "select" /\ c.token.user = a
                        /\ c.about = [owner |-> a, plan |-> application'[a].plan]

\* Of all steps only the selection of a plan writes an application.
LEMMA OnlySelectionWrites ==
  ASSUME [Next]_vars, ~(\E c \in calls : PlanSelected(c))
  PROVE  UNCHANGED application
<1>1. CASE SessionMoves
  BY <1>1 DEF SessionMoves, CallMoves, StaysReal
<1>2. CASE EffectsRun
  BY <1>2 DEF EffectsRun, StaysReal
<1>3. ASSUME NEW c \in calls, \/ Activated(c) \/ BootstrapRead(c) \/ PlansFound(c) \/ PlansListed(c)
             \/ SignOutFinishes(c)
      PROVE  UNCHANGED application
  BY <1>3 DEF Activated, BootstrapRead, PlansFound, PlansListed, SignOutFinishes, StaysReal, appVars
<1>4. CASE Presses
  BY <1>4 DEF Presses, TenantHomeScreen, FinancingPlansScreen, PlanConfirmationScreen,
       FinancingUnderReviewScreen, FinancingNotApprovedScreen, FinancingApprovedScreen,
       ContractsOverviewScreen, OwnerContractsScreen, ProfileScreen, LegacyTenantRouteUnavailable,
       SignOutScreen, LoginScreen, GoesBack, OpensPreview, OpensLegalText, LegalDocumentScreen,
       LeavesPreview, Replaces, Pushes, Calls, StaysReal
<1>5. CASE Launch \/ Kill \/ UNCHANGED vars
  BY <1>5 DEF Launch, Kill, vars, appVars
<1> QED
  BY <1>1, <1>2, <1>3, <1>4, <1>5 DEF Next, Answers

\* A plan is recorded for an applicant without one, and it is the plan that the
\* applicant's own session asked for.
LEMMA SelectionRecordsOnce ==
  ASSUME MobileInv, [Next]_vars
  PROVE  RecordedOnce
<1>1. CASE UNCHANGED application
  BY <1>1 DEF RecordedOnce
<1>2. ASSUME NEW c \in calls, PlanSelected(c)
      PROVE  RecordedOnce
  <2> DEFINE u == c.token.user
  <2>1. ApplicationOK /\ WellFormed(c)
    BY DEF MobileInv, MobileTypeOK, ApplicationOK, CallsInv
  <2>2. Selects(c)
    BY <1>2 DEF PlanSelected
  <2>3. /\ c.goal = "select" /\ c.about \in Payloads /\ c.about.owner = u
        /\ u \in Applicants
    BY <2>1, <2>2, MobileAssumption DEF Selects, WellFormed, Token
  <2>4. CASE application[u].plan # NoPlan
    BY <1>1, <2>2, <2>4 DEF Selects
  <2>5. CASE application[u].plan = NoPlan
    <3>1. application' = [application EXCEPT ![u] =
                            [status |-> "PropertyContractPending", plan |-> c.about.plan]]
      BY <2>2, <2>5 DEF Selects
    <3>2. \A a \in Applicants : application'[a] # application[a] => a = u
      BY <2>1, <3>1 DEF ApplicationOK
    <3>3. application'[u].plan = c.about.plan
      BY <2>1, <2>3, <3>1 DEF ApplicationOK
    <3>4. c.about = [owner |-> u, plan |-> application'[u].plan]
      BY <2>3, <3>3, MobileAssumption
    <3> QED
      BY <2>3, <2>5, <3>2, <3>4 DEF RecordedOnce
  <2> QED
    BY <2>4, <2>5
<1> QED
  BY <1>1, <1>2, OnlySelectionWrites

\* A plan is recorded once, for the applicant whose session asked for it.
THEOREM PlansAreRecordedOnce == Spec => PlanRecordedByItsApplicant
<1>1. MobileInv /\ [Next]_vars => [RecordedOnce]_vars
  BY SelectionRecordsOnce
<1>2. Spec => [][RecordedOnce]_vars
  BY <1>1, MobileInvariant, PTL DEF Spec
<1> QED
  BY <1>2 DEF PlanRecordedByItsApplicant, RecordedOnce
=============================================================================
