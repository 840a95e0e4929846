--------------------------- MODULE MobileSession ---------------------------
(***************************************************************************)
(* The OIDC session of the mobile application: the state of                 *)
(* MobileAuthProvider, the copy of the token in SecureStore, and the        *)
(* asynchronous calls that read and write both.                             *)
(*                                                                          *)
(* A call works with what its closure captured (the token, and whether the  *)
(* discovery document was there when its component rendered), however late  *)
(* it runs. A call made by an effect is active while "by" names its screen; *)
(* when the effect is cleaned up "by" becomes Nobody: the call still        *)
(* refreshes, stores and clears tokens, only its answer is dropped. Calls    *)
(* that agree in everything are one element of "calls".                     *)
(* SecureStore executes its operations one after the other, so an operation *)
(* and the state updates that follow it are one step.                       *)
(***************************************************************************)
EXTENDS Integers, FiniteSets

CONSTANTS
  Users,       \* the people who sign in on this device
  Payloads,    \* what a call is about (a plan of an application)
  MaxTokens,   \* bound: token responses the provider gives out
  RefreshIssued, \* whether token responses carry a refresh token (TRUE, FALSE or both)
  Rotating,    \* whether the provider accepts a refresh token only once
  Slots,       \* the places on the screen stack whose effects make calls
  RuntimeEnv   \* the EXPO_PUBLIC_CHARKHOONE_* values of the build

ASSUME SessionAssumption ==
  /\ MaxTokens \in Nat \ {0}
  /\ RefreshIssued \subseteq BOOLEAN /\ Rotating \in BOOLEAN
  /\ Slots \subseteq Nat \ {0}

VARIABLES
  status,      \* status of the provider, "closed" while it is not mounted
  token,       \* the token in React state
  discovery,   \* the discovery document, "unconfigured" without a runtime config
  restoring,   \* the effect that reads SecureStore has not finished
  prompting,   \* promptAsync is open
  dirty,       \* slots whose effects must run again
  store,       \* the token in SecureStore
  calls,       \* asynchronous calls under way
  issued,      \* number of token responses given out
  expired,     \* tokens whose access token is no longer fresh
  spent        \* tokens whose refresh token the provider no longer accepts

context == <<status, token, discovery>>
device == <<store, issued, expired, spent>>
sessionVars == <<context, restoring, prompting, dirty, calls, device>>

Token == [user : Users, no : 1 .. MaxTokens, refresh : BOOLEAN]
NoToken == [no |-> 0]
Nothing == [none |-> TRUE]
Nobody == 0
TheProvider == -1

(* runtimeConfig.ts: the build's URLs by what requireUrl tells apart          *)
UrlKinds == {"missing", "unparsable", "https", "localhost", "http", "decorated", "path"}
RequireUrl(kind, originOnly, development) ==
  \/ kind = "https"
  \/ kind = "localhost" /\ development
  \/ kind = "path" /\ ~originOnly
RuntimeConfigured ==
  /\ RuntimeEnv.clientId /\ RuntimeEnv.audience # "too long"
  /\ RequireUrl(RuntimeEnv.api, TRUE, RuntimeEnv.development)
  /\ RequireUrl(RuntimeEnv.issuer, FALSE, RuntimeEnv.development)

Call == [by : Slots \cup {Nobody, TheProvider},
         goal : {"activate", "read", "plans", "select", "signIn", "signOut"},
         about : Payloads \cup {Nothing},
         phase : {"fetch", "answer", "refresh", "exchange", "save", "clear"},
         token : Token \cup {NoToken}, disc : BOOLEAN,
         new : Token \cup {NoToken}]

SessionTypeOK ==
  /\ status \in {"loading", "authenticated", "unauthenticated", "config-error", "closed"}
  /\ token \in Token \cup {NoToken} /\ store \in Token \cup {NoToken}
  /\ discovery \in {"pending", "loaded", "failed", "unconfigured"}
  /\ restoring \in BOOLEAN /\ prompting \in BOOLEAN
  /\ dirty \subseteq Slots /\ calls \subseteq Call
  /\ issued \in 0 .. MaxTokens
  /\ expired \subseteq Token /\ spent \subseteq Token

SignedOut == status \in {"unauthenticated", "config-error"}

\* A state update of the provider. The effects of every screen depend on the
\* context value and run again when it changes.
SetContext(s, t, d) ==
  /\ status' = s /\ token' = t /\ discovery' = d
  /\ dirty' = IF <<s, t, d>> = context THEN dirty ELSE Slots
KeepContext == UNCHANGED <<context, dirty>>

\* The provider mounts; without a valid runtime configuration it gives up.
Mounts ==
  /\ discovery' = IF RuntimeConfigured THEN "pending" ELSE "unconfigured"
  /\ status' = IF RuntimeConfigured THEN "loading" ELSE "config-error"
  /\ token' = NoToken
  /\ restoring' = RuntimeConfigured
  /\ prompting' = FALSE
  /\ dirty' = Slots

Orphaned(cs, gone) == {[c EXCEPT !.by = IF @ \in gone THEN Nobody ELSE @] : c \in cs}

\* The exchange of an earlier response is cleaned up; a token being stored stays.
WithoutExchange(cs) ==
  Orphaned({c \in cs : c.phase # "exchange"}, {TheProvider})

\* The provider unmounts. Bound: with no call under way, so that no call of an
\* unmounted provider is left.
Unmounts ==
  /\ calls = {} /\ UNCHANGED calls
  /\ status' = "closed" /\ token' = NoToken /\ discovery' = "pending"
  /\ restoring' = FALSE /\ prompting' = FALSE /\ dirty' = {}

(* getFreshAccessToken, evaluated synchronously up to its first await.        *)
FreshAccess(c) ==
  IF c.token \notin expired THEN [c EXCEPT !.phase = "fetch"]
  ELSE IF c.token.refresh /\ c.disc THEN [c EXCEPT !.phase = "refresh"]
  ELSE [c EXCEPT !.phase = "clear"]

NewCall(by, goal, about, phase) ==
  [by |-> by, goal |-> goal, about |-> about, phase |-> phase, token |-> token,
   disc |-> (discovery = "loaded"), new |-> NoToken]

ApiCall(by, goal, about) == FreshAccess(NewCall(by, goal, about, "fetch"))

Storing(c, t) == [c EXCEPT !.phase = "save", !.new = t]
Clearing(c) == [c EXCEPT !.phase = "clear", !.new = NoToken]
Fetching(c) == [c EXCEPT !.phase = "fetch", !.new = NoToken]

Becomes(c, next) == calls' = (calls \ {c}) \cup next

(* Startup effects of the provider                                            *)
DiscoveryLoads ==
  /\ status # "closed" /\ discovery = "pending"
  /\ SetContext(status, token, "loaded")
  /\ UNCHANGED <<restoring, prompting, calls, device>>

DiscoveryFails ==
  /\ status # "closed" /\ discovery = "pending"
  /\ SetContext("config-error", token, "failed")
  /\ UNCHANGED <<restoring, prompting, calls, device>>

RestoreFinds ==
  /\ restoring /\ store # NoToken
  /\ store \notin expired \/ store.refresh
  /\ restoring' = FALSE
  /\ SetContext("authenticated", store, discovery)
  /\ UNCHANGED <<prompting, calls, device>>

RestoreDiscards ==
  /\ restoring /\ store # NoToken
  /\ store \in expired /\ ~store.refresh
  /\ restoring' = FALSE /\ store' = NoToken
  /\ SetContext("unauthenticated", token, discovery)
  /\ UNCHANGED <<prompting, calls, issued, expired, spent>>

\* Nothing is stored, or SecureStore cannot be read.
RestoreFindsNothing ==
  /\ restoring
  /\ restoring' = FALSE
  /\ SetContext("unauthenticated", token, discovery)
  /\ UNCHANGED <<prompting, calls, device>>

(* Signing in: the prompt, its response, and the exchange of the code. Any     *)
(* response, that of a dismissed prompt too, cleans up the effect that         *)
(* exchanges the code of an earlier one.                                       *)
PromptEnds ==
  /\ prompting /\ prompting' = FALSE
  /\ UNCHANGED <<restoring, device>>
  /\ \/ KeepContext /\ calls' = WithoutExchange(calls)
     \/ /\ SetContext("unauthenticated", token, discovery)
        /\ calls' = WithoutExchange(calls)
     \/ /\ SetContext("loading", token, discovery)
        /\ calls' = WithoutExchange(calls) \cup
                    {NewCall(TheProvider, "signIn", Nothing, "exchange")}

NewTokens(u) == {t \in Token : t.user = u /\ t.no = issued + 1 /\ t.refresh \in RefreshIssued}

ExchangeAnswered(c) ==
  /\ c.phase = "exchange"
  /\ issued < MaxTokens /\ issued' = issued + 1
  /\ \E u \in Users : \E t \in NewTokens(u) : Becomes(c, {Storing(c, t)})
  /\ UNCHANGED <<context, dirty, restoring, prompting, store, expired, spent>>

\* A plausible bug: a failed exchange leaves the status as it is.
ExchangeRefusedSilently(c) ==
  /\ c.phase = "exchange"
  /\ KeepContext
  /\ Becomes(c, {})
  /\ UNCHANGED <<restoring, prompting, device>>

ExchangeRefused(c) ==
  /\ c.phase = "exchange"
  /\ SetContext("unauthenticated", token, discovery)
  /\ Becomes(c, {})
  /\ UNCHANGED <<restoring, prompting, device>>

(* Refreshing                                                                 *)
RefreshAnswered(c) ==
  /\ c.phase = "refresh" /\ c.token \notin spent
  /\ issued < MaxTokens /\ issued' = issued + 1
  /\ \E t \in NewTokens(c.token.user) :
        t.refresh /\ Becomes(c, {Storing(c, t)})
  /\ spent' = IF Rotating THEN spent \cup {c.token} ELSE spent
  /\ UNCHANGED <<context, dirty, restoring, prompting, store, expired>>

RefreshRefused(c) ==
  /\ c.phase = "refresh"
  /\ Becomes(c, {Clearing(c)})
  /\ UNCHANGED <<context, dirty, restoring, prompting, device>>

(* persistToken: SecureStore first, then the state                            *)
SaveFinishes(c) ==
  /\ c.phase = "save"
  /\ store' = c.new
  /\ SetContext("authenticated", c.new, discovery)
  /\ Becomes(c, IF c.goal = "signIn" THEN {} ELSE {Fetching(c)})
  /\ UNCHANGED <<restoring, prompting, issued, expired, spent>>

SaveFails(c) ==
  /\ c.phase = "save"
  /\ IF c.goal = "signIn"
       THEN /\ Becomes(c, {})
            /\ IF c.by = TheProvider THEN SetContext("unauthenticated", token, discovery) ELSE KeepContext
       ELSE Becomes(c, {Clearing(c)}) /\ KeepContext
  /\ UNCHANGED <<restoring, prompting, device>>

(* clearToken: SecureStore first, then the state; the caller then fails, or,  *)
(* when it signs out, goes on to the login screen (see MobileApp)             *)
Clears(c) ==
  /\ c.phase = "clear"
  /\ store' = NoToken
  /\ SetContext("unauthenticated", NoToken, discovery)
  /\ UNCHANGED <<restoring, prompting, issued, expired, spent>>

SessionEnds(c) == c.goal # "signOut" /\ Clears(c) /\ Becomes(c, {})

ClearFails(c) ==
  /\ c.phase = "clear"
  /\ Becomes(c, {})
  /\ UNCHANGED <<context, dirty, restoring, prompting, device>>

(* apiRequest: 401 clears the session, any other failure is the caller's      *)
FetchUnauthorized(c) ==
  /\ c.phase = "fetch"
  /\ Becomes(c, {Clearing(c)})
  /\ UNCHANGED <<context, dirty, restoring, prompting, device>>

FetchFails(c) ==
  /\ c.phase = "fetch"
  /\ Becomes(c, {})
  /\ UNCHANGED <<context, dirty, restoring, prompting, device>>

\* An access token runs out.
Expires(t) ==
  /\ t \notin expired
  /\ expired' = expired \cup {t}
  /\ UNCHANGED <<context, dirty, restoring, prompting, calls, store, issued, spent>>

CallAdvances(c) ==
  \/ ExchangeAnswered(c) \/ ExchangeRefused(c)
  \/ RefreshAnswered(c) \/ RefreshRefused(c)
  \/ SaveFinishes(c) \/ SaveFails(c) \/ SessionEnds(c) \/ ClearFails(c)
  \/ FetchUnauthorized(c) \/ FetchFails(c)

Restores == RestoreFinds \/ RestoreDiscards \/ RestoreFindsNothing

SessionStep ==
  \/ DiscoveryLoads \/ DiscoveryFails
  \/ Restores
  \/ PromptEnds
  \/ \E t \in {token, store} \ {NoToken} : Expires(t)
============================================================================
