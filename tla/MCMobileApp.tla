----------------------------- MODULE MCMobileApp -----------------------------
(* Instances of MobileApp for TLC: every screen with one token, and the        *)
(* session with two tokens on a few screens.                                   *)
EXTENDS MobileApp

CONSTANTS u1, u2, p1, p2

MCUsers == {u1}
MCApplicants == {u1, u2}
MCPlans == {p1, p2}
MCPayloads == [owner : MCApplicants, plan : MCPlans \cup {"no plan"}]
MCSlots == 1 .. MaxDepth
MCBuild == [clientId |-> TRUE, audience |-> "none", api |-> "https", issuer |-> "path",
            development |-> FALSE]

AllScreens == Screens
AllLinks == {"login", "plans", "profile", "contracts", "legacy"}
EitherWay == BOOLEAN

HomeOnly == {"home"}
ProfileLink == {"profile"}
AlwaysRefresh == {TRUE}

SignOutToo == {"home", "signOut"}
=============================================================================
