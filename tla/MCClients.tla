------------------------------- MODULE MCClients -------------------------------
EXTENDS Clients, TLC

CONSTANTS r1, r2, i1, i2, i3, t1, t2, n1, n2, u1, u2

MCRequests == {r1, r2}
MCItems == {i1, i2, i3}
MCTabs == {t1, t2}
MCNewcomers == {n1, n2}
MCManaged == {u1, u2}
\* Tabs and new users are told apart by nothing. (Listed users are, by the CHOOSE that
\* fills the record of a closed tab.)
Symmetric == Permutations(MCTabs) \cup Permutations(MCNewcomers)
================================================================================
