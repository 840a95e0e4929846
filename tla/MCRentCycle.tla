---------------------------- MODULE MCRentCycle ----------------------------
EXTENDS RentCycle, TLC

\* Three months can all be missed in a row; the first of them has two
\* components, the others owe the owner only. Nothing tells the two callers
\* apart.
TwoKinds == {1, 2}
OnlyFirstMonthHasInterest == {<<m, 2>> : m \in Month \ {1}}
ReplicaSymmetry == Permutations(Callers) \cup Permutations(Workers)
=============================================================================
