----------------------- MODULE MCCancellationSettlement -----------------------
EXTENDS CancellationSettlement, TLC

SameAmount == [i \in Instruction |-> 100]

WorkerSymmetry == Permutations(Workers)
=============================================================================
