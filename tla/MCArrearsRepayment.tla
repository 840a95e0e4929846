-------------------------- MODULE MCArrearsRepayment --------------------------
EXTENDS ArrearsRepayment, TLC

AmountByMonth == [i \in Instruction |-> 100 * i[1]]

RepaymentSymmetry == Permutations(Attempts) \cup Permutations(Requests)
=============================================================================
