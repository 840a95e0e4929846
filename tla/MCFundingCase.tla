---- MODULE MCFundingCase ----
EXTENDS FundingCaseProofs
CONSTANTS r1, r2
MCRequests == {r1, r2}
====
