---------------------------- MODULE MCSettlement ----------------------------
\* Model checking of Settlement: account holders are interchangeable.
EXTENDS Settlement, TLC

AccountSymmetry == Permutations(Accounts)

=============================================================================
