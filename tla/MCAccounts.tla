----------------------------- MODULE MCAccounts -----------------------------
EXTENDS Accounts, TLC

CONSTANTS p1, p2, p3, p4, ann, bob

Symmetry == Permutations(Requests) \cup Permutations(Emails)
=============================================================================
