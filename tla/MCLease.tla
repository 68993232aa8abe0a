------------------------------ MODULE MCLease ------------------------------
EXTENDS Lease, TLC

CONSTANTS p1, p2, s1

\* all share a session
Paired == [p \in Procs |-> s1]

Symmetry == Permutations(Tokens)
=============================================================================
