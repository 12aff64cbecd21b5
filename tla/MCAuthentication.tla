-------------------------- MODULE MCAuthentication --------------------------
EXTENDS Authentication, TLC

\* Requests and secrets are interchangeable: nothing orders or names them.
Symmetry == Permutations(Sessions) \cup Permutations(Mfas)
=============================================================================
