----------------------------- MODULE MCFirewall -----------------------------
EXTENDS Firewall, TLC

\* Users, keys and access lists are interchangeable.
Symmetry == Permutations(Users) \cup Permutations(Keys) \cup Permutations(Addresses)
=============================================================================
