--------------------------- MODULE MCFirewallSync ---------------------------
EXTENDS FirewallSync

\* Users, keys and access lists are interchangeable: Init names one of each,
\* whichever it is, and a choice among addresses never arises with only one.
Symmetry == Permutations(Users) \cup Permutations(Keys) \cup Permutations(Acls)
=============================================================================
