---------------------------- MODULE MCRegistration ----------------------------
EXTENDS Registration, TLC

CONSTANTS u1, u2, t1, t2

Token(u, n) == [user |-> u, groups |-> FALSE, uses |-> n]

\* A token of one use for each user: 0 and 1 both mean that.
TokenEach == {t1 :> Token(u1, 0) @@ t2 :> Token(u2, 1)}
=============================================================================
