----------------------------- MODULE MCLazyFill -----------------------------
EXTENDS LazyFill

CONSTANTS server, shell, r1, r2, r3, n1, v1, v2

\* Two reads of a server overlap with a command of its own process.
TwoAndOne == [r \in Reads |-> IF r = r3 THEN shell ELSE server]
=============================================================================
