---------------------------- MODULE MCTransients ----------------------------
EXTENDS Transients, TLC

CONSTANTS a, b, c0, c1, c2, r0, r1, s1, s2, h1, h2

Interchangeable == Permutations(Reporters) \cup Permutations(Scanners)

\* Bound: how often the agent is shown one pair (two readers can pass one
\* transient to and fro for ever).
ShownAtMostTwice == \A x \in Pairs : Len(printed[x]) <= 2
=============================================================================
