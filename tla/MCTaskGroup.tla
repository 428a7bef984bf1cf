----------------------------- MODULE MCTaskGroup -----------------------------
EXTENDS TaskGroup

CONSTANTS t1, t2, r1, r2, w1, w2
=============================================================================
