---------------------------- MODULE MCWarnLedger ----------------------------
EXTENDS WarnLedger, TLC

CONSTANTS h1, h2, h3, w1, w2

\* There is a ledger from the start.
SpecWithLedger == Init /\ record # {} /\ [][Next]_vars
=============================================================================
