------------------------------ MODULE MCChatRun ------------------------------
EXTENDS ChatRun, TLC

CONSTANTS h1, h2

Interchangeable == Permutations(Requests)
=============================================================================
