----------------------------- MODULE MCScanSync -----------------------------
(* Small instances of ScanSync for TLC. *)
EXTENDS ScanSync, TLC

CONSTANTS f1, f2, p1, p2, go, py, modA, modB

\* Two files of two languages, and two of one language.
TwoLanguages == f1 :> go @@ f2 :> py
OneLanguage == [f \in Files |-> go]

Interchangeable == Permutations(Procs)
=============================================================================
