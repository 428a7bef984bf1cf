----------------------------- MODULE FreshIndex -----------------------------
(***************************************************************************)
(* What a reader of the index is promised, with no scan, lock or manifest  *)
(* in sight.  The tree changes; now and then the index is republished.     *)
(* The files the index VOUCHES for -- those a read serves without looking  *)
(* at them again -- are served with exactly the content on disk, or their  *)
(* failure is noted; a change withdraws the vouching at once; and no       *)
(* publication takes a file back to older content.                         *)
(***************************************************************************)
EXTENDS Naturals

CONSTANT Files

VARIABLES
    disk,       \* [Files -> Nat]: the content of each file, 0 for none
    served,     \* [Files -> Nat]: the content the index was built from
    noted,      \* the files whose failure the index records
    vouched     \* the files the index calls current

freshVars == <<disk, served, noted, vouched>>

FreshInit ==
    /\ disk = [f \in Files |-> 0]
    /\ served = disk
    /\ noted = {}
    /\ vouched = {}

\* A file is saved, with content it never had, or removed.
Change(f) ==
    /\ disk' # disk
    /\ disk' = [disk EXCEPT ![f] = disk'[f]]
    /\ vouched' = vouched \ {f}
    /\ UNCHANGED <<served, noted>>

\* A scan publishes: any files, but none of them older than before, and
\* nothing vouched for that is not served as it is on disk.
Publish ==
    /\ disk' = disk
    /\ \A f \in Files : served'[f] = 0 \/ served'[f] >= served[f]
    /\ \A f \in vouched' : served'[f] = disk[f] \/ f \in noted'

FreshNext == Publish \/ \E f \in Files : Change(f)

FreshSpec == FreshInit /\ [][FreshNext]_freshVars
=============================================================================
