------------------------------ MODULE LockFile ------------------------------
(***************************************************************************)
(* The lock of a small bookkeeping file: withPendingLock for the queue of  *)
(* transient warnings, withWarnStateLock for the ledger of the guard.      *)
(*                                                                         *)
(* The lock is a file created with O_EXCL.  Who finds it there polls; after *)
(* three seconds he goes in without it, and a file older than fifteen      *)
(* seconds is taken to belong to a process that died, and is removed.  To  *)
(* look at the file and to remove it are two steps, and removing removes   *)
(* whatever file is there by then.                                         *)
(***************************************************************************)
EXTENDS Naturals

CONSTANTS
    Procs,       \* the processes that want the lock
    Doings,      \* what may happen, a subset of Happenings
    MaxFaults     \* bound: number of faults: processes killed, failed reads

\* slow: a section lasts longer than the limits of the lock.
\* kill: a process dies.
\* unreadable: the database cannot be read.
\* readonly: the directory takes no new file and gives none up.
\* sealed: the file the lock is for cannot be read.
Happenings == {"slow", "kill", "unreadable", "readonly", "sealed"}

ASSUME LockFileAssumption ==
    /\ Doings \subseteq Happenings
    /\ MaxFaults \in Nat

VARIABLES
    lockFile,    \* the lock file: not there, young, or older than the stale limit
    at,          \* [Procs -> Steps]
    holders,     \* the processes that will remove the lock file when they leave
    intruded,    \* the processes in a section that overlaps, or overlapped, another
                 \* one; history
    faults

lockVars == <<lockFile, at, holders, intruded, faults>>

-----------------------------------------------------------------------------
Inside == {"table", "record", "write", "leave"}
Steps == {"out", "wait", "remove", "print"} \cup Inside
Occupants == {p \in Procs : at[p] \in Inside}

LockTypeOK ==
    /\ lockFile \in {"absent", "young", "stale"}
    /\ at \in [Procs -> Steps]
    /\ holders \subseteq Occupants
    /\ intruded \subseteq Occupants
    /\ faults \in Nat

\* An earlier session may have left its lock file behind.
LockInit ==
    /\ lockFile \in {"absent", "young", "stale"}
    /\ at = [p \in Procs |-> "out"]
    /\ holders = {}
    /\ intruded = {}
    /\ faults = 0

Go(p, step) == at' = [at EXCEPT ![p] = step]
Occupied == Occupants # {}

Enter(p) ==
    /\ Go(p, "table")
    /\ intruded' = IF Occupied THEN Occupants \cup {p} ELSE {}

\* The lock file is created, and the section begins.
Create(p) ==
    /\ at[p] = "wait"
    /\ lockFile = "absent"
    /\ "readonly" \notin Doings
    /\ lockFile' = "young"
    /\ holders' = holders \cup {p}
    /\ Enter(p)
    /\ UNCHANGED faults

\* The directory takes no lock file, or three seconds are over: the section
\* begins without the lock.  It takes a slow section, or a dead one, to wait
\* that long.
GoUnlocked(p) ==
    /\ at[p] = "wait"
    /\ \/ lockFile = "absent" /\ "readonly" \in Doings
       \/ lockFile = "young" /\ ("slow" \in Doings \/ ~Occupied)
    /\ Enter(p)
    /\ UNCHANGED <<lockFile, holders, faults>>

\* The lock file is found to be stale ...
FindStale(p) ==
    /\ at[p] = "wait"
    /\ lockFile = "stale"
    /\ Go(p, "remove")
    /\ UNCHANGED <<lockFile, holders, intruded, faults>>

\* ... and the file that is there now is removed; then the loop starts over.
RemoveStale(p) ==
    /\ at[p] = "remove"
    /\ lockFile' = IF "readonly" \in Doings THEN lockFile ELSE "absent"
    /\ Go(p, "wait")
    /\ UNCHANGED <<holders, intruded, faults>>

TryLock(p) == Create(p) \/ GoUnlocked(p) \/ FindStale(p) \/ RemoveStale(p)

\* The deferred removal, and on to the next step.
Unlock(p, next) ==
    /\ at[p] = "leave"
    /\ lockFile' = IF p \in holders /\ "readonly" \notin Doings THEN "absent" ELSE lockFile
    /\ holders' = holders \ {p}
    /\ intruded' = intruded \ {p}
    /\ Go(p, next)
    /\ UNCHANGED faults

\* Time passes over a lock file nobody removes.
Age ==
    /\ lockFile = "young"
    /\ "slow" \in Doings \/ ~Occupied
    /\ lockFile' = "stale"
    /\ UNCHANGED <<at, holders, intruded, faults>>

\* A process dies, and leaves its lock file behind.
Die(p) ==
    /\ "kill" \in Doings
    /\ faults < MaxFaults
    /\ faults' = faults + 1
    /\ at[p] # "out"
    /\ Go(p, "out")
    /\ holders' = holders \ {p}
    /\ intruded' = intruded \ {p}
    /\ UNCHANGED lockFile
=============================================================================
