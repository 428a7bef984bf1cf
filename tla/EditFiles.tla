------------------------------ MODULE EditFiles ------------------------------
(***************************************************************************)
(* The edit and write tools.  A call holds the lock of every path it names *)
(* twice over: a mutex of its process (TopologyManager.WithFileLock) and a *)
(* lock that other processes see (helper.WithPathLock).  An edit call then *)
(* resolves all its edits in memory, writes its files one after the other  *)
(* and, with only the mutexes held, has the topology read them again.      *)
(*                                                                         *)
(* A file is abstracted to SPOTS, and the text at each: an edit replaces   *)
(* the text of one spot, which it must find there; a write replaces all.   *)
(***************************************************************************)
EXTENDS Naturals, Sequences, SequencesExt

CONSTANTS
    Calls,      \* the calls of the two tools, numbered from 1
    Processes,  \* `arac edit` is one for each call; a chat server has many in one
    Paths,      \* absolute paths, numbered in their order
    Files,
    FileAt,     \* [Paths -> Files]: a symbolic link gives a file a second path
    Spots,
    Batches,    \* the sequences of <<path, spot>> that an edit call may name
    MaxFaults   \* bound: kills, locks that cannot be taken, writes and updates
                \* that fail

Jobs == Paths \cup Batches

ASSUME EditFilesAssumption ==
    /\ Calls \subseteq Nat \ {0} /\ Paths \subseteq Nat
    /\ FileAt \in [Paths -> Files]
    /\ Batches \subseteq Seq(Paths \X Spots) \ {<<>>}
    /\ MaxFaults \in Nat

VARIABLES
    process,    \* [Calls -> Processes]: where each call is made; never changes
    disk,       \* [Files -> Content]
    call,       \* [Calls -> Call]
    unlocked,   \* the calls that went on without a lock they could not take; history
    faults

vars == <<process, disk, call, unlocked, faults>>

-----------------------------------------------------------------------------
\* A text is named for the call that wrote it; 0 is what was there at first.
Text == Calls \cup {0}
Content == [Spots -> Text]
Unread == [s \in {} |-> 0]

Steps == {"idle", "mutex", "lock", "resolve", "commit", "sync", "syncing", "over"}

\* edits: the batch, each edit <<path, spot, text to find>>.  order: the paths to write,
\* and then to sync.  next: where the loop over either is.  toLock: the paths still to lock.
\* pending: the content the call makes of each path.
Call == [at: Steps, mutexes: SUBSET Paths, locks: SUBSET Paths,
         edits: Seq(Paths \X Spots \X Text), next: Nat, toLock: SUBSET Paths, order: Seq(Paths),
         pending: [Paths -> Content \cup {Unread}]]

Fresh == [at |-> "idle", mutexes |-> {}, locks |-> {}, edits |-> <<>>,
          next |-> 1, toLock |-> {}, order |-> <<>>, pending |-> [n \in Paths |-> Unread]]

Over(c) == call[c].at = "over"

TypeOK ==
    /\ process \in [Calls -> Processes]
    /\ disk \in [Files -> Content]
    /\ call \in [Calls -> Call]
    /\ unlocked \subseteq Calls
    /\ faults \in 0 .. MaxFaults
    /\ \A c \in Calls : Over(c) => call[c].mutexes \cup call[c].locks = {}

Init ==
    /\ process \in [Calls -> Processes]
    /\ disk = [f \in Files |-> [s \in Spots |-> 0]]
    /\ call = [c \in Calls |-> Fresh]
    /\ unlocked = {} /\ faults = 0

-----------------------------------------------------------------------------
Become(c, new) == call' = [call EXCEPT ![c] = new]
At(c, step) == call[c].at = step
LastOf(c) == call[c].next = Len(call[c].order)
Fault == faults < MaxFaults /\ faults' = faults + 1

\* Whatever way a call ends, with a summary or an error, its deferred unlocks run.
\* (Operators named for a slip -- AnsweredHolding, NextAsNamed, LockFreeInProcess -- are
\* variants of the next one that the checked properties must reject.)
AnsweredHolding(c) == [Fresh EXCEPT !.at = "over", !.locks = call[c].locks]
Answered(c) == [Fresh EXCEPT !.at = "over"]

\* distinctPaths: the paths are locked in their order, not as they are named.
NextAsNamed(c) ==
    LET edits == call[c].edits
        left == {i \in DOMAIN edits : edits[i][1] \in call[c].toLock}
    IN IF left = {} THEN Min(call[c].toLock) ELSE edits[Min(left)][1]
NextToLock(c) == Min(call[c].toLock)

\* Run, of either tool.  The text an edit looks for is one its caller has read:
\* what the spot says now or what it said at first, or, after an edit of the same
\* spot, what that one put there.
Edit(c) ==
    /\ At(c, "idle")
    /\ \E batch \in Batches :
         \E find \in [DOMAIN batch -> Text] :
           /\ \A i \in DOMAIN batch :
                find[i] \in IF batch[i] \in Range(SubSeq(batch, 1, i - 1)) THEN {c}
                            ELSE {0, disk[FileAt[batch[i][1]]][batch[i][2]]}
           /\ LET edits == [i \in DOMAIN batch |-> <<batch[i][1], batch[i][2], find[i]>>]
              IN Become(c, [Fresh EXCEPT !.at = "mutex", !.edits = edits,
                              !.toLock = {edits[i][1] : i \in DOMAIN edits}])
    /\ UNCHANGED <<process, disk, unlocked, faults>>

Write(c) ==
    /\ At(c, "idle")
    /\ \E n \in Paths :
         Become(c, [Fresh EXCEPT !.at = "mutex", !.toLock = {n}, !.order = <<n>>,
                                 !.pending[n] = [s \in Spots |-> c]])
    /\ UNCHANGED <<process, disk, unlocked, faults>>

\* WithFileLock.
MutexFree(c, n) ==
    \A d \in Calls \ {c} : process[d] = process[c] => n \notin call[d].mutexes

TakeMutex(c) ==
    /\ At(c, "mutex")
    /\ LET n == NextToLock(c)
           rest == call[c].toLock \ {n}
           held == call[c].mutexes \cup {n}
           all == rest = {}
       IN /\ MutexFree(c, n)
          /\ Become(c, [call[c] EXCEPT
               !.mutexes = held,
               !.at = IF all THEN "lock" ELSE "mutex",
               !.toLock = IF all THEN held ELSE rest])
    /\ UNCHANGED <<process, disk, unlocked, faults>>

\* WithPathLock, which goes on without a lock that cannot be taken.
LockFreeInProcess(c, n) ==
    \A d \in Calls \ {c} : process[d] = process[c] => n \notin call[d].locks
LockFree(c, n) == \A d \in Calls \ {c} : n \notin call[d].locks

Locked(c, got) ==
    LET rest == call[c].toLock \ {NextToLock(c)}
        next == IF call[c].edits # <<>> THEN "resolve" ELSE "commit"
    IN [call[c] EXCEPT !.locks = @ \cup got, !.toLock = rest,
                       !.at = IF rest = {} THEN next ELSE "lock"]

TakeLock(c) ==
    /\ At(c, "lock")
    /\ LET n == NextToLock(c)
       IN /\ LockFree(c, n)
          /\ Become(c, Locked(c, {n}))
    /\ UNCHANGED <<process, disk, unlocked, faults>>

GoUnlocked(c) ==
    /\ At(c, "lock")
    /\ Become(c, Locked(c, {}))
    /\ unlocked' = unlocked \cup {c}
    /\ Fault
    /\ UNCHANGED <<process, disk>>

\* One turn of resolveAndCommit's first loop.
Resolve(c) ==
    /\ At(c, "resolve")
    /\ LET i == call[c].next
           e == call[c].edits[i]
           n == e[1]
           last == i = Len(call[c].edits)
           loaded == call[c].pending[n] # Unread
           content == IF loaded THEN call[c].pending[n] ELSE disk[FileAt[n]]
       IN Become(c, IF content[e[2]] # e[3] THEN Answered(c)
                    ELSE [call[c] EXCEPT
                            !.next = IF last THEN 1 ELSE i + 1,
                            !.at = IF last THEN "commit" ELSE "resolve",
                            !.order = IF loaded THEN @ ELSE Append(@, n),
                            !.pending[n] = [content EXCEPT ![e[2]] = c]])
    /\ UNCHANGED <<process, disk, unlocked, faults>>

\* One turn of its second loop; and Write's.  After the last, the path locks go.
Commit(c) ==
    /\ At(c, "commit")
    /\ LET n == call[c].order[call[c].next]
       IN disk' = [disk EXCEPT ![FileAt[n]] = call[c].pending[n]]
    /\ Become(c, IF LastOf(c) THEN [call[c] EXCEPT !.at = "sync", !.next = 1, !.locks = {}]
                 ELSE [call[c] EXCEPT !.next = @ + 1])
    /\ UNCHANGED <<process, unlocked, faults>>

WriteFails(c) ==
    /\ At(c, "commit")
    /\ Become(c, Answered(c))
    /\ Fault
    /\ UNCHANGED <<process, disk, unlocked>>

\* UpdateFile of one path, under the topology lock.
BeginSync(c) ==
    /\ At(c, "sync")
    /\ \A d \in Calls : ~At(d, "syncing")
    /\ Become(c, [call[c] EXCEPT !.at = "syncing"])
    /\ UNCHANGED <<process, disk, unlocked, faults>>

EndSync(c) ==
    /\ At(c, "syncing")
    /\ Become(c, IF LastOf(c) THEN Answered(c)
                 ELSE [call[c] EXCEPT !.at = "sync", !.next = @ + 1])
    /\ UNCHANGED <<process, disk, unlocked, faults>>

SyncFails(c) ==
    /\ At(c, "syncing")
    /\ Become(c, Answered(c))
    /\ Fault
    /\ UNCHANGED <<process, disk, unlocked>>

\* The kernel releases the locks of a process that dies.
Kill(p) ==
    /\ \E c \in Calls : process[c] = p /\ ~At(c, "idle") /\ ~Over(c)
    /\ call' = [c \in Calls |->
                  IF process[c] = p /\ ~At(c, "idle") /\ ~Over(c)
                  THEN Answered(c) ELSE call[c]]
    /\ Fault
    /\ UNCHANGED <<process, disk, unlocked>>

-----------------------------------------------------------------------------
Goes(c) ==
    \/ TakeMutex(c) \/ TakeLock(c) \/ Resolve(c) \/ Commit(c)
    \/ BeginSync(c) \/ EndSync(c)
Fails(c) == GoUnlocked(c) \/ WriteFails(c) \/ SyncFails(c)

Finished == (\A c \in Calls : Over(c)) /\ UNCHANGED vars

Next ==
    \/ \E c \in Calls : Edit(c) \/ Write(c) \/ Goes(c) \/ Fails(c)
    \/ \E p \in Processes : Kill(p)
    \/ Finished

Spec == Init /\ [][Next]_vars

\* A call that can go on does: locks are given up, files are read and written.
FairSpec == Spec /\ \A c \in Calls : WF_vars(Goes(c))

-----------------------------------------------------------------------------
(* What has to hold.                                                       *)

\* Only the mutexes keep apart calls that found no other lock.
Shared == \A c, d \in Calls : process[c] = process[d]

\* What call c makes of a file at path n, if nothing but its own edits were to change
\* in it, and they were to find their texts there.
Intended(c, n, old, new) ==
    \A s \in Spots :
      LET edits == call[c].edits
          mine == {i \in DOMAIN edits : edits[i][1] = n /\ edits[i][2] = s}
      IN IF edits = <<>> THEN new[s] = c
         ELSE IF mine = {} THEN new[s] = old[s]
         ELSE /\ \E i \in mine : (\A j \in mine : i <= j) /\ old[s] = edits[i][3]
              /\ new[s] = c

\* No call undoes what another has written, or writes over text it has not found:
\* a file it writes changes at the spots it edits, and nowhere else (withFileLocks,
\* WithPathLock, resolveAndCommit, Write.apply).  A lock that could not be taken
\* excuses calls of different processes only.
NothingLost ==
    [][\A c \in Calls :
         At(c, "commit") /\ disk' # disk /\ call'[c] # call[c] /\ (unlocked = {} \/ Shared) =>
           LET n == call[c].order[call[c].next]
           IN Intended(c, n, disk[FileAt[n]], disk'[FileAt[n]])]_vars

\* Every call is answered: no two of them wait for each other (distinctPaths,
\* WithPathLock, and the topology lock inside WithFileLock).
EveryCallReturns ==
    \A c \in Calls : call[c].at # "idle" ~> Over(c)
=============================================================================
