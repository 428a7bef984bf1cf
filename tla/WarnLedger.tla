----------------------------- MODULE WarnLedger -----------------------------
(***************************************************************************)
(* The guard's ledger: which stored warnings the agent has been shown.     *)
(*                                                                         *)
(* A hook is a process of its own, one before and one after each tool call *)
(* of the agent, and parallel calls have parallel hooks.  The hook before  *)
(* SEEDS the ledger: with everything the table holds when there is none    *)
(* yet, and else it drops what the table no longer holds.  The hook after  *)
(* REPORTS what is in the table and not in the ledger, and the ledger      *)
(* becomes the table.  Both read the table, read the ledger and write the  *)
(* ledger, three steps in a section of the lock of LockFile.  The table    *)
(* belongs to the scans, which take another lock.                          *)
(*                                                                         *)
(* What hooks promise is said by history.  `owed` is the duty of the       *)
(* ledger: the warnings no report took in hand since a visit last found    *)
(* them gone.  `untold` is what the agent sees: those he was shown no      *)
(* report of since then.  Between the two are the reports laid out, and    *)
(* those `lost`, as their hook died with them.  `blurred` are the warnings *)
(* of which the ledger may be wrong, as two sections overlapped.           *)
(***************************************************************************)
EXTENDS LockFile

CONSTANTS
    Warnings,    \* the ids of warnings
    MaxScans     \* bound: number of scans that change the table

ASSUME WarnLedgerAssumption == MaxScans \in Nat

VARIABLES
    table,     \* the ids in the warnings table
    record,    \* guard-reported-warnings.json: {} or {what it lists}
    visit,     \* [Procs -> Visit]: what a hook does and has read
    owed, untold, lost, blurred,    \* see above; history
    scans

histories == <<owed, untold, lost, blurred>>
ledgerVars == <<table, record, visit, histories, scans>>
vars == <<lockVars, ledgerVars>>

-----------------------------------------------------------------------------
Record == {{}} \cup {{ids} : ids \in SUBSET Warnings}
Known(r) == UNION r
Tasks == {"seed", "report"}

\* ids: the table as read.  seen: the ledger as read.  hand: what to report.
\* gone: what the table did not hold, and was not reported since; history.
Visit == [task: Tasks \cup {"idle"}, ids: SUBSET Warnings, seen: Record, hand: SUBSET Warnings,
          gone: SUBSET Warnings]
Fresh(task) == [task |-> task, ids |-> {}, seen |-> {}, hand |-> {}, gone |-> {}]

TypeOK ==
    /\ LockTypeOK
    /\ table \subseteq Warnings
    /\ record \in Record
    /\ visit \in [Procs -> Visit]
    /\ owed \subseteq untold /\ untold \subseteq Warnings
    /\ lost \subseteq Warnings /\ blurred \subseteq Warnings
    /\ \A p \in Procs : visit[p].hand # {} => at[p] \in {"leave", "print"}
    /\ scans \in Nat

Init ==
    /\ LockInit
    /\ table \in SUBSET Warnings
    /\ record \in Record
    /\ visit = [p \in Procs |-> Fresh("idle")]
    /\ owed = Warnings \ Known(record) /\ untold = owed
    /\ lost = {} /\ blurred = {}
    /\ scans = 0

-----------------------------------------------------------------------------
\* A scan of anybody raises warnings and settles others.
Scan ==
    /\ scans < MaxScans
    /\ scans' = scans + 1
    /\ table' \in SUBSET Warnings
    /\ UNCHANGED <<lockVars, record, visit, histories>>

\* A hook starts and queues for the lock.
Start(p, task) ==
    /\ at[p] = "out"
    /\ visit' = [visit EXCEPT ![p] = Fresh(task)]
    /\ Go(p, "wait")
    /\ UNCHANGED <<lockFile, holders, intruded, faults, table, record, histories, scans>>

Wait(p) == TryLock(p) /\ UNCHANGED ledgerVars

\* currentWarningIDs; a database that cannot be read ends the visit.
ReadTable(p) ==
    /\ at[p] = "table"
    /\ \/ /\ visit' = [visit EXCEPT ![p] = [@ EXCEPT !.ids = table, !.gone = Warnings \ table]]
          /\ Go(p, "record")
          /\ UNCHANGED faults
       \/ /\ "unreadable" \in Doings
          /\ faults < MaxFaults
          /\ faults' = faults + 1
          /\ visit' = [visit EXCEPT ![p] = Fresh("idle")]
          /\ Go(p, "leave")
    /\ UNCHANGED <<lockFile, holders, intruded, table, record, histories, scans>>

\* readReportedWarnings: a ledger that cannot be read is taken for none.  (One that
\* is not JSON would be taken for an empty one; hooks write it whole.)
ReadRecord(p) ==
    /\ at[p] = "record"
    /\ \/ visit' = [visit EXCEPT ![p].seen = record] /\ UNCHANGED faults
       \/ /\ "sealed" \in Doings
          /\ faults < MaxFaults
          /\ faults' = faults + 1
          /\ visit' = [visit EXCEPT ![p].seen = {}]
    /\ Go(p, "write")
    /\ UNCHANGED <<lockFile, holders, intruded, table, record, histories, scans>>

Gone(p) == visit[p].gone
News(p) == visit[p].ids \ Known(visit[p].seen)
\* What the first seed takes for known.
Preexisting(p) == IF record = {} THEN visit[p].ids ELSE {}

\* (Operators named for a slip -- SeededUnpruned, ReportedOnly, ... --
\* are the variants of the next one that the checked properties must reject.)
\* What seedReportedWarningsLocked leaves in the ledger.
SeededUnpruned(p) == IF visit[p].seen = {} THEN {visit[p].ids} ELSE record
Seeded(p) ==
    IF visit[p].seen = {} THEN {visit[p].ids}
    ELSE IF Known(visit[p].seen) \subseteq visit[p].ids THEN record
    ELSE {Known(visit[p].seen) \cap visit[p].ids}

\* What unreportedWarningsLocked leaves there.
ReportedOnly(p) == {News(p)}
Reported(p) == {visit[p].ids}

\* writeReportedWarnings is best-effort.  What a hook has read is of no use after
\* its section; what it reports is.
EndVisit(p, r, news) ==
    /\ record' = IF "readonly" \in Doings THEN record ELSE r
    /\ visit' = [q \in Procs |->
           IF q = p THEN [Fresh("idle") EXCEPT !.hand = news]
                    ELSE [visit[q] EXCEPT !.gone = @ \ news]]
    /\ Go(p, "leave")
    /\ UNCHANGED <<lockFile, holders, intruded, faults, table, scans>>

\* What the histories make of a visit: `settled` is what it tells of or takes for
\* known.  A section of its own leaves the ledger right again, but for what stands and
\* was in it before.
Found(p, settled) ==
    /\ owed' = (owed \ settled) \cup Gone(p)
    /\ lost' = lost \ (settled \cup Gone(p))
    /\ blurred' = IF p \in intruded THEN Warnings
                  ELSE (blurred \cap visit[p].ids) \ settled

Seed(p) ==
    /\ at[p] = "write" /\ visit[p].task = "seed"
    /\ Found(p, Preexisting(p))
    /\ untold' = (untold \ Preexisting(p)) \cup Gone(p)
    /\ EndVisit(p, Seeded(p), {})

Report(p) ==
    /\ at[p] = "write" /\ visit[p].task = "report"
    /\ Found(p, News(p))
    /\ untold' = untold \cup Gone(p) \cup News(p)
    /\ EndVisit(p, Reported(p), News(p))


\* The section ends; a report is then laid out and printed.
Leave(p) ==
    /\ Unlock(p, IF visit[p].hand = {} THEN "out" ELSE "print")
    /\ UNCHANGED ledgerVars

DeliverAgain(p) ==
    /\ at[p] = "print"
    /\ Go(p, "out")
    /\ UNCHANGED <<lockFile, holders, intruded, faults, ledgerVars>>

Deliver(p) ==
    /\ at[p] = "print"
    /\ untold' = untold \ (visit[p].hand \ owed)
    /\ visit' = [visit EXCEPT ![p] = Fresh("idle")]
    /\ Go(p, "out")
    /\ UNCHANGED <<lockFile, holders, intruded, faults, table, record, owed, lost, blurred, scans>>

\* A hook is killed, by the harness's timeout for one; what it held is lost.
Kill(p) ==
    /\ Die(p)
    /\ lost' = lost \cup (visit[p].hand \ owed)
    /\ visit' = [visit EXCEPT ![p] = Fresh("idle")]
    /\ UNCHANGED <<table, record, owed, untold, blurred, scans>>

GrowOld == Age /\ UNCHANGED ledgerVars

-----------------------------------------------------------------------------
GoesOn(p) ==
    \/ Wait(p) \/ ReadTable(p) \/ ReadRecord(p) \/ Seed(p) \/ Report(p)
    \/ Leave(p) \/ Deliver(p)

Next ==
    \/ \E p \in Procs : GoesOn(p) \/ Kill(p)
    \/ \E p \in Procs, task \in Tasks : Start(p, task)
    \/ Scan
    \/ GrowOld

Spec == Init /\ [][Next]_vars

\* A hook that started goes on and does not poll in vain for ever, and the agent
\* keeps making calls with a hook after them.
Fairness ==
    /\ \A p \in Procs : WF_vars(GoesOn(p)) /\ SF_vars(Wait(p))
    /\ SF_vars(\E p \in Procs : Start(p, "report"))
    /\ WF_vars(GrowOld)

FairSpec == Spec /\ Fairness

-----------------------------------------------------------------------------
(* What has to hold.                                                       *)

\* A warning that is fixed and comes back is news, and one that is new is: the ledger
\* holds nothing it has still to let through, once a visit that had its section to
\* itself has put right what overlapping ones made of it (withWarnStateLock,
\* seedReportedWarnings).
NothingMissed == owed \cap Known(record) \subseteq blurred

\* A report of a hook that has its section to itself tells only what is due: nobody
\* reports what another hook reported (withWarnStateLock, unreportedWarnings).
NoRepeat ==
    [][\A p \in Procs : p \notin intruded /\ visit'[p].hand # visit[p].hand
          => visit'[p].hand \subseteq owed \cup blurred]_vars

\* Once scans change nothing, the agent has been shown every warning that stands, but
\* for those a killed hook had taken in hand, and those that stand since two sections
\* overlapped: a lock file left by a dead hook silences nobody, and neither does an
\* overlap for longer than until the warning is found gone.
EventuallyTold == <>[](table \cap untold \subseteq lost \cup blurred)

\* "either limit is reached only when something is already wrong -- and then the
\* ledger is updated unlocked, which at worst repeats a warning"
\* (guard_warnstate.go): a warning that stands and that the agent has to be told
\* of is not in the ledger.
AtWorstRepeats == table \cap owed \cap Known(record) = {}

\* "A file that is THERE and unreadable counts as seeded" (guard_warnstate.go): where
\* there is a ledger, seeding enters nothing the agent has to be told of.
UnreadableIsSeeded ==
    [][\A p \in Procs : Seed(p) /\ record # {}
          => owed \cap Known(record') \subseteq Known(record)]_vars

\* "a hook must never fail, or hang, a tool call over bookkeeping"
\* (guard_warnstate.go): a hook that waits for the lock gets past it.
NeverHangs == \A p \in Procs : at[p] = "wait" ~> at[p] \notin {"wait", "remove"}
=============================================================================
