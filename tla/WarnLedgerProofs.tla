--------------------------- MODULE WarnLedgerProofs ---------------------------
(***************************************************************************)
(* WarnLedger keeps its types; and as long as the ledger can be read and   *)
(* written it is exactly what is not owed, but for what overlapping        *)
(* sections blurred, so that hooks miss nothing and repeat nothing else -- *)
(* for any processes, warnings and bounds.                                 *)
(***************************************************************************)
EXTENDS WarnLedger, TLAPS

-----------------------------------------------------------------------------
(* Types.                                                                  *)

\* Where a process goes, and where the others stay.
LEMMA Went ==
    ASSUME NEW p \in Procs, NEW step \in Steps, at \in [Procs -> Steps], Go(p, step)
    PROVE  /\ at' \in [Procs -> Steps]
           /\ at'[p] = step
           /\ \A q \in Procs \ {p} : at'[q] = at[q]
  BY DEF Go

LEMMA FreshVisit ==
    ASSUME NEW task \in Tasks \cup {"idle"}
    PROVE  Fresh(task) \in Visit /\ Fresh(task).hand = {}
  BY DEF Fresh, Visit, Record

\* What a hook has read of the table.
LEMMA TableRead ==
    ASSUME TypeOK, NEW p \in Procs, ReadTable(p)
    PROVE  \E v \in Visit, step \in {"record", "leave"} :
             /\ Go(p, step)
             /\ visit' = [visit EXCEPT ![p] = v]
             /\ v.hand = {}
             /\ step = "record" => v.gone = Warnings \ v.ids
  <1>1. visit \in [Procs -> Visit] /\ visit[p] \in Visit /\ table \subseteq Warnings
    BY DEF TypeOK
  <1>2. CASE visit' = [visit EXCEPT ![p] = Fresh("idle")] /\ Go(p, "leave")
    <2>1. PICK v : v = Fresh("idle")
      OBVIOUS
    <2>2. v \in Visit /\ v.hand = {} /\ visit' = [visit EXCEPT ![p] = v]
      BY <1>2, <2>1, FreshVisit
    <2> QED BY <1>2, <2>2
  <1>3. CASE /\ visit' = [visit EXCEPT ![p] = [@ EXCEPT !.ids = table, !.gone = Warnings \ table]]
             /\ Go(p, "record")
    <2>1. PICK u : u = [visit[p] EXCEPT !.ids = table]
      OBVIOUS
    <2>2. PICK v : v = [u EXCEPT !.gone = Warnings \ table]
      OBVIOUS
    <2>0. visit[p].hand = {}
      BY DEF ReadTable, TypeOK
    <2>3. u \in Visit /\ u.ids = table /\ u.hand = {}
      BY <1>1, <2>0, <2>1 DEF Visit
    <2>4. /\ v \in Visit /\ v.ids = table /\ v.hand = {}
          /\ v.gone = Warnings \ table
      BY <2>2, <2>3 DEF Visit
    <2>5. v = [visit[p] EXCEPT !.ids = table, !.gone = Warnings \ table]
      BY <2>1, <2>2, Zenon
    <2>6. visit' = [visit EXCEPT ![p] = v]
      BY <1>3, <2>5, Zenon
    <2> QED BY <1>3, <2>4, <2>6
  <1> QED BY <1>2, <1>3, Zenon DEF ReadTable

\* And of the ledger.
LEMMA RecordRead ==
    ASSUME TypeOK, NEW p \in Procs, ReadRecord(p)
    PROVE  \E v \in Visit :
             /\ Go(p, "write")
             /\ visit' = [visit EXCEPT ![p] = v]
             /\ v.hand = {} /\ v.ids = visit[p].ids /\ v.gone = visit[p].gone
             /\ "sealed" \notin Doings => v.seen = record
  <1>1. visit \in [Procs -> Visit] /\ visit[p] \in Visit /\ record \in Record
    BY DEF TypeOK
  <1>2. visit[p].hand = {} /\ Go(p, "write")
    BY DEF ReadRecord, TypeOK
  <1>3. PICK seen \in Record :
          /\ visit' = [visit EXCEPT ![p] = [visit[p] EXCEPT !.seen = seen]]
          /\ "sealed" \notin Doings => seen = record
    BY <1>1 DEF ReadRecord, Record
  <1>4. PICK v : v = [visit[p] EXCEPT !.seen = seen]
    OBVIOUS
  <1>5. /\ v \in Visit /\ v.hand = {} /\ v.seen = seen
        /\ v.ids = visit[p].ids /\ v.gone = visit[p].gone
    BY <1>1, <1>2, <1>4 DEF Visit
  <1>6. visit' = [visit EXCEPT ![p] = v]
    BY <1>3, <1>4
  <1> QED BY <1>2, <1>3, <1>5, <1>6

\* The types hold at first.
LEMMA TypeInit == Init => TypeOK
  <1> SUFFICES ASSUME Init PROVE TypeOK
    OBVIOUS
  <1>1. Fresh("idle") \in Visit /\ Fresh("idle").hand = {}
    BY FreshVisit
  <1>2. LockTypeOK
    BY DEF Init, LockInit, LockTypeOK, Steps, Occupants
  <1>3. visit \in [Procs -> Visit] /\ \A p \in Procs : visit[p].hand = {}
    BY <1>1 DEF Init
  <1>4. /\ table \subseteq Warnings /\ record \in Record /\ scans \in Nat
        /\ owed \subseteq untold /\ untold \subseteq Warnings
        /\ lost \subseteq Warnings /\ blurred \subseteq Warnings
    BY DEF Init
  <1> QED BY <1>2, <1>3, <1>4 DEF TypeOK

\* A step of the lock moves one process, which holds nothing to print.
LEMMA TypeWait ==
    ASSUME TypeOK, NEW p \in Procs, Wait(p)
    PROVE  TypeOK'
  <1>1. at[p] \in {"wait", "remove"} /\ p \notin holders /\ visit[p].hand = {}
    BY DEF TypeOK, LockTypeOK, Wait, TryLock, Create, GoUnlocked, FindStale, RemoveStale,
           Inside, Occupants
  <1>2. PICK step \in {"table", "remove", "wait"} :
          /\ Go(p, step)
          /\ holders' = IF step = "table" /\ lockFile' = "young" /\ lockFile = "absent"
                        THEN holders \cup {p} ELSE holders
    BY DEF Wait, TryLock, Create, GoUnlocked, FindStale, RemoveStale, Enter
  <1>3. /\ at' \in [Procs -> Steps]
        /\ at'[p] = step
        /\ \A q \in Procs \ {p} : at'[q] = at[q]
    BY <1>2, Went DEF TypeOK, LockTypeOK, Steps, Inside
  <1>4. holders' \subseteq Occupants'
    BY <1>1, <1>2, <1>3 DEF TypeOK, LockTypeOK, Inside, Occupants
  <1>5. lockFile' \in {"absent", "young", "stale"} /\ faults' \in Nat
    BY DEF Wait, TryLock, Create, GoUnlocked, FindStale, RemoveStale, Enter, TypeOK,
           LockTypeOK
  <1>8. /\ p \notin Occupants /\ Occupants \subseteq Occupants'
        /\ intruded \subseteq Occupants
    BY <1>1, <1>3 DEF Inside, Occupants, TypeOK, LockTypeOK
  <1>9. ASSUME Enter(p) PROVE intruded' \subseteq Occupants'
    <2>1. at'[p] = "table"
      BY <1>9 DEF Enter, Go, TypeOK, LockTypeOK
    <2>2. p \in Occupants'
      BY <2>1 DEF Occupants, Inside
    <2> QED BY <1>8, <1>9, <2>2 DEF Enter
  <1>10. intruded' \subseteq Occupants'
    BY <1>8, <1>9 DEF Wait, TryLock, Create, GoUnlocked, FindStale, RemoveStale
  <1>6. UNCHANGED ledgerVars
    BY DEF Wait
  <1>7. \A q \in Procs : visit'[q].hand # {} => at'[q] \in {"leave", "print"}
    BY <1>1, <1>3, <1>6 DEF TypeOK, ledgerVars
  <1> QED BY <1>3, <1>4, <1>5, <1>6, <1>7, <1>10 DEF TypeOK, LockTypeOK, ledgerVars, histories

\* A process inside goes on inside, and nobody else moves.
LEMMA TypeInside ==
    ASSUME TypeOK, NEW p \in Procs, at[p] \in Inside, NEW step \in Inside, Go(p, step),
           UNCHANGED <<lockFile, holders, intruded>>, faults' \in Nat
    PROVE  LockTypeOK' /\ at'[p] = step /\ \A q \in Procs \ {p} : at'[q] = at[q]
  <1>1. at' \in [Procs -> Steps] /\ at'[p] = step /\ \A q \in Procs \ {p} : at'[q] = at[q]
    BY Went DEF TypeOK, LockTypeOK, Steps
  <1>2. Occupants \subseteq Occupants'
    BY <1>1 DEF Occupants
  <1> QED BY <1>1, <1>2 DEF TypeOK, LockTypeOK

\* A process that goes out of its section, or of the print, takes its lock with it.
LEMMA TypeOut ==
    ASSUME TypeOK, NEW p \in Procs, NEW step \in Steps, Go(p, step),
           holders' = holders \ {p}, intruded' = intruded \ {p},
           lockFile' \in {"absent", "young", "stale"}, faults' \in Nat
    PROVE  LockTypeOK' /\ at'[p] = step /\ \A q \in Procs \ {p} : at'[q] = at[q]
  <1>1. at' \in [Procs -> Steps] /\ at'[p] = step /\ \A q \in Procs \ {p} : at'[q] = at[q]
    BY Went DEF TypeOK, LockTypeOK
  <1>2. Occupants \ {p} \subseteq Occupants'
    BY <1>1 DEF Occupants
  <1> QED BY <1>1, <1>2 DEF TypeOK, LockTypeOK

\* What a section leaves in the ledger is a ledger.
LEMMA TypeRecord ==
    ASSUME TypeOK, NEW p \in Procs
    PROVE  /\ Seeded(p) \in Record /\ Reported(p) \in Record
           /\ News(p) \subseteq Warnings /\ Gone(p) \subseteq Warnings
           /\ Preexisting(p) \subseteq Warnings
  <1>1. visit[p] \in Visit
    BY DEF TypeOK
  <1>2. visit[p].ids \subseteq Warnings /\ Gone(p) \subseteq Warnings
    BY <1>1 DEF Visit, Gone
  <1>3. \A ids \in SUBSET Warnings : {ids} \in Record
    BY DEF Record
  <1>4. Known(visit[p].seen) \cap visit[p].ids \subseteq Warnings
    BY <1>2
  <1>5. Seeded(p) \in Record
    BY <1>2, <1>3, <1>4 DEF Seeded, TypeOK
  <1> QED BY <1>2, <1>3, <1>5 DEF Reported, News, Preexisting

\* The histories of a visit keep their types.
LEMMA TypeFound ==
    ASSUME TypeOK, NEW p \in Procs, NEW settled \in SUBSET Warnings, Found(p, settled)
    PROVE  /\ owed' = (owed \ settled) \cup Gone(p) /\ owed' \subseteq Warnings
           /\ lost' \subseteq Warnings /\ blurred' \subseteq Warnings
  <1>1. owed \subseteq Warnings /\ Gone(p) \subseteq Warnings
    BY TypeRecord DEF TypeOK
  <1> QED BY <1>1 DEF Found, TypeOK

\* The end of a visit keeps the types.
LEMMA TypeEnd ==
    ASSUME TypeOK, NEW p \in Procs, at[p] = "write", NEW r \in Record,
           NEW news \in SUBSET Warnings, EndVisit(p, r, news),
           owed' \subseteq untold', untold' \subseteq Warnings,
           lost' \subseteq Warnings, blurred' \subseteq Warnings
    PROVE  TypeOK'
  <1>1. LockTypeOK' /\ at'[p] = "leave" /\ \A q \in Procs \ {p} : at'[q] = at[q]
    BY TypeInside DEF EndVisit, Inside, TypeOK, LockTypeOK
  <1>2. \A q \in Procs : visit[q] \in Visit
    BY DEF TypeOK
  <1>3. [Fresh("idle") EXCEPT !.hand = news] \in Visit
    BY DEF Fresh, Visit, Record
  <1>4. \A q \in Procs : [visit[q] EXCEPT !.gone = @ \ news] \in Visit
    BY <1>2 DEF Visit
  <1>5. /\ visit' \in [Procs -> Visit]
        /\ \A q \in Procs \ {p} : visit'[q] = [visit[q] EXCEPT !.gone = @ \ news]
    BY <1>3, <1>4 DEF EndVisit
  <1>6. \A q \in Procs \ {p} : visit'[q].hand = visit[q].hand
    BY <1>2, <1>5 DEF Visit
  <1>7. \A q \in Procs : visit'[q].hand # {} => at'[q] \in {"leave", "print"}
    BY <1>1, <1>6 DEF TypeOK
  <1>8. record' \in Record /\ table' = table /\ scans' = scans
    BY DEF EndVisit, TypeOK
  <1> QED BY <1>1, <1>5, <1>7, <1>8 DEF TypeOK

\* And so does every step.
LEMMA TypeStep == TypeOK /\ [Next]_vars => TypeOK'
  <1> SUFFICES ASSUME TypeOK, [Next]_vars PROVE TypeOK'
    OBVIOUS
  <1>1. ASSUME NEW p \in Procs, Wait(p) PROVE TypeOK'
    BY <1>1, TypeWait
  <1>2. ASSUME NEW p \in Procs, NEW v \in Visit, NEW step \in Inside, at[p] \in Inside,
               Go(p, step), visit' = [visit EXCEPT ![p] = v], v.hand = {}, faults' \in Nat,
               UNCHANGED <<lockFile, holders, intruded, table, record, histories, scans>>
        PROVE  TypeOK'
    <2>1. UNCHANGED <<lockFile, holders, intruded, table, record, scans, owed, untold, lost, blurred>>
      BY <1>2 DEF histories
    <2>2. LockTypeOK' /\ at'[p] = step /\ \A q \in Procs \ {p} : at'[q] = at[q]
      BY <1>2, <2>1, TypeInside
    <2>3. visit' \in [Procs -> Visit]
      BY <1>2 DEF TypeOK
    <2>4. visit'[p].hand = {} /\ \A q \in Procs \ {p} : visit'[q] = visit[q]
      BY <1>2 DEF TypeOK
    <2> QED BY <2>1, <2>2, <2>3, <2>4 DEF TypeOK
  <1>3. ASSUME NEW p \in Procs, ReadTable(p) PROVE TypeOK'
    <2>1. PICK v \in Visit, step \in {"record", "leave"} :
            Go(p, step) /\ visit' = [visit EXCEPT ![p] = v] /\ v.hand = {}
      BY <1>3, TableRead
    <2>2. /\ faults' \in Nat
          /\ UNCHANGED <<lockFile, holders, intruded, table, record, histories, scans>>
      BY <1>3 DEF ReadTable, TypeOK, LockTypeOK
    <2>3. at[p] \in Inside /\ step \in Inside
      BY <1>3 DEF ReadTable, Inside
    <2> QED BY <1>2, <2>1, <2>2, <2>3
  <1>4. ASSUME NEW p \in Procs, ReadRecord(p) PROVE TypeOK'
    <2>1. PICK v \in Visit :
            Go(p, "write") /\ visit' = [visit EXCEPT ![p] = v] /\ v.hand = {}
      BY <1>4, RecordRead
    <2>2. /\ faults' \in Nat
          /\ UNCHANGED <<lockFile, holders, intruded, table, record, histories, scans>>
      BY <1>4 DEF ReadRecord, TypeOK, LockTypeOK
    <2>3. at[p] \in Inside /\ "write" \in Inside
      BY <1>4 DEF ReadRecord, Inside
    <2> QED BY <1>2, <2>1, <2>2, <2>3
  <1>5. ASSUME NEW p \in Procs, Seed(p) PROVE TypeOK'
    <2>1. /\ Preexisting(p) \in SUBSET Warnings /\ Gone(p) \subseteq Warnings
          /\ Seeded(p) \in Record
      BY TypeRecord
    <2>2. /\ owed' = (owed \ Preexisting(p)) \cup Gone(p) /\ owed' \subseteq Warnings
          /\ lost' \subseteq Warnings /\ blurred' \subseteq Warnings
      BY <1>5, <2>1, TypeFound DEF Seed
    <2>3. /\ untold' = (untold \ Preexisting(p)) \cup Gone(p)
          /\ EndVisit(p, Seeded(p), {}) /\ at[p] = "write"
      BY <1>5 DEF Seed
    <2>4. owed' \subseteq untold' /\ untold' \subseteq Warnings
      BY <2>1, <2>2, <2>3 DEF TypeOK
    <2> QED BY <2>1, <2>2, <2>3, <2>4, TypeEnd
  <1>6. ASSUME NEW p \in Procs, Report(p) PROVE TypeOK'
    <2>1. /\ News(p) \in SUBSET Warnings /\ Gone(p) \subseteq Warnings
          /\ Reported(p) \in Record
      BY TypeRecord
    <2>2. /\ owed' = (owed \ News(p)) \cup Gone(p) /\ owed' \subseteq Warnings
          /\ lost' \subseteq Warnings /\ blurred' \subseteq Warnings
      BY <1>6, <2>1, TypeFound DEF Report
    <2>3. /\ untold' = untold \cup Gone(p) \cup News(p)
          /\ EndVisit(p, Reported(p), News(p)) /\ at[p] = "write"
      BY <1>6 DEF Report
    <2>4. owed' \subseteq untold' /\ untold' \subseteq Warnings
      BY <2>1, <2>2, <2>3 DEF TypeOK
    <2> QED BY <2>1, <2>2, <2>3, <2>4, TypeEnd
  <1>7. ASSUME NEW p \in Procs, Leave(p) PROVE TypeOK'
    <2>1. PICK step : step = IF visit[p].hand = {} THEN "out" ELSE "print"
      OBVIOUS
    <2>2. /\ step \in Steps /\ Go(p, step)
          /\ holders' = holders \ {p} /\ intruded' = intruded \ {p} /\ faults' \in Nat
          /\ lockFile' \in {"absent", "young", "stale"}
      BY <1>7, <2>1 DEF Leave, Unlock, Steps, TypeOK, LockTypeOK
    <2>3. LockTypeOK' /\ at'[p] = step /\ \A q \in Procs \ {p} : at'[q] = at[q]
      BY <2>2, TypeOut
    <2>4. UNCHANGED ledgerVars
      BY <1>7 DEF Leave
    <2> QED BY <2>1, <2>3, <2>4 DEF TypeOK, ledgerVars, histories
  <1>8. ASSUME NEW p \in Procs, Deliver(p) \/ Kill(p) PROVE TypeOK'
    <2>1. /\ Go(p, "out") /\ visit' = [visit EXCEPT ![p] = Fresh("idle")]
          /\ UNCHANGED <<lockFile, table, record, owed, blurred, scans>>
          /\ faults' \in Nat
      BY <1>8 DEF Deliver, Kill, Die, TypeOK, LockTypeOK
    <2>2. holders' = holders \ {p} /\ intruded' = intruded \ {p}
      BY <1>8 DEF Deliver, Kill, Die, TypeOK, LockTypeOK, Occupants, Inside
    <2>3. LockTypeOK' /\ at'[p] = "out" /\ \A q \in Procs \ {p} : at'[q] = at[q]
      BY <2>1, <2>2, TypeOut DEF Steps, TypeOK, LockTypeOK
    <2>4. Fresh("idle") \in Visit /\ Fresh("idle").hand = {}
      BY FreshVisit
    <2>5. visit' \in [Procs -> Visit] /\ visit'[p].hand = {}
      BY <2>1, <2>4 DEF TypeOK
    <2>6. \A q \in Procs \ {p} : visit'[q] = visit[q]
      BY <2>1 DEF TypeOK
    <2>7. visit[p].hand \subseteq Warnings
      BY DEF TypeOK, Visit
    <2>8. /\ owed' \subseteq untold' /\ untold' \subseteq Warnings
          /\ lost' \subseteq Warnings /\ blurred' \subseteq Warnings
      BY <1>8, <2>1, <2>7 DEF Deliver, Kill, TypeOK
    <2> QED BY <2>1, <2>3, <2>5, <2>6, <2>8 DEF TypeOK
  <1>9. ASSUME NEW p \in Procs, NEW task \in Tasks, Start(p, task) PROVE TypeOK'
    <2>1. /\ at' \in [Procs -> Steps] /\ at'[p] = "wait"
          /\ \A q \in Procs \ {p} : at'[q] = at[q]
      BY <1>9, Went DEF Start, TypeOK, LockTypeOK, Steps
    <2>2. Occupants' = Occupants
      BY <1>9, <2>1 DEF Start, Occupants, Inside
    <2>3. LockTypeOK'
      BY <1>9, <2>1, <2>2 DEF Start, TypeOK, LockTypeOK
    <2>4. Fresh(task) \in Visit /\ Fresh(task).hand = {}
      BY FreshVisit
    <2>5. visit' \in [Procs -> Visit] /\ visit'[p].hand = {}
          /\ \A q \in Procs \ {p} : visit'[q] = visit[q]
      BY <1>9, <2>4 DEF Start, TypeOK
    <2> QED BY <1>9, <2>1, <2>3, <2>5 DEF Start, TypeOK, histories
  <1>10. CASE Scan
    BY <1>10 DEF Scan, lockVars, TypeOK, LockTypeOK, Occupants, histories
  <1>11. CASE GrowOld
    BY <1>11 DEF GrowOld, Age, ledgerVars, TypeOK, LockTypeOK, Occupants, histories
  <1>12. CASE UNCHANGED vars
    BY <1>12 DEF vars, lockVars, ledgerVars, TypeOK, LockTypeOK, Occupants, histories
  <1> QED
    BY <1>1, <1>3, <1>4, <1>5, <1>6, <1>7, <1>8, <1>9, <1>10, <1>11, <1>12 DEF Next, GoesOn

\* Every variable of WarnLedger keeps its type: only a process inside its section will
\* remove the lock file, and only one that has left the ledger has something to print
\* (withWarnStateLock, unreportedWarnings).
THEOREM TypeCorrect == Spec => []TypeOK
  BY TypeInit, TypeStep, PTL DEF Spec

-----------------------------------------------------------------------------
(* The ledger.                                                             *)

\* A directory that can be written, and a ledger that can be read.
Sound == Doings \cap {"readonly", "sealed"} = {}

\* Who has met nobody in his section is alone there.
Apart == \A p, q \in Occupants : p \notin intruded => p = q

\* What he has read is still so.
InStep(p) ==
    /\ at[p] \in {"record", "write"} => visit[p].gone = Warnings \ visit[p].ids
    /\ at[p] = "write" => visit[p].seen = record

\* The ledger is what is not owed, but for what is blurred.
Exact == \A w \in Warnings \ blurred : w \in owed <=> w \notin Known(record)

Kept == Apart /\ Exact /\ \A p \in Occupants \ intruded : InStep(p)

IInv == TypeOK /\ Kept

\* The invariant holds at first: the ledger is what is not owed.
LEMMA KeptInit == Init => IInv
  <1> SUFFICES ASSUME Init PROVE Kept
    BY TypeInit DEF IInv
  <1>1. Occupants = {}
    BY DEF Init, LockInit, Occupants, Inside
  <1> QED BY <1>1 DEF Init, Kept, Apart, Exact

\* Nobody enters, nobody writes, and who is left alone in his section is in step.
LEMMA KeptAlone ==
    ASSUME TypeOK, Kept, NEW p \in Procs, UNCHANGED <<record, owed, blurred>>,
           \A q \in Procs \ {p} : at'[q] = at[q] /\ visit'[q] = visit[q],
           at'[p] \in Inside => at[p] \in Inside,
           intruded' = intruded \/ (intruded' = intruded \ {p} /\ at'[p] \notin Inside),
           at'[p] \in Inside /\ p \notin intruded => InStep(p)'
    PROVE  Kept'
  <1>1. Occupants' \subseteq Occupants
    BY DEF Occupants
  <1>2. \A q \in Occupants' : q \in intruded' <=> q \in intruded
    BY DEF Occupants
  <1>3. Apart'
    BY <1>1, <1>2 DEF Kept, Apart
  <1>4. ASSUME NEW q \in Occupants' \ intruded' PROVE InStep(q)'
    <2>1. q \in Occupants \ intruded /\ q \in Procs /\ at'[q] \in Inside
      BY <1>1, <1>2, <1>4 DEF Occupants
    <2>2. CASE q = p
      BY <2>1, <2>2
    <2>3. CASE q # p
      <3>1. InStep(q) /\ at'[q] = at[q] /\ visit'[q] = visit[q] /\ record' = record
        BY <2>1, <2>3 DEF Kept
      <3> QED BY <3>1 DEF InStep
    <2> QED BY <2>2, <2>3
  <1>5. Exact'
    BY DEF Kept, Exact
  <1> QED BY <1>3, <1>4, <1>5 DEF Kept

\* What is found in a section of its own.
LEMMA OwnSection ==
    ASSUME Sound, TypeOK, Kept, NEW p \in Procs, at[p] = "write", p \notin intruded
    PROVE  /\ visit[p].seen = record /\ Gone(p) = Warnings \ visit[p].ids
           /\ visit[p].ids \subseteq Warnings /\ Known(record) \subseteq Warnings
  <1>1. p \in Occupants \ intruded
    BY DEF Occupants, Inside
  <1>2. visit[p].seen = record /\ Gone(p) = Warnings \ visit[p].ids
    BY <1>1 DEF Kept, InStep, Gone
  <1>3. visit[p].ids \subseteq Warnings /\ record \in Record
    BY DEF TypeOK, Visit
  <1>4. \A ids : Known({ids}) = ids
    BY DEF Known
  <1>5. Known({}) = {}
    BY DEF Known
  <1>6. Known(record) \subseteq Warnings
    BY ZenonT(60), <1>3, <1>4, <1>5 DEF Record
  <1> QED BY <1>2, <1>3, <1>6

\* Seeding leaves in the ledger what is not owed, but for what is blurred.
LEMMA KeptSeed ==
    ASSUME Sound, TypeOK, Kept, NEW p \in Procs, Seed(p)
    PROVE  Exact'
  <1>1. CASE p \in intruded
    BY <1>1 DEF Seed, Found, Exact
  <1>2. CASE p \notin intruded
    <2>1. /\ visit[p].seen = record /\ Gone(p) = Warnings \ visit[p].ids
          /\ visit[p].ids \subseteq Warnings /\ Known(record) \subseteq Warnings
      BY <1>2, OwnSection DEF Seed
    <2>2. /\ owed' = (owed \ Preexisting(p)) \cup Gone(p)
          /\ blurred' = (blurred \cap visit[p].ids) \ Preexisting(p)
          /\ record' = Seeded(p)
      BY <1>2 DEF Seed, Found, EndVisit, Sound
    <2>3. \A ids : Known({ids}) = ids
      BY DEF Known
    <2>4. \A w \in Warnings \ blurred : w \in owed <=> w \notin Known(record)
      BY DEF Kept, Exact
    <2>5. CASE record = {}
      <3>1. Preexisting(p) = visit[p].ids /\ Known(record') = visit[p].ids
        BY <2>1, <2>2, <2>3, <2>5 DEF Preexisting, Seeded
      <3> QED BY <2>1, <2>2, <3>1 DEF Exact
    <2>6. CASE record # {}
      <3>1. Preexisting(p) = {}
        BY <2>6 DEF Preexisting
      <3>2. Known(record') = Known(record) \cap visit[p].ids
        BY <2>1, <2>2, <2>3, <2>6 DEF Seeded
      <3> QED BY <2>1, <2>2, <2>4, <3>1, <3>2 DEF Exact
    <2> QED BY <2>5, <2>6
  <1> QED BY <1>1, <1>2

\* The same of a report; and what it tells of is owed, or blurred.
LEMMA KeptReport ==
    ASSUME Sound, TypeOK, Kept, NEW p \in Procs, Report(p)
    PROVE  Exact' /\ (p \notin intruded => News(p) \subseteq owed \cup blurred)
  <1>1. CASE p \in intruded
    BY <1>1 DEF Report, Found, Exact
  <1>2. CASE p \notin intruded
    <2>1. /\ visit[p].seen = record /\ Gone(p) = Warnings \ visit[p].ids
          /\ visit[p].ids \subseteq Warnings
      BY <1>2, OwnSection DEF Report
    <2>2. /\ owed' = (owed \ News(p)) \cup Gone(p)
          /\ blurred' = (blurred \cap visit[p].ids) \ News(p)
          /\ record' = {visit[p].ids}
      BY <1>2 DEF Report, Found, EndVisit, Reported, Sound
    <2>3. Known(record') = visit[p].ids /\ News(p) = visit[p].ids \ Known(record)
      BY <2>1, <2>2 DEF Known, News
    <2>4. \A w \in Warnings \ blurred : w \in owed <=> w \notin Known(record)
      BY DEF Kept, Exact
    <2> QED BY <2>1, <2>2, <2>3, <2>4 DEF Exact
  <1> QED BY <1>1, <1>2

\* Whoever writes the ledger is alone in his section, or has met all that are there.
LEMMA KeptEnd ==
    ASSUME TypeOK, Kept, NEW p \in Procs, at[p] = "write", NEW r,
           NEW news, EndVisit(p, r, news), Exact'
    PROVE  Kept'
  <1>1. /\ at' = [at EXCEPT ![p] = "leave"] /\ at \in [Procs -> Steps]
        /\ intruded' = intruded
    BY DEF EndVisit, Go, TypeOK, LockTypeOK
  <1>2. at'[p] = "leave" /\ \A q \in Procs \ {p} : at'[q] = at[q]
    BY <1>1
  <1>3. Occupants' = Occupants /\ p \in Occupants
    BY <1>2 DEF Occupants, Inside
  <1>4. Apart'
    BY <1>1, <1>3 DEF Kept, Apart
  <1>5. ASSUME NEW q \in Occupants' \ intruded' PROVE InStep(q)'
    <2>1. q = p
      BY <1>1, <1>3, <1>5 DEF Kept, Apart
    <2> QED BY <1>2, <2>1 DEF InStep
  <1> QED BY <1>4, <1>5 DEF Kept

\* Who goes in while nobody is inside is alone there; else all that are there have met.
LEMMA KeptWait ==
    ASSUME TypeOK, Kept, NEW p \in Procs, Wait(p)
    PROVE  Kept'
  <1>1. at \in [Procs -> Steps] /\ at[p] \in {"wait", "remove"}
    BY DEF TypeOK, LockTypeOK, Wait, TryLock, Create, GoUnlocked, FindStale, RemoveStale
  <1>2. UNCHANGED <<record, owed, blurred, visit>>
    BY DEF Wait, ledgerVars, histories
  <1>3. CASE Enter(p)
    <2>1. at'[p] = "table" /\ \A q \in Procs \ {p} : at'[q] = at[q]
      BY <1>1, <1>3 DEF Enter, Go
    <2>2. Occupants' = Occupants \cup {p}
      BY <2>1 DEF Occupants, Inside
    <2>3. intruded' = IF Occupants # {} THEN Occupants \cup {p} ELSE {}
      BY <1>3 DEF Enter, Occupied
    <2>4. Apart'
      BY <2>2, <2>3 DEF Apart
    <2>5. ASSUME NEW q \in Occupants' \ intruded' PROVE InStep(q)'
      <3>1. q = p
        BY <2>2, <2>3, <2>5
      <3> QED BY <2>1, <3>1 DEF InStep
    <2>6. Exact'
      BY <1>2 DEF Kept, Exact
    <2> QED BY <2>4, <2>5, <2>6 DEF Kept
  <1>4. CASE (Go(p, "remove") \/ Go(p, "wait")) /\ UNCHANGED intruded
    <2>1. at'[p] \in {"remove", "wait"} /\ \A q \in Procs \ {p} : at'[q] = at[q]
      BY <1>1, <1>4 DEF Go
    <2>2. at'[p] \notin Inside
      BY <2>1 DEF Inside
    <2> QED BY <1>2, <1>4, <2>1, <2>2, KeptAlone
  <1> QED BY <1>3, <1>4 DEF Wait, TryLock, Create, GoUnlocked, FindStale, RemoveStale

\* Every step keeps what visits know.
LEMMA KeptStep ==
    ASSUME Sound, TypeOK, Kept, [Next]_vars
    PROVE  Kept'
  <1>1. at \in [Procs -> Steps] /\ visit \in [Procs -> Visit]
    BY DEF TypeOK, LockTypeOK
  <1>2. ASSUME NEW p \in Procs, Wait(p) PROVE Kept'
    BY <1>2, KeptWait
  <1>3. ASSUME NEW p \in Procs, ReadTable(p) PROVE Kept'
    <2>1. PICK v \in Visit, step \in {"record", "leave"} :
            /\ Go(p, step)
            /\ visit' = [visit EXCEPT ![p] = v]
            /\ step = "record" => v.gone = Warnings \ v.ids
      BY <1>3, TableRead
    <2>2. /\ at'[p] = step /\ visit'[p] = v
          /\ \A q \in Procs \ {p} : at'[q] = at[q] /\ visit'[q] = visit[q]
      BY <1>1, <2>1 DEF Go
    <2>3. InStep(p)'
      BY <2>1, <2>2 DEF InStep
    <2>4. at[p] \in Inside /\ UNCHANGED <<record, owed, blurred, intruded>>
      BY <1>3, Zenon DEF ReadTable, Inside, histories
    <2> QED BY <2>2, <2>3, <2>4, KeptAlone
  <1>4. ASSUME NEW p \in Procs, ReadRecord(p) PROVE Kept'
    <2>1. PICK v \in Visit :
            /\ Go(p, "write")
            /\ visit' = [visit EXCEPT ![p] = v]
            /\ v.ids = visit[p].ids /\ v.gone = visit[p].gone
            /\ "sealed" \notin Doings => v.seen = record
      BY <1>4, RecordRead
    <2>2. /\ at'[p] = "write" /\ visit'[p] = v
          /\ \A q \in Procs \ {p} : at'[q] = at[q] /\ visit'[q] = visit[q]
      BY <1>1, <2>1 DEF Go
    <2>3. at[p] = "record" /\ UNCHANGED <<record, owed, blurred, intruded>>
      BY <1>4, Zenon DEF ReadRecord, histories
    <2>4. at[p] \in Inside
      BY <2>3 DEF Inside
    <2>5. ASSUME p \notin intruded PROVE InStep(p)'
      <3>1. InStep(p)
        BY <2>4, <2>5 DEF Kept, Occupants
      <3> QED BY <2>1, <2>2, <2>3, <3>1 DEF InStep, Sound
    <2> QED BY <2>2, <2>3, <2>4, <2>5, KeptAlone
  <1>5. ASSUME NEW p \in Procs, Seed(p) PROVE Kept'
    BY <1>5, KeptSeed, KeptEnd DEF Seed
  <1>6. ASSUME NEW p \in Procs, Report(p) PROVE Kept'
    BY <1>6, KeptReport, KeptEnd DEF Report
  <1>7. ASSUME NEW p \in Procs, Leave(p) \/ Deliver(p) \/ Kill(p) PROVE Kept'
    <2>1. PICK step \in {"out", "print"} : at' = [at EXCEPT ![p] = step]
      BY <1>7 DEF Leave, Unlock, Deliver, Kill, Die, Go
    <2>2. at'[p] = step /\ \A q \in Procs \ {p} : at'[q] = at[q]
      BY <1>1, <2>1
    <2>3. UNCHANGED <<record, owed, blurred>> /\ \A q \in Procs \ {p} : visit'[q] = visit[q]
      BY <1>1, <1>7 DEF Leave, Deliver, Kill, ledgerVars, histories
    <2>4. intruded' = intruded \/ intruded' = intruded \ {p}
      BY <1>7 DEF Leave, Unlock, Deliver, Kill, Die
    <2>5. at'[p] \notin Inside
      BY <2>2 DEF Inside
    <2> QED BY <2>2, <2>3, <2>4, <2>5, KeptAlone
  <1>8. ASSUME NEW p \in Procs, NEW task \in Tasks, Start(p, task) PROVE Kept'
    <2>1. /\ at'[p] = "wait" /\ UNCHANGED <<record, owed, blurred, intruded>>
          /\ \A q \in Procs \ {p} : at'[q] = at[q] /\ visit'[q] = visit[q]
      BY <1>1, <1>8 DEF Start, Go, histories
    <2>2. at'[p] \notin Inside
      BY <2>1 DEF Inside
    <2> QED BY <2>1, <2>2, KeptAlone
  <1>9. CASE Scan \/ GrowOld \/ UNCHANGED vars
    <2>1. UNCHANGED <<at, visit, record, owed, blurred, intruded>>
      BY <1>9 DEF Scan, GrowOld, Age, vars, lockVars, ledgerVars, histories
    <2> QED BY <2>1 DEF Kept, Apart, Exact, InStep, Occupants
  <1> QED
    BY <1>2, <1>3, <1>4, <1>5, <1>6, <1>7, <1>8, <1>9 DEF Next, GoesOn

\* Every step keeps the invariant, as long as the ledger can be read and written.
LEMMA Inductive == Sound /\ IInv /\ [Next]_vars => IInv'
  BY TypeStep, KeptStep DEF IInv

\* The ledger holds nothing it has still to let through, but for what overlapping
\* sections blurred and no section of its own has put right since
\* (withWarnStateLock, seedReportedWarnings, unreportedWarnings).
THEOREM NothingIsMissed ==
    ASSUME Sound
    PROVE  Spec => []NothingMissed
  <1>1. IInv => NothingMissed
    BY DEF IInv, TypeOK, Kept, Exact, NothingMissed
  <1>2. IInv /\ [Next]_vars => IInv'
    BY Inductive
  <1> QED BY KeptInit, <1>1, <1>2, PTL DEF Spec

\* What a step of a section of its own gives a process to print is owed, or blurred.
LEMMA ReportsNews ==
    ASSUME Sound, IInv, [Next]_vars, NEW p \in Procs, p \notin intruded,
           visit'[p].hand # visit[p].hand
    PROVE  visit'[p].hand \subseteq owed \cup blurred
  <1>1. visit \in [Procs -> Visit] /\ visit[p] \in Visit
    BY DEF IInv, TypeOK
  <1>2. ASSUME NEW q \in Procs, NEW news, NEW r, EndVisit(q, r, news), q = p => news \subseteq owed \cup blurred
        PROVE  visit'[p].hand \subseteq owed \cup blurred
    <2>1. visit'[p] = IF p = q THEN [Fresh("idle") EXCEPT !.hand = news]
                      ELSE [visit[p] EXCEPT !.gone = @ \ news]
      BY <1>2 DEF EndVisit
    <2>2. CASE p = q
      BY <1>2, <2>1, <2>2 DEF Fresh
    <2>3. CASE p # q
      BY <1>1, <2>1, <2>3 DEF Visit
    <2> QED BY <2>2, <2>3
  <1>3. ASSUME NEW q \in Procs, Seed(q) \/ Report(q)
        PROVE  visit'[p].hand \subseteq owed \cup blurred
    BY <1>2, <1>3, KeptReport DEF Seed, Report, IInv
  <1>4. ASSUME NEW q \in Procs, NEW v, v.hand = {}, visit' = [visit EXCEPT ![q] = v]
        PROVE  visit'[p].hand \subseteq owed \cup blurred
    BY <1>1, <1>4
  <1>5. ASSUME NEW q \in Procs, ReadTable(q) \/ ReadRecord(q)
        PROVE  visit'[p].hand \subseteq owed \cup blurred
    BY <1>4, <1>5, TableRead, RecordRead DEF IInv
  <1>6. ASSUME NEW q \in Procs, Deliver(q) \/ Kill(q)
        PROVE  visit'[p].hand \subseteq owed \cup blurred
    BY <1>4, <1>6, FreshVisit DEF Deliver, Kill
  <1>7. ASSUME NEW q \in Procs, NEW task \in Tasks, Start(q, task)
        PROVE  visit'[p].hand \subseteq owed \cup blurred
    BY <1>4, <1>7, FreshVisit DEF Start
  <1>8. CASE UNCHANGED visit
    BY <1>8
  <1> QED
    BY <1>3, <1>5, <1>6, <1>7, <1>8
       DEF Next, GoesOn, Wait, Leave, Scan, GrowOld, vars, ledgerVars

\* A report of a hook that has its section to itself tells only what is due, but for
\* what overlapping sections blurred before (unreportedWarningsLocked,
\* withWarnStateLock).
THEOREM NothingIsRepeated ==
    ASSUME Sound
    PROVE  Spec => NoRepeat
  <1>1. ASSUME IInv, [Next]_vars
        PROVE  [\A p \in Procs : p \notin intruded /\ visit'[p].hand # visit[p].hand
                  => visit'[p].hand \subseteq owed \cup blurred]_vars
    BY <1>1, ReportsNews
  <1>2. IInv /\ [Next]_vars => IInv'
    BY Inductive
  <1> QED BY KeptInit, <1>1, <1>2, PTL DEF Spec, NoRepeat
=============================================================================
