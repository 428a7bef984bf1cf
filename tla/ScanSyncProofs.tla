--------------------------- MODULE ScanSyncProofs ---------------------------
(***************************************************************************)
(* For any files, processes, languages, bounds and faults: the index never *)
(* vouches for content it does not hold, and never goes back to older      *)
(* content (FreshIndex).  The assumption is that nothing puts an old copy  *)
(* back under its old mtime and that neither the config nor a directory's  *)
(* permissions change what is visible; everything else -- saves and        *)
(* deletions inside a scan, kills, failed writes and scanners -- may       *)
(* happen at any step.  And in calm weather (Calm) nothing is overlooked:  *)
(* what no diff would ever report is as it should be.                      *)
(***************************************************************************)
EXTENDS ScanSync, TLAPS

FairMtimes ==
    /\ "kept_mtime" \notin Weather
    /\ Hideable = {}
    /\ Sealable = {}

\* The graph in memory is loaded or built from this step on.
HasGraph(s) ==
    \/ s.step \in {"resolve", "settle", "write_db", "write_manifest"}
    \/ s.mode \notin {"full", "reroot"} /\ s.step \in {"snapshot", "parse"}

HasParsed(s) == s.step \in {"resolve", "settle", "write_db", "write_manifest"}

Shows(row, f) == row.err \/ row.src = disk[f]

\* Only the holder of the lock is anywhere but at rest.
Alone == \A p \in Procs : lock = p \/ scan[p] = Resting

AllVisible == hidden = {} /\ sealed = {} /\ \A p \in Procs : scan[p].filter = {}

\* Every mtime in sight was given out: the next save gets a fresh one.
GivenOut ==
    \A f \in Files :
        /\ disk[f] <= clock
        /\ manifest[f] <= clock
        /\ \A p \in Procs : scan[p].stamps[f] <= clock

\* A scan's graph shows every current file, and once it has parsed, every file
\* still under the stamp it took before.
GraphShows(s) ==
    /\ HasGraph(s) => \A f \in Current : Shows(s.topo[f], f)
    /\ HasParsed(s) =>
         \A f \in Files : s.stamps[f] # 0 /\ s.stamps[f] = disk[f] => Shows(s.topo[f], f)

\* What it stamped it is going to parse, and what it removes is not current.
Planned(s) ==
    /\ s.step \in {"parse", "resolve", "settle"} =>
         \A f \in Files : s.stamps[f] # 0 => f \in s.batch
    /\ s.mode = "update" => \E f \in Files : s.batch = {f}
    /\ s.mode \in {"full", "reroot"} \/ s.step = "diff" => s.gone = {}
    /\ s.batch \cap s.gone = {}
    /\ \A f \in s.gone : f \notin Current

Written(s) == s.step = "write_manifest" => db = s.topo

IndexShows == \A f \in Current : Shows(db[f], f)

IInv ==
    /\ TypeOK
    /\ Alone
    /\ AllVisible
    /\ GivenOut
    /\ IndexShows
    /\ \A p \in Procs : GraphShows(scan[p]) /\ Planned(scan[p]) /\ Written(scan[p])

-----------------------------------------------------------------------------
(* Type correctness.                                                       *)

\* The values a scan is built from have their types.
LEMMA Shapes ==
    /\ NoRow \in Row
    /\ Failed \in Row
    /\ EmptyGraph \in Graph
    /\ NoStamps \in [Files -> Nat]
    /\ Resting \in Scan
  BY DEF NoRow, Failed, Row, EmptyGraph, Graph, NoStamps, Resting, Scan, Steps

\* A file parses to a row.
LEMMA ParsedType ==
    ASSUME TypeOK, NEW f \in Files
    PROVE  Parsed(f) \in Row
  BY DEF TypeOK, Parsed, Row

\* Parsing files into a graph gives a graph.
LEMMA ParseIntoType ==
    ASSUME TypeOK, NEW g \in Graph, NEW S, NEW drop \in BOOLEAN
    PROVE  ParseInto(g, S, drop) \in Graph
  <1>1. ASSUME NEW f \in Files
        PROVE  [g[f] EXCEPT !.err = TRUE] \in Row
    BY DEF Graph, Row
  <1> QED BY <1>1, Shapes, ParsedType DEF ParseInto, Graph

\* Taking files out of a graph leaves a graph.
LEMMA WithoutType ==
    ASSUME NEW g \in Graph, NEW S
    PROVE  Without(g, S) \in Graph
  BY Shapes DEF Without, Graph

\* A scan that goes on to a well-formed state leaves every scan well formed.
LEMMA GoType ==
    ASSUME TypeOK, NEW p \in Procs, NEW s \in Scan, Go(p, s)
    PROVE  scan' \in [Procs -> Scan]
  BY DEF TypeOK, Go

LEMMA TypeInit == Init => TypeOK
  BY Shapes, ScanSyncAssumption DEF Init, TypeOK

\* The tree and what is written about it, when a scan does not touch it.
LEMMA TypeWorld == TypeOK /\ World => TypeOK'
  <1> SUFFICES ASSUME TypeOK, World PROVE TypeOK'
    OBVIOUS
  <1>1. ASSUME NEW f \in Files, EditFile(f) PROVE TypeOK'
    BY <1>1 DEF TypeOK, EditFile, index
  <1>2. ASSUME NEW f \in Files, RemoveFile(f) PROVE TypeOK'
    BY <1>2 DEF TypeOK, RemoveFile, index
  <1>3. ASSUME NEW f \in Files, RestoreFile(f) PROVE TypeOK'
    BY <1>3 DEF TypeOK, RestoreFile, index
  <1>4. ASSUME NEW f \in Files, ChangeVisibility(f) PROVE TypeOK'
    BY <1>4 DEF TypeOK, ChangeVisibility, index
  <1>5. ASSUME NEW f \in Files, ChangeAccess(f) PROVE TypeOK'
    BY <1>5 DEF TypeOK, ChangeAccess, index
  <1>6. ASSUME EditProject PROVE TypeOK'
    BY <1>6 DEF TypeOK, EditProject, tree, index
  <1> QED BY <1>1, <1>2, <1>3, <1>4, <1>5, <1>6 DEF World

LEMMA TypeBegin ==
    ASSUME TypeOK, NEW p \in Procs, NEW mode \in Entries, Begin(p, mode)
    PROVE  TypeOK'
  <1> DEFINE s == [Resting EXCEPT !.mode = mode, !.filter = hidden,
                     !.step = IF mode = "full" THEN "snapshot" ELSE "diff"]
  <1>1. s \in Scan
    BY Shapes DEF TypeOK, Scan, Steps, Entries
  <1>2. scan' \in [Procs -> Scan]
    BY <1>1 DEF TypeOK, Begin, Go
  <1> QED BY <1>2 DEF TypeOK, Begin, tree, index

LEMMA TypeUpdateFile ==
    ASSUME TypeOK, NEW p \in Procs, NEW f \in Files, UpdateFile(p, f)
    PROVE  TypeOK'
  <1> DEFINE s == [Resting EXCEPT !.mode = "update", !.step = "parse", !.batch = {f},
                     !.topo = db, !.stamps[f] = disk[f]]
  <1>1. s \in Scan
    BY Shapes DEF TypeOK, Scan, Steps
  <1>2. scan' \in [Procs -> Scan]
    BY <1>1 DEF TypeOK, UpdateFile, Go
  <1> QED BY <1>2 DEF TypeOK, UpdateFile, tree, index

LEMMA TypeAbort ==
    ASSUME TypeOK, NEW p \in Procs, Abort(p), faults' \in Nat
    PROVE  TypeOK'
  <1>1. scan' \in [Procs -> Scan]
    BY Shapes DEF TypeOK, Abort, Rest, Go
  <1> QED BY <1>1 DEF TypeOK, Abort, Rest, tree

LEMMA TypeDiffScan ==
    ASSUME TypeOK, NEW p \in Procs, DiffScan(p)
    PROVE  TypeOK'
  <1>1. scan[p] \in Scan
    BY DEF TypeOK
  <1>2. scan' \in [Procs -> Scan]
    <2>1. CASE stored # {"db", "manifest"} \/ ProjectChanged
      <3>1. [scan[p] EXCEPT !.step = "snapshot", !.filter = hidden,
               !.mode = IF stored = {"db", "manifest"} THEN "reroot" ELSE "full"] \in Scan
        BY <1>1 DEF TypeOK, Scan, Steps
      <3> QED BY <2>1, <3>1 DEF TypeOK, DiffScan, Go
    <2>2. CASE Rest(p)
      BY <2>2, Shapes DEF TypeOK, Rest, Go
    <2>3. ASSUME NEW mode \in {"incremental", "partial"},
                 Go(p, [scan[p] EXCEPT !.step = "snapshot", !.mode = mode,
                          !.batch = Changed(scan[p].filter),
                          !.gone = Deleted(scan[p].filter), !.topo = db])
          PROVE  scan' \in [Procs -> Scan]
      <3>1. /\ Changed(scan[p].filter) \subseteq Files
            /\ Deleted(scan[p].filter) \subseteq Files
        BY DEF Changed, Deleted, Found, OnDisk
      <3>2. [scan[p] EXCEPT !.step = "snapshot", !.mode = mode,
               !.batch = Changed(scan[p].filter),
               !.gone = Deleted(scan[p].filter), !.topo = db] \in Scan
        BY <1>1, <3>1 DEF TypeOK, Scan, Steps
      <3> QED BY <2>3, <3>2 DEF TypeOK, Go
    <2> QED BY <2>1, <2>2, <2>3 DEF DiffScan
  <1> QED BY <1>2 DEF TypeOK, DiffScan, Rest, Go, tree, index

LEMMA TypeSnapshot ==
    ASSUME TypeOK, NEW p \in Procs, Snapshot(p)
    PROVE  TypeOK'
  <1> DEFINE batch == IF scan[p].mode \in {"full", "reroot"}
                      THEN Found(scan[p].filter) ELSE scan[p].batch
             stamps == [f \in Files |-> IF f \in batch THEN disk[f] ELSE 0]
  <1>1. scan[p] \in Scan
    BY DEF TypeOK
  <1>2. batch \subseteq Files /\ stamps \in [Files -> Nat]
    BY <1>1 DEF TypeOK, Scan, Found, OnDisk
  <1> HIDE DEF batch, stamps
  <1>3. [scan[p] EXCEPT !.step = "parse", !.batch = batch, !.stamps = stamps] \in Scan
    BY <1>1, <1>2 DEF Scan, Steps
  <1>4. Go(p, [scan[p] EXCEPT !.step = "parse", !.batch = batch, !.stamps = stamps])
    BY DEF Snapshot, batch, stamps
  <1>5. scan' \in [Procs -> Scan]
    BY <1>3, <1>4, GoType
  <1> QED BY <1>5 DEF TypeOK, Snapshot, tree, index

\* A step that only replaces the graph and moves on.
LEMMA TypeGraphStep ==
    ASSUME TypeOK, NEW p \in Procs, NEW step \in Steps, NEW g \in Graph,
           Go(p, [scan[p] EXCEPT !.step = step, !.topo = g]),
           UNCHANGED <<tree, project, turns, index, lock>>,
           faults' \in Nat
    PROVE  TypeOK'
  <1>1. scan[p] \in Scan
    BY DEF TypeOK
  <1>2. [scan[p] EXCEPT !.step = step, !.topo = g] \in Scan
    BY <1>1 DEF Scan
  <1>3. scan' \in [Procs -> Scan]
    BY <1>2, GoType
  <1> QED BY <1>3 DEF TypeOK, tree, index

LEMMA TypeParseChanged ==
    ASSUME TypeOK, NEW p \in Procs, ParseChanged(p)
    PROVE  TypeOK'
  <1>1. PICK drop \in BOOLEAN :
           Go(p, [scan[p] EXCEPT !.step = "resolve",
                    !.topo = ParseInto(@, scan[p].batch, drop)])
    BY DEF ParseChanged
  <1>2. PICK g : g = ParseInto(scan[p].topo, scan[p].batch, drop)
    OBVIOUS
  <1>3. scan[p].topo \in Graph
    BY DEF TypeOK, Scan
  <1>4. g \in Graph
    BY <1>2, <1>3, ParseIntoType
  <1>5. Go(p, [scan[p] EXCEPT !.step = "resolve", !.topo = g])
    BY <1>1, <1>2
  <1> QED BY <1>4, <1>5, TypeGraphStep DEF ParseChanged, Steps, TypeOK

LEMMA TypeResolveAll ==
    ASSUME TypeOK, NEW p \in Procs, ResolveAll(p)
    PROVE  TypeOK'
  <1>1. PICK extra \in SUBSET Files, drop \in BOOLEAN :
           Go(p, [scan[p] EXCEPT
                    !.step = IF scan[p].gone = {} THEN "write_db" ELSE "settle",
                    !.topo = ParseInto(@, scan[p].batch \cup extra, drop)])
    BY DEF ResolveAll, Indexed
  <1>2. PICK g : g = ParseInto(scan[p].topo, scan[p].batch \cup extra, drop)
    OBVIOUS
  <1>3. PICK step \in Steps : step = IF scan[p].gone = {} THEN "write_db" ELSE "settle"
    BY DEF Steps
  <1>4. g \in Graph
    BY <1>2, ParseIntoType DEF TypeOK, Scan
  <1>5. Go(p, [scan[p] EXCEPT !.step = step, !.topo = g])
    BY <1>1, <1>2, <1>3
  <1> QED BY <1>4, <1>5, TypeGraphStep DEF ResolveAll, TypeOK

LEMMA TypeRemoveDeleted ==
    ASSUME TypeOK, NEW p \in Procs, RemoveDeleted(p)
    PROVE  TypeOK'
  <1>1. PICK rest : rest = Without(scan[p].topo, scan[p].gone)
    OBVIOUS
  <1>2. rest \in Graph
    BY <1>1, WithoutType DEF TypeOK, Scan
  <1>3. PICK tied : Go(p, [scan[p] EXCEPT !.step = "write_db",
                             !.topo = ParseInto(rest, tied, FALSE)])
    BY <1>1 DEF RemoveDeleted
  <1>4. PICK g : g = ParseInto(rest, tied, FALSE)
    OBVIOUS
  <1>5. g \in Graph
    BY <1>2, <1>4, ParseIntoType
  <1>6. Go(p, [scan[p] EXCEPT !.step = "write_db", !.topo = g])
    BY <1>3, <1>4
  <1> QED BY <1>5, <1>6, TypeGraphStep DEF RemoveDeleted, Steps, TypeOK

LEMMA TypeParsePartial ==
    ASSUME TypeOK, NEW p \in Procs, ParsePartial(p)
    PROVE  TypeOK'
  <1>1. CASE Go(p, [scan[p] EXCEPT !.step = "write_db",
                      !.topo = ParseInto(@, scan[p].batch, FALSE)])
    <2>1. PICK g : g = ParseInto(scan[p].topo, scan[p].batch, FALSE)
      OBVIOUS
    <2>2. g \in Graph
      BY <2>1, ParseIntoType DEF TypeOK, Scan
    <2>3. Go(p, [scan[p] EXCEPT !.step = "write_db", !.topo = g])
      BY <1>1, <2>1
    <2> QED BY <2>2, <2>3, TypeGraphStep DEF ParsePartial, Steps, TypeOK
  <1>2. CASE Go(p, [scan[p] EXCEPT !.step = "snapshot", !.mode = "incremental"])
    <2>1. [scan[p] EXCEPT !.step = "snapshot", !.mode = "incremental"] \in Scan
      BY ZenonT(60) DEF TypeOK, Scan, Steps
    <2>2. scan' \in [Procs -> Scan]
      BY <1>2, <2>1, GoType
    <2> QED BY <2>2 DEF TypeOK, ParsePartial, tree, index
  <1> QED BY <1>1, <1>2 DEF ParsePartial

LEMMA TypeParseUpdated ==
    ASSUME TypeOK, NEW p \in Procs, ParseUpdated(p)
    PROVE  TypeOK'
  <1>1. PICK f : f = CHOOSE g \in Files : scan[p].batch = {g}
    OBVIOUS
  <1>2. PICK rest : rest = Without(scan[p].topo, {f})
    OBVIOUS
  <1>3. rest \in Graph /\ scan[p].topo \in Graph
    BY <1>2, WithoutType DEF TypeOK, Scan
  <1>4. PICK g : /\ g = ParseInto(scan[p].topo, {f}, FALSE)
                    \/ \E tied : g = ParseInto(rest, tied, FALSE)
                 /\ Go(p, [scan[p] EXCEPT !.step = "write_db", !.topo = g])
    <2>1. CASE f \in hidden \/ disk[f] = 0
      BY <1>1, <1>2, <2>1 DEF ParseUpdated
    <2>2. CASE ~(f \in hidden \/ disk[f] = 0)
      BY <1>1, <1>2, <2>2 DEF ParseUpdated
    <2> QED BY <2>1, <2>2
  <1>5. g \in Graph
    BY <1>3, <1>4, ParseIntoType
  <1> QED BY <1>4, <1>5, TypeGraphStep DEF ParseUpdated, Steps, TypeOK

LEMMA TypeScanAllLanguages ==
    ASSUME TypeOK, NEW p \in Procs, ScanAllLanguages(p)
    PROVE  TypeOK'
  <1>1. faults' \in Nat
    BY DEF ScanAllLanguages, TypeOK, Fault
  <1>2. CASE Abort(p)
    BY <1>1, <1>2, TypeAbort
  <1>3. ASSUME NEW failed,
               NEW g, g = [f \in Files |-> IF f \notin Found(scan[p].filter) THEN NoRow
                                           ELSE IF Lang[f] \in failed THEN Failed
                                           ELSE Parsed(f)],
               Go(p, [scan[p] EXCEPT !.step = "write_db", !.topo = g]),
               UNCHANGED <<tree, project, turns, index, lock>>
        PROVE  TypeOK'
    <2>1. g \in Graph
      BY <1>3, Shapes, ParsedType DEF Graph
    <2> QED BY <1>1, <1>3, <2>1, TypeGraphStep DEF Steps
  <1> QED BY <1>2, <1>3 DEF ScanAllLanguages

LEMMA TypeWriteDb ==
    ASSUME TypeOK, NEW p \in Procs, WriteDb(p)
    PROVE  TypeOK'
  <1>1. [scan[p] EXCEPT !.step = "write_manifest"] \in Scan /\ scan[p].topo \in Graph
    BY ZenonT(60) DEF TypeOK, Scan, Steps
  <1>2. scan' \in [Procs -> Scan]
    BY <1>1, GoType DEF WriteDb
  <1> QED BY <1>1, <1>2 DEF TypeOK, WriteDb, tree

LEMMA NewManifestType ==
    ASSUME TypeOK, NEW s \in Scan
    PROVE  NewManifest(s) \in [Files -> Nat]
  <1>1. s.stamps \in [Files -> Nat]
    BY DEF Scan
  <1>2. StampManifest(s) \in [Files -> Nat]
    BY <1>1 DEF TypeOK, StampManifest
  <1>3. SyncManifest(s) \in [Files -> Nat]
    BY <1>1 DEF TypeOK, SyncManifest
  <1>4. StampOrForget(s) \in [Files -> Nat]
    BY <1>2 DEF TypeOK, StampOrForget
  <1> QED BY <1>2, <1>3, <1>4 DEF NewManifest

LEMMA TypeWriteManifest ==
    ASSUME TypeOK, NEW p \in Procs, WriteManifest(p)
    PROVE  TypeOK'
  <1>1. scan[p] \in Scan
    BY DEF TypeOK
  <1>2. manifest' \in [Files -> Nat] /\ stored' \subseteq {"db", "manifest"} /\ faults' \in Nat
    BY <1>1, NewManifestType DEF TypeOK, WriteManifest, Fault
  <1>3. [scan[p] EXCEPT !.step = "record"] \in Scan
    BY <1>1 DEF Scan, Steps
  <1>4. scan' \in [Procs -> Scan]
    BY <1>3, Shapes, GoType DEF WriteManifest, Rest
  <1> QED BY <1>2, <1>4 DEF TypeOK, WriteManifest, Rest, tree

LEMMA TypeEnd ==
    ASSUME TypeOK, NEW p \in Procs, WriteDbFails(p) \/ RecordProject(p) \/ Kill(p)
    PROVE  TypeOK'
  <1>1. CASE WriteDbFails(p)
    BY <1>1, TypeAbort DEF WriteDbFails, Fault, TypeOK
  <1>2. CASE RecordProject(p) \/ Kill(p)
    <2>1. Rest(p) /\ faults' \in Nat
      BY <1>2 DEF RecordProject, Kill, Fault, TypeOK
    <2>2. scan' \in [Procs -> Scan]
      BY <2>1, Shapes, GoType DEF Rest
    <2> QED BY <1>2, <2>1, <2>2 DEF TypeOK, RecordProject, Kill, Rest, tree, index
  <1> QED BY <1>1, <1>2

LEMMA TypeNext == TypeOK /\ [Next]_vars => TypeOK'
  <1> SUFFICES ASSUME TypeOK, [Next]_vars PROVE TypeOK'
    OBVIOUS
  <1>1. CASE World
    BY <1>1, TypeWorld
  <1>2. CASE \E p \in Procs : \/ \E mode \in Entries : Begin(p, mode)
                              \/ \E f \in Files : UpdateFile(p, f)
                              \/ Work(p) \/ WriteDbFails(p) \/ Kill(p)
    BY <1>2, TypeBegin, TypeUpdateFile, TypeDiffScan, TypeSnapshot, TypeParseChanged,
       TypeResolveAll, TypeRemoveDeleted, TypeParsePartial, TypeParseUpdated,
       TypeScanAllLanguages, TypeWriteDb, TypeWriteManifest, TypeEnd DEF Work
  <1>3. CASE UNCHANGED vars
    BY <1>3 DEF TypeOK, vars, tree, index
  <1> QED BY <1>1, <1>2, <1>3 DEF Next

\* Every variable keeps its type, whatever the weather.
THEOREM TypeCorrect == Spec => []TypeOK
  BY TypeInit, TypeNext, PTL DEF Spec

-----------------------------------------------------------------------------
(* The index never vouches for what it does not hold.                      *)

\* A state with nobody scanning has nothing to check of the scans.
LEMMA RestingShows ==
    ASSUME TypeOK
    PROVE  /\ GraphShows(Resting) /\ Planned(Resting) /\ Written(Resting)
           /\ Resting.filter = {} /\ \A f \in Files : Resting.stamps[f] = 0
           /\ Resting.step = "idle" /\ Resting.gone = {}
  BY DEF GraphShows, Planned, Written, Resting, HasGraph, HasParsed, NoStamps

\* The invariant holds before the first scan.
LEMMA InvInit == Init => IInv
  <1> SUFFICES ASSUME Init PROVE IInv
    OBVIOUS
  <1>1. TypeOK
    BY TypeInit
  <1>2. Alone /\ Current = {}
    BY DEF Init, Alone, Current, NoStamps
  <1>3. AllVisible /\ GivenOut
    BY <1>1, RestingShows DEF Init, AllVisible, GivenOut, NoStamps
  <1>4. \A p \in Procs : scan[p] = Resting
    BY DEF Init
  <1> QED BY <1>1, <1>2, <1>3, <1>4, RestingShows DEF IInv, IndexShows

\* A file that changes, to nothing or to an mtime never given out, stops being
\* current and drops out of reach of every stamp; nothing else changes.
LEMMA InvTouch ==
    ASSUME IInv, TypeOK', NEW f \in Files, NEW t \in Nat,
           disk' = [disk EXCEPT ![f] = t], t = 0 \/ t > clock, t <= clock', clock <= clock',
           UNCHANGED <<hidden, sealed, index, lock, scan>>
    PROVE  IInv'
  <1>1. /\ disk \in [Files -> Nat] /\ manifest \in [Files -> Nat]
        /\ clock \in Nat /\ clock' \in Nat /\ manifest' = manifest /\ db' = db
        /\ \A p \in Procs : scan[p] \in Scan
    BY DEF IInv, TypeOK, index
  <1>2. Current' \subseteq Current \ {f}
    BY <1>1 DEF Current, IInv, GivenOut
  <1>3. \A g \in Files : g # f => disk'[g] = disk[g]
    BY <1>1
  <1>4. GivenOut'
    <2>1. \A g \in Files : disk'[g] <= clock'
      BY <1>1 DEF IInv, GivenOut
    <2>2. \A g \in Files : manifest[g] <= clock'
      BY <1>1 DEF IInv, GivenOut
    <2>3. ASSUME NEW g \in Files, NEW p \in Procs PROVE scan[p].stamps[g] <= clock'
      BY <1>1 DEF IInv, GivenOut, Scan
    <2> QED BY <1>1, <2>1, <2>2, <2>3 DEF GivenOut
  <1>5. IndexShows'
    BY <1>1, <1>2, <1>3 DEF IInv, IndexShows, Shows, Current
  <1>6. ASSUME NEW p \in Procs PROVE (GraphShows(scan[p]) /\ Planned(scan[p]) /\ Written(scan[p]))'
    <2>1. scan'[p] = scan[p]
      OBVIOUS
    <2>2. \A g \in Files : scan[p].stamps[g] # 0 /\ scan[p].stamps[g] = disk'[g] => g # f
      BY <1>1 DEF IInv, GivenOut, Scan
    <2>3. GraphShows(scan[p])'
      BY <1>2, <1>3, <2>1, <2>2 DEF IInv, GraphShows, Shows, HasGraph, HasParsed, Current
    <2>4. Planned(scan[p])' /\ Written(scan[p])'
      BY <1>1, <1>2, <2>1 DEF IInv, Planned, Written
    <2> QED BY <2>3, <2>4
  <1> QED BY <1>4, <1>5, <1>6 DEF IInv, Alone, AllVisible

\* Nothing outside a scan can make the index vouch for what it does not hold.
LEMMA InvWorld == FairMtimes /\ IInv /\ World => IInv'
  <1> SUFFICES ASSUME FairMtimes, IInv, World PROVE IInv'
    OBVIOUS
  <1>1. TypeOK'
    BY TypeWorld DEF IInv
  <1>2. ASSUME NEW f \in Files, EditFile(f) PROVE IInv'
    <2>1. PICK t \in Nat : t = clock + 1
      BY DEF IInv, TypeOK
    <2>2. t > clock /\ t <= clock' /\ clock <= clock' /\ disk' = [disk EXCEPT ![f] = t]
      BY <1>2, <2>1 DEF EditFile, IInv, TypeOK
    <2>3. UNCHANGED <<hidden, sealed, index, lock, scan>>
      BY <1>2 DEF EditFile
    <2> QED BY <1>1, <2>2, <2>3, InvTouch
  <1>3. ASSUME NEW f \in Files, RemoveFile(f) PROVE IInv'
    <2>1. PICK t \in Nat : t = 0
      OBVIOUS
    <2>2. t <= clock' /\ clock <= clock' /\ disk' = [disk EXCEPT ![f] = t]
      BY <1>3, <2>1 DEF RemoveFile, IInv, TypeOK
    <2>3. UNCHANGED <<hidden, sealed, index, lock, scan>>
      BY <1>3 DEF RemoveFile
    <2> QED BY <1>1, <2>1, <2>2, <2>3, InvTouch
  <1>4. ASSUME NEW f \in Files, RestoreFile(f) \/ ChangeVisibility(f) \/ ChangeAccess(f)
        PROVE IInv'
    BY <1>4 DEF FairMtimes, RestoreFile, ChangeVisibility, ChangeAccess
  <1>5. CASE EditProject
    BY <1>1, <1>5 DEF EditProject, tree, index, IInv, Alone, AllVisible, GivenOut, IndexShows,
       GraphShows, Planned, Written, Shows, Current
  <1> QED BY <1>2, <1>3, <1>4, <1>5 DEF World

\* What has to be shown of a step of p's scan to a state s: the invariant's
\* clauses about s and the index.  Every other scan rests, before and after.
LEMMA InvStep ==
    ASSUME IInv, TypeOK', NEW p \in Procs, NEW s \in Scan, Go(p, s),
           lock \in {p, NoProc}, lock' = p \/ s = Resting,
           UNCHANGED tree,
           s.filter = {}, \A f \in Files : s.stamps[f] <= clock /\ manifest'[f] <= clock,
           IndexShows', GraphShows(s)', Planned(s)', Written(s)'
    PROVE  IInv'
  <1>1. scan' = [scan EXCEPT ![p] = s] /\ scan \in [Procs -> Scan]
    BY DEF Go, IInv, TypeOK
  <1>2. scan'[p] = s /\ \A q \in Procs \ {p} : scan'[q] = Resting
    BY <1>1, ScanSyncAssumption DEF IInv, Alone
  <1>3. Alone'
    BY <1>2 DEF Alone
  <1>4. AllVisible' /\ GivenOut'
    <2>1. clock' = clock /\ disk' = disk /\ hidden' = hidden /\ sealed' = sealed
      BY DEF tree
    <2>2. \A q \in Procs : scan'[q].filter = {}
      BY <1>2, RestingShows DEF IInv
    <2>3. \A q \in Procs, f \in Files : scan'[q].stamps[f] <= clock
      BY <1>2, RestingShows DEF IInv, TypeOK
    <2> QED BY <2>1, <2>2, <2>3 DEF AllVisible, GivenOut, IInv
  <1>5. (GraphShows(Resting) /\ Planned(Resting) /\ Written(Resting))'
    BY DEF GraphShows, Planned, Written, Resting, HasGraph, HasParsed
  <1>6. \A q \in Procs : (GraphShows(scan[q]) /\ Planned(scan[q]) /\ Written(scan[q]))'
    <2>1. ASSUME NEW q \in Procs PROVE (GraphShows(scan[q]) /\ Planned(scan[q]) /\ Written(scan[q]))'
      BY <1>2, <1>5 DEF GraphShows, Planned, Written, HasGraph, HasParsed
    <2> QED BY <2>1
  <1> QED BY <1>3, <1>4, <1>6 DEF IInv

\* Going back to rest is always safe when the index was left as it is.
LEMMA InvRest ==
    ASSUME IInv, TypeOK', NEW p \in Procs, lock = p, Rest(p), UNCHANGED <<tree, db, manifest>>
    PROVE  IInv'
  <1>1. PICK s \in Scan : s = Resting
    BY Shapes
  <1>2. IndexShows'
    BY DEF IInv, IndexShows, Current, Shows, tree
  <1>3. (GraphShows(s) /\ Planned(s) /\ Written(s))'
    BY <1>1 DEF GraphShows, Planned, Written, Resting, HasGraph, HasParsed
  <1>4. s.filter = {} /\ \A f \in Files : s.stamps[f] <= clock /\ manifest'[f] <= clock
    BY <1>1, RestingShows DEF IInv, TypeOK, GivenOut
  <1> QED BY <1>1, <1>2, <1>3, <1>4, InvStep DEF Rest

LEMMA InvBegin ==
    ASSUME IInv, NEW p \in Procs, NEW mode \in Entries, Begin(p, mode)
    PROVE  IInv'
  <1>1. TypeOK' /\ mode \in {"incremental", "full"}
    BY TypeBegin DEF IInv, Begin
  <1>2. PICK s : s = [Resting EXCEPT !.mode = mode, !.filter = hidden,
                        !.step = IF mode = "full" THEN "snapshot" ELSE "diff"]
    OBVIOUS
  <1>3. s \in Scan
    BY <1>2, Shapes DEF IInv, TypeOK, Scan, Steps, Entries
  <1>4. /\ s.mode = mode /\ s.step = IF mode = "full" THEN "snapshot" ELSE "diff"
        /\ s.filter = {} /\ s.batch = {} /\ s.gone = {} /\ s.stamps = NoStamps
    BY <1>2 DEF Resting, IInv, AllVisible
  <1>5. (GraphShows(s) /\ Planned(s) /\ Written(s))'
    BY <1>1, <1>4 DEF GraphShows, Planned, Written, HasGraph, HasParsed
  <1>6. IndexShows'
    BY DEF Begin, IInv, IndexShows, Current, Shows, tree, index
  <1>7. \A f \in Files : s.stamps[f] <= clock /\ manifest'[f] <= clock
    BY <1>4 DEF Begin, index, IInv, GivenOut, TypeOK, NoStamps
  <1>8. Go(p, s) /\ lock = NoProc /\ lock' = p /\ UNCHANGED tree
    BY <1>2 DEF Begin
  <1> QED BY <1>1, <1>3, <1>4, <1>5, <1>6, <1>7, <1>8, InvStep

LEMMA InvUpdateFile ==
    ASSUME IInv, NEW p \in Procs, NEW f \in Files, UpdateFile(p, f)
    PROVE  IInv'
  <1>1. TypeOK'
    BY TypeUpdateFile DEF IInv
  <1>2. PICK s : s = [Resting EXCEPT !.mode = "update", !.step = "parse", !.batch = {f},
                        !.topo = db, !.stamps[f] = disk[f]]
    OBVIOUS
  <1>3. s \in Scan
    BY <1>2, Shapes DEF IInv, TypeOK, Scan, Steps
  <1>4. /\ s.mode = "update" /\ s.step = "parse" /\ s.batch = {f} /\ s.topo = db
        /\ s.gone = {} /\ s.filter = {} /\ s.stamps = [NoStamps EXCEPT ![f] = disk[f]]
    BY <1>2 DEF Resting
  <1>5. disk' = disk /\ manifest' = manifest /\ db' = db
    BY DEF UpdateFile, tree, index
  <1>6. IndexShows'
    BY <1>5 DEF IInv, IndexShows, Current, Shows
  <1>7. (GraphShows(s) /\ Planned(s) /\ Written(s))'
    BY <1>4, <1>5, <1>6 DEF IndexShows, GraphShows, Planned, Written, HasGraph, HasParsed,
       NoStamps, Shows
  <1>8. \A g \in Files : s.stamps[g] <= clock /\ manifest'[g] <= clock
    BY <1>4, <1>5 DEF IInv, GivenOut, TypeOK, NoStamps
  <1>9. Go(p, s) /\ lock = NoProc /\ lock' = p /\ UNCHANGED tree
    BY <1>2 DEF UpdateFile
  <1> QED BY <1>1, <1>3, <1>4, <1>6, <1>7, <1>8, <1>9, InvStep

LEMMA InvDiffScan ==
    ASSUME IInv, NEW p \in Procs, DiffScan(p)
    PROVE  IInv'
  <1>1. TypeOK' /\ scan[p] \in Scan
    BY TypeDiffScan DEF IInv, TypeOK
  <1>2. /\ scan[p].step = "diff" /\ lock = p /\ UNCHANGED tree
        /\ disk' = disk /\ manifest' = manifest /\ db' = db
    BY DEF DiffScan, At, tree
  <1>3. scan[p].gone = {} /\ scan[p].filter = {} /\ hidden = {} /\ sealed = {}
    BY <1>2 DEF IInv, Planned, AllVisible
  <1>4. IndexShows'
    BY <1>2 DEF IInv, IndexShows, Current, Shows
  <1>5. \A f \in Files : scan[p].stamps[f] <= clock /\ manifest'[f] <= clock
    BY <1>2 DEF IInv, GivenOut
  <1>6. CASE Rest(p)
    BY <1>1, <1>2, <1>6, InvRest
  <1>7. ASSUME NEW mode \in {"full", "reroot"},
               Go(p, [scan[p] EXCEPT !.step = "snapshot", !.filter = hidden, !.mode = mode]),
               lock' = lock
        PROVE  IInv'
    <2>1. PICK s : s = [scan[p] EXCEPT !.step = "snapshot", !.filter = hidden, !.mode = mode]
      OBVIOUS
    <2>2. s \in Scan
      BY <1>1, <2>1 DEF IInv, TypeOK, Scan, Steps
    <2>3. /\ s.step = "snapshot" /\ s.mode = mode /\ s.filter = {} /\ s.gone = {}
          /\ s.stamps = scan[p].stamps
      BY <1>1, <1>3, <2>1 DEF Scan
    <2>4. (GraphShows(s) /\ Planned(s) /\ Written(s))'
      BY <2>3 DEF GraphShows, Planned, Written, HasGraph, HasParsed
    <2> QED BY <1>1, <1>2, <1>4, <1>5, <1>7, <2>1, <2>2, <2>3, <2>4, InvStep
  <1>8. ASSUME NEW mode \in {"incremental", "partial"},
               Go(p, [scan[p] EXCEPT !.step = "snapshot", !.mode = mode,
                        !.batch = Changed(scan[p].filter),
                        !.gone = Deleted(scan[p].filter), !.topo = db]),
               lock' = lock
        PROVE  IInv'
    <2>1. PICK s : s = [scan[p] EXCEPT !.step = "snapshot", !.mode = mode,
                          !.batch = Changed(scan[p].filter),
                          !.gone = Deleted(scan[p].filter), !.topo = db]
      OBVIOUS
    <2>2. s \in Scan
      BY <1>1, <2>1 DEF IInv, TypeOK, Scan, Steps, Changed, Deleted, Found, OnDisk
    <2>3. /\ s.step = "snapshot" /\ s.mode = mode /\ s.filter = {} /\ s.topo = db
          /\ s.stamps = scan[p].stamps
          /\ s.batch = Changed({}) /\ s.gone = Deleted({})
      BY <1>1, <1>3, <2>1 DEF Scan
    <2>4. s.batch \cap s.gone = {} /\ \A f \in s.gone : f \notin Current
      BY <1>3, <2>3 DEF Changed, Deleted, Found, OnDisk, Current
    <2>5. Current' = Current
      BY <1>2 DEF Current
    <2>6. (GraphShows(s) /\ Planned(s) /\ Written(s))'
      BY <1>2, <1>4, <2>3, <2>4, <2>5
         DEF GraphShows, Planned, Written, HasGraph, HasParsed, IndexShows, Shows
    <2> QED BY <1>1, <1>2, <1>4, <1>5, <1>8, <2>1, <2>2, <2>3, <2>6, InvStep
  <1> QED BY <1>6, <1>7, <1>8 DEF DiffScan

LEMMA InvSnapshot ==
    ASSUME IInv, NEW p \in Procs, Snapshot(p)
    PROVE  IInv'
  <1>1. TypeOK' /\ scan[p] \in Scan /\ disk \in [Files -> Nat]
    BY TypeSnapshot DEF IInv, TypeOK
  <1>2. /\ scan[p].step = "snapshot" /\ lock = p /\ lock' = p /\ UNCHANGED tree
        /\ disk' = disk /\ manifest' = manifest /\ db' = db
    BY DEF Snapshot, At, tree, index
  <1>3. PICK batch : batch = IF scan[p].mode \in {"full", "reroot"}
                             THEN Found(scan[p].filter) ELSE scan[p].batch
    OBVIOUS
  <1>4. PICK stamps : stamps = [f \in Files |-> IF f \in batch THEN disk[f] ELSE 0]
    OBVIOUS
  <1>5. batch \subseteq Files /\ stamps \in [Files -> Nat]
    BY <1>1, <1>3, <1>4 DEF Scan, Found, OnDisk
  <1>6. PICK s : s = [scan[p] EXCEPT !.step = "parse", !.batch = batch, !.stamps = stamps]
    OBVIOUS
  <1>7. s \in Scan /\ Go(p, s)
    BY <1>1, <1>3, <1>4, <1>5, <1>6 DEF Snapshot, Scan, Steps
  <1>8. /\ s.step = "parse" /\ s.mode = scan[p].mode /\ s.filter = scan[p].filter
        /\ s.gone = scan[p].gone /\ s.topo = scan[p].topo
        /\ s.batch = batch /\ s.stamps = stamps
    BY <1>1, <1>6 DEF Scan
  <1>9. IndexShows' /\ Current' = Current
    BY <1>2 DEF IInv, IndexShows, Current, Shows
  <1>10. GraphShows(s)'
    BY <1>2, <1>8, <1>9 DEF IInv, GraphShows, HasGraph, HasParsed, Shows
  <1>11. Planned(s)' /\ Written(s)'
    <2>1. \A f \in Files : stamps[f] # 0 => f \in batch
      BY <1>4
    <2>2. scan[p].mode \in {"full", "reroot"} => scan[p].gone = {}
      BY DEF IInv, Planned
    <2> QED BY <1>3, <1>8, <1>9, <2>1, <2>2 DEF IInv, Planned, Written
  <1>12. s.filter = {} /\ \A f \in Files : s.stamps[f] <= clock /\ manifest'[f] <= clock
    BY <1>1, <1>2, <1>4, <1>8 DEF IInv, AllVisible, GivenOut, TypeOK
  <1> QED BY <1>1, <1>2, <1>7, <1>9, <1>10, <1>11, <1>12, InvStep

\* A parsed file is shown: its content as it is on disk, or an error.
LEMMA ParseIntoShows ==
    ASSUME TypeOK, NEW g \in Graph, NEW S, NEW drop \in BOOLEAN, NEW f \in Files,
           f \in S \/ Shows(g[f], f)
    PROVE  Shows(ParseInto(g, S, drop)[f], f)
  <1>1. ParseInto(g, S, drop)[f] =
          IF f \notin S THEN g[f]
          ELSE IF disk[f] # 0 THEN Parsed(f)
          ELSE IF drop THEN Failed ELSE [g[f] EXCEPT !.err = TRUE]
    BY DEF ParseInto
  <1>2. g[f] \in Row
    BY DEF Graph
  <1>3. [g[f] EXCEPT !.err = TRUE].err
    BY <1>2 DEF Row
  <1>4. Failed.err /\ Parsed(f).src = disk[f]
    BY DEF Failed, NoRow, Parsed
  <1> QED BY <1>1, <1>3, <1>4 DEF Shows

\* A step that replaces the graph by one that shows every current file and
\* every file still under its stamp.
LEMMA InvGraph ==
    ASSUME IInv, TypeOK', NEW p \in Procs, NEW g \in Graph,
           NEW step \in {"resolve", "settle", "write_db"},
           scan[p].step \in {"parse", "resolve", "settle"}, lock = p,
           Go(p, [scan[p] EXCEPT !.step = step, !.topo = g]),
           UNCHANGED <<tree, index, lock>>,
           \A f \in Current : Shows(g[f], f),
           \A f \in Files : scan[p].stamps[f] # 0 /\ scan[p].stamps[f] = disk[f] => Shows(g[f], f)
    PROVE  IInv'
  <1>1. scan[p] \in Scan
    BY DEF IInv, TypeOK
  <1>2. PICK s : s = [scan[p] EXCEPT !.step = step, !.topo = g]
    OBVIOUS
  <1>3. s \in Scan /\ Go(p, s)
    BY <1>1, <1>2 DEF Scan, Steps
  <1>4. /\ s.step = step /\ s.topo = g /\ s.mode = scan[p].mode /\ s.batch = scan[p].batch
        /\ s.gone = scan[p].gone /\ s.stamps = scan[p].stamps /\ s.filter = scan[p].filter
    BY <1>1, <1>2 DEF Scan
  <1>5. disk' = disk /\ manifest' = manifest /\ db' = db /\ UNCHANGED tree /\ lock' = p
    BY DEF tree, index
  <1>6. IndexShows' /\ Current' = Current
    BY <1>5 DEF IInv, IndexShows, Current, Shows
  <1>7. GraphShows(s)'
    BY <1>4, <1>5, <1>6 DEF GraphShows, Shows
  <1>8. Planned(s)' /\ Written(s)'
    BY <1>4, <1>5, <1>6 DEF IInv, Planned, Written
  <1>9. s.filter = {} /\ \A f \in Files : s.stamps[f] <= clock /\ manifest'[f] <= clock
    BY <1>4, <1>5 DEF IInv, AllVisible, GivenOut
  <1> QED BY <1>3, <1>5, <1>6, <1>7, <1>8, <1>9, InvStep

LEMMA InvParseChanged ==
    ASSUME IInv, NEW p \in Procs, ParseChanged(p)
    PROVE  IInv'
  <1>1. TypeOK /\ TypeOK' /\ scan[p] \in Scan
    BY TypeParseChanged DEF IInv, TypeOK
  <1>2. PICK drop \in BOOLEAN :
           Go(p, [scan[p] EXCEPT !.step = "resolve",
                    !.topo = ParseInto(@, scan[p].batch, drop)])
    BY DEF ParseChanged
  <1>3. PICK g : g = ParseInto(scan[p].topo, scan[p].batch, drop)
    OBVIOUS
  <1>4. g \in Graph /\ scan[p].topo \in Graph
    BY <1>1, <1>3, ParseIntoType DEF Scan
  <1>5. \A f \in Current : Shows(scan[p].topo[f], f)
    BY DEF IInv, GraphShows, HasGraph, ParseChanged, At
  <1>6. \A f \in Files : scan[p].stamps[f] # 0 => f \in scan[p].batch
    BY DEF IInv, Planned, ParseChanged, At
  <1>7. \A f \in Current : Shows(g[f], f)
    BY <1>1, <1>3, <1>4, <1>5, ParseIntoShows DEF Current
  <1>8. \A f \in Files : scan[p].stamps[f] # 0 /\ scan[p].stamps[f] = disk[f] => Shows(g[f], f)
    BY <1>1, <1>3, <1>4, <1>6, ParseIntoShows
  <1>9. Go(p, [scan[p] EXCEPT !.step = "resolve", !.topo = g])
    BY <1>2, <1>3
  <1>10. lock = p /\ scan[p].step = "parse" /\ UNCHANGED <<tree, index, lock>>
    BY DEF ParseChanged, At
  <1> QED BY <1>1, <1>4, <1>7, <1>8, <1>9, <1>10, InvGraph

LEMMA InvResolveAll ==
    ASSUME IInv, NEW p \in Procs, ResolveAll(p)
    PROVE  IInv'
  <1>1. TypeOK /\ TypeOK' /\ scan[p] \in Scan
    BY TypeResolveAll DEF IInv, TypeOK
  <1>2. PICK extra \in SUBSET Files, drop \in BOOLEAN :
           Go(p, [scan[p] EXCEPT
                    !.step = IF scan[p].gone = {} THEN "write_db" ELSE "settle",
                    !.topo = ParseInto(@, scan[p].batch \cup extra, drop)])
    BY DEF ResolveAll, Indexed
  <1>3. PICK g : g = ParseInto(scan[p].topo, scan[p].batch \cup extra, drop)
    OBVIOUS
  <1>4. PICK step \in {"resolve", "settle", "write_db"} :
           step = IF scan[p].gone = {} THEN "write_db" ELSE "settle"
    OBVIOUS
  <1>5. g \in Graph /\ scan[p].topo \in Graph
    BY <1>1, <1>3, ParseIntoType DEF Scan
  <1>6. \A f \in Current : Shows(scan[p].topo[f], f)
    BY DEF IInv, GraphShows, HasGraph, ResolveAll, At
  <1>7. \A f \in Files : scan[p].stamps[f] # 0 => f \in scan[p].batch \cup extra
    BY DEF IInv, Planned, ResolveAll, At
  <1>8. \A f \in Current : Shows(g[f], f)
    BY <1>1, <1>3, <1>5, <1>6, ParseIntoShows DEF Current
  <1>9. \A f \in Files : scan[p].stamps[f] # 0 /\ scan[p].stamps[f] = disk[f] => Shows(g[f], f)
    BY <1>1, <1>3, <1>5, <1>7, ParseIntoShows
  <1>10. Go(p, [scan[p] EXCEPT !.step = step, !.topo = g])
    BY <1>2, <1>3, <1>4
  <1>11. lock = p /\ scan[p].step = "resolve" /\ UNCHANGED <<tree, index, lock>>
    BY DEF ResolveAll, At
  <1> QED BY <1>1, <1>5, <1>8, <1>9, <1>10, <1>11, InvGraph

LEMMA InvRemoveDeleted ==
    ASSUME IInv, NEW p \in Procs, RemoveDeleted(p)
    PROVE  IInv'
  <1>1. TypeOK /\ TypeOK' /\ scan[p] \in Scan
    BY TypeRemoveDeleted DEF IInv, TypeOK
  <1>2. lock = p /\ scan[p].step = "settle" /\ UNCHANGED <<tree, index, lock>>
    BY DEF RemoveDeleted, At
  <1>3. PICK rest : rest = Without(scan[p].topo, scan[p].gone)
    OBVIOUS
  <1>4. PICK tied : Go(p, [scan[p] EXCEPT !.step = "write_db",
                             !.topo = ParseInto(rest, tied, FALSE)])
    BY <1>3 DEF RemoveDeleted
  <1>5. PICK g : g = ParseInto(rest, tied, FALSE)
    OBVIOUS
  <1>6. g \in Graph /\ rest \in Graph
    BY <1>1, <1>3, <1>5, ParseIntoType, WithoutType DEF Scan
  <1>7. \A f \in Files \ scan[p].gone : rest[f] = scan[p].topo[f]
    BY <1>3 DEF Without
  <1>8. \A f \in Current : Shows(rest[f], f)
    BY <1>2, <1>7 DEF IInv, GraphShows, HasGraph, Planned, Current
  <1>9. \A f \in Files : scan[p].stamps[f] # 0 /\ scan[p].stamps[f] = disk[f] => Shows(rest[f], f)
    <2>1. \A f \in Files : scan[p].stamps[f] # 0 => f \notin scan[p].gone
      BY <1>2 DEF IInv, Planned
    <2> QED BY <1>2, <1>7, <2>1 DEF IInv, GraphShows, HasParsed
  <1>10. /\ \A f \in Current : Shows(g[f], f)
         /\ \A f \in Files : scan[p].stamps[f] # 0 /\ scan[p].stamps[f] = disk[f] => Shows(g[f], f)
    BY <1>1, <1>5, <1>6, <1>8, <1>9, ParseIntoShows DEF Current
  <1>11. Go(p, [scan[p] EXCEPT !.step = "write_db", !.topo = g])
    BY <1>4, <1>5
  <1> QED BY <1>1, <1>2, <1>6, <1>10, <1>11, InvGraph

LEMMA InvParsePartial ==
    ASSUME IInv, NEW p \in Procs, ParsePartial(p)
    PROVE  IInv'
  <1>1. TypeOK /\ TypeOK' /\ scan[p] \in Scan
    BY TypeParsePartial DEF IInv, TypeOK
  <1>2. /\ lock = p /\ scan[p].step = "parse" /\ scan[p].mode = "partial"
        /\ UNCHANGED <<tree, index, lock>>
    BY DEF ParsePartial, At
  <1>3. \A f \in Current : Shows(scan[p].topo[f], f)
    BY <1>2 DEF IInv, GraphShows, HasGraph
  <1>4. \A f \in Files : scan[p].stamps[f] # 0 => f \in scan[p].batch
    BY <1>2 DEF IInv, Planned
  <1>5. CASE Go(p, [scan[p] EXCEPT !.step = "write_db",
                      !.topo = ParseInto(@, scan[p].batch, FALSE)])
    <2>1. PICK g : g = ParseInto(scan[p].topo, scan[p].batch, FALSE)
      OBVIOUS
    <2>2. g \in Graph /\ scan[p].topo \in Graph
      BY <1>1, <2>1, ParseIntoType DEF Scan
    <2>3. \A f \in Current : Shows(g[f], f)
      BY <1>1, <1>3, <2>1, <2>2, ParseIntoShows DEF Current
    <2>4. \A f \in Files : scan[p].stamps[f] # 0 /\ scan[p].stamps[f] = disk[f] => Shows(g[f], f)
      BY ZenonT(60), <1>1, <1>4, <2>1, <2>2, ParseIntoShows
    <2>5. Go(p, [scan[p] EXCEPT !.step = "write_db", !.topo = g])
      BY <1>5, <2>1
    <2> QED BY <1>1, <1>2, <2>2, <2>3, <2>4, <2>5, InvGraph
  <1>6. CASE Go(p, [scan[p] EXCEPT !.step = "snapshot", !.mode = "incremental"])
    <2>1. PICK s : s = [scan[p] EXCEPT !.step = "snapshot", !.mode = "incremental"]
      OBVIOUS
    <2>2. s \in Scan /\ Go(p, s)
      BY <1>1, <1>6, <2>1 DEF Scan, Steps
    <2>3. /\ s.step = "snapshot" /\ s.mode = "incremental" /\ s.topo = scan[p].topo
          /\ s.batch = scan[p].batch /\ s.gone = scan[p].gone
          /\ s.stamps = scan[p].stamps /\ s.filter = scan[p].filter
      BY <1>1, <2>1 DEF Scan
    <2>4. disk' = disk /\ manifest' = manifest /\ db' = db /\ UNCHANGED tree /\ lock' = p
      BY <1>2 DEF tree, index
    <2>5. IndexShows' /\ Current' = Current
      BY <2>4 DEF IInv, IndexShows, Current, Shows
    <2>6. (GraphShows(s) /\ Planned(s) /\ Written(s))'
      BY <1>3, <2>3, <2>4, <2>5
         DEF IInv, GraphShows, Planned, Written, HasGraph, HasParsed, Shows
    <2>7. s.filter = {} /\ \A f \in Files : s.stamps[f] <= clock /\ manifest'[f] <= clock
      BY <2>3, <2>4 DEF IInv, AllVisible, GivenOut
    <2> QED BY <1>1, <1>2, <2>2, <2>4, <2>5, <2>6, <2>7, InvStep
  <1> QED BY <1>5, <1>6 DEF ParsePartial

LEMMA InvParseUpdated ==
    ASSUME IInv, NEW p \in Procs, ParseUpdated(p)
    PROVE  IInv'
  <1>1. TypeOK /\ TypeOK' /\ scan[p] \in Scan /\ disk \in [Files -> Nat]
    BY TypeParseUpdated DEF IInv, TypeOK
  <1>2. /\ lock = p /\ scan[p].step = "parse" /\ scan[p].mode = "update"
        /\ UNCHANGED <<tree, index, lock>>
    BY DEF ParseUpdated, At
  <1>3. PICK f \in Files : scan[p].batch = {f}
    BY <1>2 DEF IInv, Planned
  <1>4. f = CHOOSE g \in Files : scan[p].batch = {g}
    BY <1>3
  <1>5. \A g \in Current : Shows(scan[p].topo[g], g)
    BY <1>2 DEF IInv, GraphShows, HasGraph
  <1>6. \A g \in Files : scan[p].stamps[g] # 0 => g = f
    BY <1>2, <1>3 DEF IInv, Planned
  <1>7. PICK rest : rest = Without(scan[p].topo, {f})
    OBVIOUS
  <1>8. scan[p].topo \in Graph /\ rest \in Graph
    BY <1>1, <1>7, WithoutType DEF Scan
  <1>9. CASE f \in hidden \/ disk[f] = 0
    <2>1. PICK tied : Go(p, [scan[p] EXCEPT !.step = "write_db",
                               !.topo = ParseInto(rest, tied, FALSE)])
      BY <1>4, <1>7, <1>9 DEF ParseUpdated
    <2>2. PICK g : g = ParseInto(rest, tied, FALSE)
      OBVIOUS
    <2>3. g \in Graph
      BY <1>1, <1>8, <2>2, ParseIntoType
    <2>4. disk[f] = 0
      BY <1>9 DEF IInv, AllVisible
    <2>5. \A h \in Current : h # f /\ Shows(rest[h], h)
      BY <1>5, <1>7, <2>4 DEF Without, Current
    <2>6. \A h \in Current : Shows(g[h], h)
      BY <1>1, <1>8, <2>2, <2>5, ParseIntoShows DEF Current
    <2>7. \A h \in Files : ~ (scan[p].stamps[h] # 0 /\ scan[p].stamps[h] = disk[h])
      BY <1>6, <2>4
    <2>8. Go(p, [scan[p] EXCEPT !.step = "write_db", !.topo = g])
      BY <2>1, <2>2
    <2> QED BY <1>1, <1>2, <2>3, <2>6, <2>7, <2>8, InvGraph
  <1>10. CASE ~ (f \in hidden \/ disk[f] = 0)
    <2>1. PICK g : g = ParseInto(scan[p].topo, {f}, FALSE)
      OBVIOUS
    <2>2. g \in Graph
      BY <1>1, <1>8, <2>1, ParseIntoType
    <2>3. Go(p, [scan[p] EXCEPT !.step = "write_db", !.topo = g])
      BY <1>4, <1>10, <2>1 DEF ParseUpdated
    <2>4. \A h \in Current : Shows(g[h], h)
      BY <1>1, <1>5, <1>8, <2>1, ParseIntoShows DEF Current
    <2>5. \A h \in Files : scan[p].stamps[h] # 0 /\ scan[p].stamps[h] = disk[h] => Shows(g[h], h)
      BY <1>1, <1>6, <1>8, <2>1, ParseIntoShows
    <2> QED BY <1>1, <1>2, <2>2, <2>3, <2>4, <2>5, InvGraph
  <1> QED BY <1>9, <1>10

LEMMA InvAbort ==
    ASSUME IInv, TypeOK', NEW p \in Procs, lock = p, Abort(p)
    PROVE  IInv'
  BY InvRest DEF Abort

LEMMA InvScanAllLanguages ==
    ASSUME IInv, NEW p \in Procs, ScanAllLanguages(p)
    PROVE  IInv'
  <1>1. TypeOK /\ TypeOK' /\ scan[p] \in Scan
    BY TypeScanAllLanguages DEF IInv, TypeOK
  <1>2. lock = p /\ scan[p].step = "parse"
    BY DEF ScanAllLanguages, At
  <1>3. CASE Abort(p)
    BY <1>1, <1>2, <1>3, InvAbort
  <1>4. ASSUME NEW failed,
               NEW g, g = [f \in Files |-> IF f \notin Found(scan[p].filter) THEN NoRow
                                           ELSE IF Lang[f] \in failed THEN Failed
                                           ELSE Parsed(f)],
               Go(p, [scan[p] EXCEPT !.step = "write_db", !.topo = g]),
               UNCHANGED <<tree, index, lock>>
        PROVE  IInv'
    <2>1. g \in Graph
      BY <1>1, <1>4, Shapes, ParsedType DEF Graph
    <2>2. Found(scan[p].filter) = {f \in Files : disk[f] # 0}
      BY DEF IInv, AllVisible, Found, OnDisk
    <2>3. ASSUME NEW f \in Files, disk[f] # 0 PROVE Shows(g[f], f)
      BY <1>4, <2>2, <2>3 DEF Shows, Failed, NoRow, Parsed
    <2>4. \A f \in Current : Shows(g[f], f)
      BY <2>3 DEF Current
    <2>5. \A f \in Files : scan[p].stamps[f] # 0 /\ scan[p].stamps[f] = disk[f] => Shows(g[f], f)
      BY <2>3
    <2> QED BY <1>1, <1>2, <1>4, <2>1, <2>4, <2>5, InvGraph
  <1> QED BY <1>3, <1>4 DEF ScanAllLanguages

LEMMA InvWriteDb ==
    ASSUME IInv, NEW p \in Procs, WriteDb(p)
    PROVE  IInv'
  <1>1. TypeOK' /\ scan[p] \in Scan
    BY TypeWriteDb DEF IInv, TypeOK
  <1>2. /\ lock = p /\ lock' = p /\ scan[p].step = "write_db" /\ UNCHANGED tree
        /\ disk' = disk /\ manifest' = manifest /\ db' = scan[p].topo
    BY DEF WriteDb, At, tree
  <1>3. PICK s : s = [scan[p] EXCEPT !.step = "write_manifest"]
    OBVIOUS
  <1>4. s \in Scan /\ Go(p, s)
    BY <1>1, <1>3 DEF WriteDb, Scan, Steps
  <1>5. /\ s.step = "write_manifest" /\ s.mode = scan[p].mode /\ s.topo = scan[p].topo
        /\ s.batch = scan[p].batch /\ s.gone = scan[p].gone
        /\ s.stamps = scan[p].stamps /\ s.filter = scan[p].filter
    BY <1>1, <1>3 DEF Scan
  <1>6. GraphShows(scan[p]) /\ Current' = Current
    BY <1>2 DEF IInv, Current
  <1>7. IndexShows'
    BY <1>2, <1>6 DEF IndexShows, GraphShows, HasGraph, Shows
  <1>8. (GraphShows(s) /\ Planned(s) /\ Written(s))'
    BY <1>2, <1>5, <1>6 DEF IInv, GraphShows, Planned, Written, HasGraph, HasParsed, Shows
  <1>9. s.filter = {} /\ \A f \in Files : s.stamps[f] <= clock /\ manifest'[f] <= clock
    BY <1>2, <1>5 DEF IInv, AllVisible, GivenOut
  <1> QED BY <1>1, <1>2, <1>4, <1>7, <1>8, <1>9, InvStep

\* The manifest a scan writes holds its stamps, entries it had before, or none.
LEMMA NewManifestCases ==
    ASSUME NEW s, NEW f \in Files
    PROVE  NewManifest(s)[f] \in {s.stamps[f], manifest[f], 0}
  BY DEF NewManifest, SyncManifest, StampManifest, StampOrForget

LEMMA InvWriteManifest ==
    ASSUME IInv, NEW p \in Procs, WriteManifest(p)
    PROVE  IInv'
  <1>1. TypeOK' /\ scan[p] \in Scan
    BY TypeWriteManifest DEF IInv, TypeOK
  <1>2. /\ lock = p /\ scan[p].step = "write_manifest" /\ UNCHANGED tree
        /\ disk' = disk /\ db' = db
    BY DEF WriteManifest, At, tree
  <1>3. \A f \in Files : manifest'[f] \in {scan[p].stamps[f], manifest[f], 0}
    BY NewManifestCases DEF WriteManifest
  <1>4. \A f \in Files : manifest'[f] <= clock
    <2>1. clock \in Nat
      BY DEF IInv, TypeOK
    <2> QED BY <1>3, <2>1 DEF IInv, GivenOut
  <1>5. db = scan[p].topo
    BY <1>2 DEF IInv, Written
  <1>6. \A f \in Current' : Shows(db[f], f)
    BY <1>2, <1>3, <1>5 DEF IInv, GraphShows, HasGraph, HasParsed, Current
  <1>7. IndexShows'
    BY <1>2, <1>6 DEF IndexShows, Shows
  <1>8. CASE Rest(p)
    <2>1. PICK s \in Scan : s = Resting
      BY Shapes
    <2>2. (GraphShows(s) /\ Planned(s) /\ Written(s))'
      BY <2>1 DEF GraphShows, Planned, Written, Resting, HasGraph, HasParsed
    <2>3. s.filter = {} /\ \A f \in Files : s.stamps[f] <= clock
      BY <2>1, RestingShows DEF IInv, TypeOK
    <2> QED BY <1>1, <1>2, <1>4, <1>7, <1>8, <2>1, <2>2, <2>3, InvStep DEF Rest
  <1>9. CASE /\ scan[p].mode \in {"full", "reroot"}
             /\ Go(p, [scan[p] EXCEPT !.step = "record"]) /\ UNCHANGED lock
    <2>1. PICK s : s = [scan[p] EXCEPT !.step = "record"]
      OBVIOUS
    <2>2. s \in Scan /\ Go(p, s)
      BY <1>1, <1>9, <2>1 DEF Scan, Steps
    <2>3. /\ s.step = "record" /\ s.mode = scan[p].mode /\ s.gone = scan[p].gone
          /\ s.stamps = scan[p].stamps /\ s.filter = scan[p].filter
      BY <1>1, <2>1 DEF Scan
    <2>4. s.gone = {}
      BY <1>9, <2>3 DEF IInv, Planned
    <2>5. (GraphShows(s) /\ Planned(s) /\ Written(s))'
      BY <1>9, <2>3, <2>4 DEF GraphShows, Planned, Written, HasGraph, HasParsed
    <2>6. s.filter = {} /\ \A f \in Files : s.stamps[f] <= clock
      BY <2>3 DEF IInv, AllVisible, GivenOut
    <2> QED BY <1>1, <1>2, <1>4, <1>7, <1>9, <2>2, <2>5, <2>6, InvStep
  <1> QED BY <1>8, <1>9 DEF WriteManifest

LEMMA InvEnd ==
    ASSUME IInv, NEW p \in Procs, WriteDbFails(p) \/ RecordProject(p) \/ Kill(p)
    PROVE  IInv'
  <1>1. TypeOK'
    BY TypeEnd DEF IInv
  <1>2. CASE WriteDbFails(p)
    BY <1>1, <1>2, InvAbort DEF WriteDbFails, At
  <1>3. CASE RecordProject(p) \/ Kill(p)
    <2>1. lock = p /\ Rest(p) /\ UNCHANGED <<tree, db, manifest>>
      BY <1>3 DEF RecordProject, Kill, At, index
    <2> QED BY <1>1, <2>1, InvRest
  <1> QED BY <1>2, <1>3

LEMMA InvNext == FairMtimes /\ IInv /\ [Next]_vars => IInv'
  <1> SUFFICES ASSUME FairMtimes, IInv, [Next]_vars PROVE IInv'
    OBVIOUS
  <1>1. CASE World
    BY <1>1, InvWorld
  <1>2. CASE \E p \in Procs : \/ \E mode \in Entries : Begin(p, mode)
                              \/ \E f \in Files : UpdateFile(p, f)
                              \/ Work(p) \/ WriteDbFails(p) \/ Kill(p)
    BY <1>2, InvBegin, InvUpdateFile, InvDiffScan, InvSnapshot, InvParseChanged,
       InvResolveAll, InvRemoveDeleted, InvParsePartial, InvParseUpdated,
       InvScanAllLanguages, InvWriteDb, InvWriteManifest, InvEnd DEF Work
  <1>3. CASE UNCHANGED vars
    <2>1. TypeOK'
      BY <1>3, TypeNext DEF IInv
    <2>2. /\ disk' = disk /\ manifest' = manifest /\ db' = db /\ scan' = scan /\ lock' = lock
          /\ hidden' = hidden /\ sealed' = sealed /\ clock' = clock
      BY <1>3 DEF vars, tree, index
    <2> QED BY <2>1, <2>2 DEF IInv, Alone, AllVisible, GivenOut, IndexShows,
           GraphShows, Planned, Written, HasGraph, HasParsed, Shows, Current
  <1> QED BY <1>1, <1>2, <1>3 DEF Next

\* A file the manifest calls current is in the database as it is on disk, or
\* its failure is in the error log, however scans, saves, kills and failures
\* interleave.
THEOREM IndexVouched == FairMtimes => (Spec => []Vouched)
  <1> SUFFICES ASSUME FairMtimes PROVE Spec => []Vouched
    OBVIOUS
  <1>1. IInv => Vouched
    BY DEF IInv, IndexShows, Shows, Vouched, Serves
  <1>2. FairMtimes /\ IInv /\ [Next]_vars => IInv'
    BY InvNext
  <1>3. IInv /\ [Next]_vars => IInv'
    BY <1>2
  <1> QED BY InvInit, <1>1, <1>3, PTL DEF Spec

-----------------------------------------------------------------------------
(* The index keeps the promise of FreshIndex.                              *)

\* A graph's row has content that was given out, and none newer than the file it is of.
Aged(row, f) == row.src <= clock /\ (disk[f] # 0 => row.src <= disk[f])

\* What a scan is going to publish takes no file back to older content.
Advances(s) ==
    HasGraph(s) => \A f \in Files : s.topo[f].src = 0 \/ s.topo[f].src >= db[f].src

Grown ==
    /\ \A f \in Files : Aged(db[f], f)
    /\ \A p \in Procs : Advances(scan[p]) /\ \A f \in Files : Aged(scan[p].topo[f], f)

LEMMA RowSrc == \A row \in Row : row.src \in Nat
  BY DEF Row

LEMMA RestingAged ==
    /\ \A f \in Files : Resting.topo[f].src = 0
    /\ ~HasGraph(Resting)
  BY DEF Resting, EmptyGraph, NoRow, HasGraph

LEMMA GrownInit == Init => Grown
  <1> SUFFICES ASSUME Init PROVE Grown
    OBVIOUS
  <1>1. \A f \in Files : db[f].src = 0 /\ disk[f] = 0
    BY DEF Init, EmptyGraph, NoRow, NoStamps
  <1>2. \A p \in Procs : scan[p] = Resting
    BY DEF Init
  <1>3. clock = 0
    BY DEF Init
  <1> QED BY <1>1, <1>2, <1>3, RestingAged DEF Grown, Aged, Advances

\* A file that changes leaves every row older than it.
LEMMA GrownWorld ==
    ASSUME FairMtimes, IInv, Grown, World
    PROVE  Grown'
  <1>1. /\ db' = db /\ scan' = scan
        /\ clock \in Nat /\ clock' \in Nat /\ clock <= clock' /\ disk \in [Files -> Nat]
    BY DEF World, EditFile, RemoveFile, RestoreFile, ChangeVisibility, ChangeAccess, EditProject,
           index, tree, IInv, TypeOK
  <1>2. \A f \in Files : disk'[f] \in {disk[f], 0} \/ (disk'[f] = clock' /\ clock' = clock + 1)
    <2>1. ASSUME NEW g \in Files, EditFile(g)
          PROVE  \A f \in Files : disk'[f] \in {disk[f], 0} \/ (disk'[f] = clock' /\ clock' = clock + 1)
      BY <1>1, <2>1 DEF EditFile
    <2>2. ASSUME NEW g \in Files, RemoveFile(g)
          PROVE  \A f \in Files : disk'[f] \in {disk[f], 0}
      BY <1>1, <2>2 DEF RemoveFile
    <2> QED BY <2>1, <2>2 DEF World, FairMtimes, RestoreFile, ChangeVisibility, ChangeAccess,
               EditProject, tree
  <1>3. ASSUME NEW f \in Files, NEW row, row.src \in Nat, Aged(row, f)
        PROVE  Aged(row, f)'
    BY <1>1, <1>2, <1>3 DEF Aged
  <1>4. ASSUME NEW f \in Files PROVE Aged(db[f], f)'
    <2>1. PICK row : row = db[f] /\ row = db'[f]
      BY <1>1
    <2>2. row.src \in Nat /\ Aged(row, f)
      BY <2>1, RowSrc DEF Grown, IInv, TypeOK, Graph
    <2> QED BY <1>3, <2>1, <2>2
  <1>5. ASSUME NEW p \in Procs, NEW f \in Files PROVE Aged(scan[p].topo[f], f)'
    <2>1. PICK row : row = scan[p].topo[f] /\ row = scan'[p].topo[f]
      BY <1>1
    <2>2. scan[p].topo \in Graph
      BY DEF IInv, TypeOK, Scan
    <2>3. row.src \in Nat /\ Aged(row, f)
      BY <2>1, <2>2, RowSrc DEF Grown, Graph
    <2> QED BY <1>3, <2>1, <2>3
  <1>6. ASSUME NEW p \in Procs PROVE Advances(scan[p])'
    BY <1>1 DEF Grown, Advances, HasGraph
  <1> QED BY <1>4, <1>5, <1>6 DEF Grown

\* What has to be shown of a step of p's scan to a state s.
LEMMA GrownStep ==
    ASSUME IInv, Grown, NEW p \in Procs, NEW s \in Scan, Go(p, s), lock \in {p, NoProc},
           UNCHANGED tree, db' = db \/ db' = s.topo,
           \A f \in Files : Aged(s.topo[f], f), Advances(s)'
    PROVE  Grown'
  <1>1. scan'[p] = s /\ \A q \in Procs \ {p} : scan'[q] = Resting
    BY ScanSyncAssumption DEF Go, IInv, TypeOK, Alone
  <1>2. clock' = clock /\ disk' = disk
    BY DEF tree
  <1>3. \A row, f : Aged(row, f) => Aged(row, f)'
    BY <1>2 DEF Aged
  <1>4. clock \in Nat /\ disk \in [Files -> Nat]
    BY DEF IInv, TypeOK
  <1>5. ASSUME NEW q \in Procs \ {p} PROVE Advances(scan[q])' /\ \A f \in Files : Aged(scan[q].topo[f], f)'
    <2>1. PICK r : r = Resting /\ r = scan'[q]
      BY <1>1
    <2>2. Advances(r)'
      BY <2>1, RestingAged DEF Advances
    <2>3. \A f \in Files : Aged(r.topo[f], f)'
      BY <1>2, <1>4, <2>1, RestingAged DEF Aged
    <2> QED BY <2>1, <2>2, <2>3
  <1>6. Advances(scan[p])' /\ \A f \in Files : Aged(scan[p].topo[f], f)'
    BY <1>1, <1>3
  <1>7. \A f \in Files : Aged(db[f], f)'
    <2>1. ASSUME NEW f \in Files PROVE Aged(db[f], f)'
      <3>1. PICK row : row = db'[f] /\ Aged(row, f)
        BY DEF Grown
      <3> QED BY <1>3, <3>1
    <2> QED BY <2>1
  <1> QED BY <1>5, <1>6, <1>7 DEF Grown

LEMMA GrownRest ==
    ASSUME IInv, Grown, NEW p \in Procs, lock = p, Rest(p), UNCHANGED <<tree, db>>
    PROVE  Grown'
  <1>1. PICK s \in Scan : s = Resting
    BY Shapes
  <1>2. \A f \in Files : Aged(s.topo[f], f)
    BY <1>1, RestingAged DEF Aged, IInv, TypeOK
  <1>3. Advances(s)'
    BY <1>1, RestingAged DEF Advances
  <1> QED BY <1>1, <1>2, <1>3, GrownStep DEF Rest

\* A step that keeps the scan's graph, and has one only if it had.
LEMMA GrownKeeps ==
    ASSUME IInv, Grown, NEW p \in Procs, lock = p, NEW s \in Scan, Go(p, s), UNCHANGED <<tree, db>>,
           s.topo = scan[p].topo, HasGraph(s) => HasGraph(scan[p])
    PROVE  Grown'
  <1>1. \A f \in Files : Aged(s.topo[f], f)
    BY DEF Grown
  <1>2. Advances(s)'
    BY DEF Grown, Advances
  <1> QED BY <1>1, <1>2, GrownStep

\* A step that loads the graph from the database.
LEMMA GrownLoads ==
    ASSUME IInv, Grown, NEW p \in Procs, lock \in {p, NoProc}, NEW s \in Scan, Go(p, s),
           UNCHANGED <<tree, db>>, s.topo = db
    PROVE  Grown'
  <1>1. \A f \in Files : Aged(s.topo[f], f)
    BY DEF Grown
  <1>2. Advances(s)'
    <2>1. \A f \in Files : db[f].src \in Nat
      BY RowSrc DEF IInv, TypeOK, Graph
    <2> QED BY <2>1 DEF Advances
  <1> QED BY <1>1, <1>2, GrownStep

\* A step that parses files into the scan's graph, or makes a graph of files it parses.
LEMMA GrownParses ==
    ASSUME IInv, Grown, NEW p \in Procs, lock = p, NEW g \in Graph, NEW step \in Steps,
           Go(p, [scan[p] EXCEPT !.step = step, !.topo = g]), UNCHANGED <<tree, db>>,
           HasGraph(scan[p]) \/ \A f \in Files : g[f].src \in {0, disk[f]},
           \A f \in Files : g[f].src \in {scan[p].topo[f].src, 0, disk[f]}
    PROVE  Grown'
  <1>1. PICK s : s = [scan[p] EXCEPT !.step = step, !.topo = g]
    OBVIOUS
  <1>2. s \in Scan /\ s.topo = g /\ Go(p, s)
    BY ZenonT(60), <1>1 DEF IInv, TypeOK, Scan
  <1>3. ASSUME NEW f \in Files
        PROVE  Aged(s.topo[f], f) /\ (s.topo[f].src = 0 \/ s.topo[f].src >= db[f].src)
    <2>1. /\ clock \in Nat /\ disk[f] \in Nat /\ disk[f] <= clock /\ db[f].src \in Nat
          /\ scan[p].topo[f].src \in Nat
      BY RowSrc DEF IInv, TypeOK, Scan, Graph, GivenOut
    <2>2. Aged(db[f], f) /\ Aged(scan[p].topo[f], f) /\ Advances(scan[p])
      BY DEF Grown
    <2>3. Aged(s.topo[f], f)
      BY <1>2, <2>1, <2>2 DEF Aged
    <2>4. CASE s.topo[f].src \in {0, disk[f]}
      BY <2>1, <2>2, <2>4 DEF Aged
    <2>5. CASE HasGraph(scan[p]) /\ s.topo[f].src = scan[p].topo[f].src
      <3>1. scan[p].topo[f].src = 0 \/ scan[p].topo[f].src >= db[f].src
        BY <2>2, <2>5 DEF Advances
      <3> QED BY <1>2, <2>3, <2>5, <3>1
    <2> QED BY <1>2, <2>3, <2>4, <2>5
  <1>4. Advances(s)'
    BY <1>3 DEF Advances
  <1> QED BY <1>2, <1>3, <1>4, GrownStep

LEMMA ParseIntoSrc ==
    ASSUME NEW g \in Graph, NEW S, NEW drop, NEW f \in Files
    PROVE  ParseInto(g, S, drop)[f].src \in {g[f].src, 0, disk[f]}
  BY DEF ParseInto, Parsed, Failed, NoRow, Graph, Row

LEMMA WithoutSrc ==
    ASSUME NEW g \in Graph, NEW S, NEW f \in Files
    PROVE  Without(g, S)[f].src \in {g[f].src, 0}
  BY DEF Without, NoRow

LEMMA GrownBegin ==
    ASSUME IInv, Grown, NEW p \in Procs, NEW mode \in Entries, Begin(p, mode)
    PROVE  Grown'
  <1>1. PICK s : s = [Resting EXCEPT !.mode = mode, !.filter = hidden,
                        !.step = IF mode = "full" THEN "snapshot" ELSE "diff"]
    OBVIOUS
  <1>2. s \in Scan
    BY <1>1, Shapes DEF IInv, TypeOK, Scan, Steps, Entries
  <1>3. ~HasGraph(s) /\ s.topo = Resting.topo
    BY <1>1 DEF HasGraph, Begin, Resting
  <1>4. \A f \in Files : Aged(s.topo[f], f)
    BY <1>3, RestingAged DEF Aged, IInv, TypeOK
  <1>5. Advances(s)'
    BY <1>3 DEF Advances
  <1> QED BY <1>1, <1>2, <1>4, <1>5, GrownStep DEF Begin, index

LEMMA GrownUpdateFile ==
    ASSUME IInv, Grown, NEW p \in Procs, NEW f \in Files, UpdateFile(p, f)
    PROVE  Grown'
  <1>1. PICK s : s = [Resting EXCEPT !.mode = "update", !.step = "parse", !.batch = {f},
                        !.topo = db, !.stamps[f] = disk[f]]
    OBVIOUS
  <1>2. s \in Scan /\ s.topo = db
    BY <1>1, Shapes DEF IInv, TypeOK, Scan, Steps
  <1> QED BY <1>1, <1>2, GrownLoads DEF UpdateFile, index

LEMMA GrownDiffScan ==
    ASSUME IInv, Grown, NEW p \in Procs, DiffScan(p)
    PROVE  Grown'
  <1>1. scan[p] \in Scan /\ lock = p /\ UNCHANGED <<tree, db>>
    BY DEF DiffScan, At, IInv, TypeOK
  <1>2. CASE Rest(p)
    BY <1>1, <1>2, GrownRest
  <1>3. ASSUME NEW mode \in {"full", "reroot"},
               Go(p, [scan[p] EXCEPT !.step = "snapshot", !.filter = hidden, !.mode = mode])
        PROVE  Grown'
    <2>1. PICK s : s = [scan[p] EXCEPT !.step = "snapshot", !.filter = hidden, !.mode = mode]
      OBVIOUS
    <2>2. s \in Scan /\ s.topo = scan[p].topo /\ ~HasGraph(s)
      BY <1>1, <2>1 DEF IInv, TypeOK, Scan, Steps, HasGraph
    <2> QED BY <1>1, <1>3, <2>1, <2>2, GrownKeeps
  <1>4. ASSUME NEW mode \in {"incremental", "partial"},
               Go(p, [scan[p] EXCEPT !.step = "snapshot", !.mode = mode,
                        !.batch = Changed(scan[p].filter),
                        !.gone = Deleted(scan[p].filter), !.topo = db])
        PROVE  Grown'
    <2>1. PICK s : s = [scan[p] EXCEPT !.step = "snapshot", !.mode = mode,
                          !.batch = Changed(scan[p].filter),
                          !.gone = Deleted(scan[p].filter), !.topo = db]
      OBVIOUS
    <2>2. s \in Scan /\ s.topo = db
      BY <1>1, <2>1 DEF IInv, TypeOK, Scan, Steps, Changed, Deleted, Found, OnDisk
    <2> QED BY <1>1, <1>4, <2>1, <2>2, GrownLoads
  <1> QED BY <1>2, <1>3, <1>4 DEF DiffScan

LEMMA GrownSnapshot ==
    ASSUME IInv, Grown, NEW p \in Procs, Snapshot(p)
    PROVE  Grown'
  <1>1. /\ scan[p] \in Scan /\ lock = p /\ scan[p].step = "snapshot" /\ UNCHANGED <<tree, db>>
        /\ disk \in [Files -> Nat]
    BY DEF Snapshot, At, IInv, TypeOK, index
  <1>2. PICK batch, stamps :
          /\ batch = IF scan[p].mode \in {"full", "reroot"}
                     THEN Found(scan[p].filter) ELSE scan[p].batch
          /\ stamps = [f \in Files |-> IF f \in batch THEN disk[f] ELSE 0]
    OBVIOUS
  <1>3. batch \subseteq Files /\ stamps \in [Files -> Nat]
    BY <1>1, <1>2 DEF Scan, Found, OnDisk
  <1>4. PICK s : s = [scan[p] EXCEPT !.step = "parse", !.batch = batch, !.stamps = stamps]
    OBVIOUS
  <1>5. /\ s \in Scan /\ s.topo = scan[p].topo /\ s.step = "parse" /\ s.mode = scan[p].mode
        /\ Go(p, s)
    BY <1>1, <1>2, <1>3, <1>4 DEF Snapshot, Scan, Steps
  <1>6. HasGraph(s) => HasGraph(scan[p])
    BY <1>1, <1>5 DEF HasGraph
  <1> QED BY <1>1, <1>5, <1>6, GrownKeeps

LEMMA GrownIncremental ==
    ASSUME IInv, Grown, NEW p \in Procs, ParseChanged(p) \/ ResolveAll(p) \/ RemoveDeleted(p)
    PROVE  Grown'
  <1>1. /\ lock = p /\ UNCHANGED <<tree, db>> /\ HasGraph(scan[p])
    BY DEF ParseChanged, ResolveAll, RemoveDeleted, At, HasGraph, index
  <1>2. TypeOK /\ scan[p].topo \in Graph
    BY DEF IInv, TypeOK, Scan
  <1>3. ASSUME NEW g \in Graph, NEW old \in Graph, NEW S, NEW drop \in BOOLEAN, NEW step \in Steps,
               old = scan[p].topo \/ old = Without(scan[p].topo, scan[p].gone),
               g = ParseInto(old, S, drop),
               Go(p, [scan[p] EXCEPT !.step = step, !.topo = g])
        PROVE  Grown'
    <2>1. \A f \in Files : g[f].src \in {scan[p].topo[f].src, 0, disk[f]}
      BY <1>2, <1>3, ParseIntoSrc, WithoutSrc
    <2> QED BY <1>1, <1>3, <2>1, GrownParses
  <1>4. CASE ParseChanged(p)
    <2>1. PICK drop \in BOOLEAN :
             Go(p, [scan[p] EXCEPT !.step = "resolve", !.topo = ParseInto(@, scan[p].batch, drop)])
      BY <1>4 DEF ParseChanged
    <2>2. PICK g : g = ParseInto(scan[p].topo, scan[p].batch, drop)
      OBVIOUS
    <2>3. g \in Graph
      BY <1>2, <2>2, ParseIntoType
    <2>4. Go(p, [scan[p] EXCEPT !.step = "resolve", !.topo = g]) /\ "resolve" \in Steps
      BY <2>1, <2>2 DEF Steps
    <2> QED BY <1>2, <1>3, <2>2, <2>3, <2>4
  <1>5. CASE ResolveAll(p)
    <2>1. PICK extra \in SUBSET Files, drop \in BOOLEAN :
             Go(p, [scan[p] EXCEPT
                      !.step = IF scan[p].gone = {} THEN "write_db" ELSE "settle",
                      !.topo = ParseInto(@, scan[p].batch \cup extra, drop)])
      BY <1>5 DEF ResolveAll, Indexed
    <2>2. PICK g : g = ParseInto(scan[p].topo, scan[p].batch \cup extra, drop)
      OBVIOUS
    <2>3. PICK step \in Steps : step = IF scan[p].gone = {} THEN "write_db" ELSE "settle"
      BY DEF Steps
    <2>4. g \in Graph
      BY <1>2, <2>2, ParseIntoType
    <2>5. Go(p, [scan[p] EXCEPT !.step = step, !.topo = g])
      BY <2>1, <2>2, <2>3
    <2> QED BY <1>2, <1>3, <2>2, <2>4, <2>5
  <1>6. CASE RemoveDeleted(p)
    <2>1. PICK old \in Graph : old = Without(scan[p].topo, scan[p].gone)
      BY <1>2, WithoutType
    <2>2. PICK tied : Go(p, [scan[p] EXCEPT !.step = "write_db",
                               !.topo = ParseInto(old, tied, FALSE)])
      BY <1>6, <2>1 DEF RemoveDeleted
    <2>3. PICK g : g = ParseInto(old, tied, FALSE)
      OBVIOUS
    <2>4. g \in Graph
      BY <1>2, <2>3, ParseIntoType
    <2>5. Go(p, [scan[p] EXCEPT !.step = "write_db", !.topo = g]) /\ "write_db" \in Steps
      BY <2>2, <2>3 DEF Steps
    <2> QED BY <1>3, <2>1, <2>3, <2>4, <2>5
  <1> QED BY <1>4, <1>5, <1>6

LEMMA GrownParsePartial ==
    ASSUME IInv, Grown, NEW p \in Procs, ParsePartial(p)
    PROVE  Grown'
  <1>1. /\ lock = p /\ UNCHANGED <<tree, db>> /\ HasGraph(scan[p])
        /\ TypeOK /\ scan[p] \in Scan /\ scan[p].topo \in Graph
    BY DEF ParsePartial, At, HasGraph, index, IInv, TypeOK, Scan
  <1>2. CASE Go(p, [scan[p] EXCEPT !.step = "write_db",
                      !.topo = ParseInto(@, scan[p].batch, FALSE)])
    <2>1. PICK g : g = ParseInto(scan[p].topo, scan[p].batch, FALSE)
      OBVIOUS
    <2>2. g \in Graph
      BY <1>1, <2>1, ParseIntoType
    <2>3. \A f \in Files : g[f].src \in {scan[p].topo[f].src, 0, disk[f]}
      BY <1>1, <2>1, ParseIntoSrc
    <2> QED BY <1>1, <1>2, <2>1, <2>2, <2>3, GrownParses DEF Steps
  <1>3. CASE Go(p, [scan[p] EXCEPT !.step = "snapshot", !.mode = "incremental"])
    <2>1. PICK s : s = [scan[p] EXCEPT !.step = "snapshot", !.mode = "incremental"]
      OBVIOUS
    <2>2. s \in Scan /\ s.topo = scan[p].topo
      BY <1>1, <2>1 DEF Scan, Steps
    <2> QED BY <1>1, <1>3, <2>1, <2>2, GrownKeeps
  <1> QED BY <1>2, <1>3 DEF ParsePartial

LEMMA GrownParseUpdated ==
    ASSUME IInv, Grown, NEW p \in Procs, ParseUpdated(p)
    PROVE  Grown'
  <1>1. /\ lock = p /\ UNCHANGED <<tree, db>> /\ HasGraph(scan[p])
        /\ TypeOK /\ scan[p] \in Scan /\ scan[p].topo \in Graph
    BY DEF ParseUpdated, At, HasGraph, index, IInv, TypeOK, Scan
  <1>2. PICK f : f = CHOOSE g \in Files : scan[p].batch = {g}
    OBVIOUS
  <1>3. PICK rest : rest = Without(scan[p].topo, {f})
    OBVIOUS
  <1>4. rest \in Graph
    BY <1>1, <1>3, WithoutType
  <1>5. PICK g : /\ g = ParseInto(scan[p].topo, {f}, FALSE)
                    \/ \E tied : g = ParseInto(rest, tied, FALSE)
                 /\ Go(p, [scan[p] EXCEPT !.step = "write_db", !.topo = g])
    <2>1. CASE f \in hidden \/ disk[f] = 0
      BY <1>2, <1>3, <2>1 DEF ParseUpdated
    <2>2. CASE ~(f \in hidden \/ disk[f] = 0)
      BY <1>2, <1>3, <2>2 DEF ParseUpdated
    <2> QED BY <2>1, <2>2
  <1>6. g \in Graph
    BY <1>1, <1>4, <1>5, ParseIntoType
  <1>7. ASSUME NEW h \in Files PROVE g[h].src \in {scan[p].topo[h].src, 0, disk[h]}
    <2>1. CASE g = ParseInto(scan[p].topo, {f}, FALSE)
      BY <1>1, <2>1, ParseIntoSrc
    <2>2. ASSUME NEW tied, g = ParseInto(rest, tied, FALSE)
          PROVE  g[h].src \in {scan[p].topo[h].src, 0, disk[h]}
      <3>1. g[h].src \in {rest[h].src, 0, disk[h]}
        BY <1>4, <2>2, ParseIntoSrc
      <3>2. rest[h].src \in {scan[p].topo[h].src, 0}
        BY <1>1, <1>3, WithoutSrc
      <3> QED BY <3>1, <3>2
    <2> QED BY <1>5, <2>1, <2>2
  <1> QED BY <1>1, <1>5, <1>6, <1>7, GrownParses DEF Steps

LEMMA GrownScanAllLanguages ==
    ASSUME IInv, Grown, NEW p \in Procs, ScanAllLanguages(p)
    PROVE  Grown'
  <1>1. TypeOK /\ lock = p
    BY DEF ScanAllLanguages, At, IInv
  <1>2. CASE Abort(p)
    BY <1>1, <1>2, GrownRest DEF Abort
  <1>3. ASSUME NEW failed,
               NEW g, g = [f \in Files |-> IF f \notin Found(scan[p].filter) THEN NoRow
                                           ELSE IF Lang[f] \in failed THEN Failed
                                           ELSE Parsed(f)],
               Go(p, [scan[p] EXCEPT !.step = "write_db", !.topo = g]),
               UNCHANGED <<tree, index>>
        PROVE  Grown'
    <2>1. g \in Graph
      BY <1>1, <1>3, Shapes, ParsedType DEF Graph
    <2>2. \A f \in Files : g[f].src \in {0, disk[f]}
      BY <1>3 DEF NoRow, Failed, Parsed
    <2>3. \A f \in Files : g[f].src \in {scan[p].topo[f].src, 0, disk[f]}
      BY <2>2
    <2>4. UNCHANGED <<tree, db>> /\ "write_db" \in Steps
      BY <1>3 DEF index, Steps
    <2> QED BY <1>1, <1>3, <2>1, <2>2, <2>3, <2>4, GrownParses
  <1> QED BY <1>2, <1>3 DEF ScanAllLanguages

LEMMA GrownWriteDb ==
    ASSUME IInv, Grown, NEW p \in Procs, WriteDb(p)
    PROVE  Grown'
  <1>1. PICK s : s = [scan[p] EXCEPT !.step = "write_manifest"]
    OBVIOUS
  <1>2. s \in Scan /\ s.topo = scan[p].topo
    BY ZenonT(60), <1>1 DEF IInv, TypeOK, Scan, Steps
  <1>3. db' = s.topo /\ s.topo \in Graph
    BY <1>2 DEF WriteDb, Scan
  <1>4. Advances(s)'
    BY <1>3, RowSrc DEF Advances, Graph
  <1>5. \A f \in Files : Aged(s.topo[f], f)
    BY <1>2 DEF Grown
  <1> QED BY <1>1, <1>2, <1>3, <1>4, <1>5, GrownStep DEF WriteDb, At

LEMMA GrownWriteManifest ==
    ASSUME IInv, Grown, NEW p \in Procs, WriteManifest(p)
    PROVE  Grown'
  <1>1. lock = p /\ UNCHANGED <<tree, db>>
    BY DEF WriteManifest, At
  <1>2. CASE Rest(p)
    BY <1>1, <1>2, GrownRest
  <1>3. CASE Go(p, [scan[p] EXCEPT !.step = "record"]) /\ scan[p].mode \in {"full", "reroot"}
    <2>1. PICK s : s = [scan[p] EXCEPT !.step = "record"]
      OBVIOUS
    <2>2. s \in Scan /\ s.topo = scan[p].topo /\ ~HasGraph(s)
      BY ZenonT(60), <1>3, <2>1 DEF IInv, TypeOK, Scan, Steps, HasGraph
    <2> QED BY <1>1, <1>3, <2>1, <2>2, GrownKeeps
  <1> QED BY <1>2, <1>3 DEF WriteManifest

LEMMA GrownEnd ==
    ASSUME IInv, Grown, NEW p \in Procs, WriteDbFails(p) \/ RecordProject(p) \/ Kill(p)
    PROVE  Grown'
  BY GrownRest DEF WriteDbFails, RecordProject, Kill, Abort, At, index

LEMMA GrownNext ==
    ASSUME FairMtimes, IInv, Grown, [Next]_vars
    PROVE  Grown'
  <1>1. CASE World
    BY <1>1, GrownWorld
  <1>2. CASE \E p \in Procs : \/ \E mode \in Entries : Begin(p, mode)
                              \/ \E f \in Files : UpdateFile(p, f)
                              \/ Work(p) \/ WriteDbFails(p) \/ Kill(p)
    BY <1>2, GrownBegin, GrownUpdateFile, GrownDiffScan, GrownSnapshot, GrownIncremental,
       GrownParsePartial, GrownParseUpdated, GrownScanAllLanguages, GrownWriteDb,
       GrownWriteManifest, GrownEnd DEF Work
  <1>3. CASE UNCHANGED vars
    BY <1>3 DEF vars, tree, index, Grown, Aged, Advances, HasGraph
  <1> QED BY <1>1, <1>2, <1>3 DEF Next

-----------------------------------------------------------------------------
(* Every step is a step of FreshIndex, or none it can see.                 *)

\* A file that is saved or removed changes, and its vouching is withdrawn.
LEMMA ChangesPromised ==
    ASSUME IInv, NEW f \in Files, EditFile(f) \/ RemoveFile(f)
    PROVE  Promise!Change(f)
  <1>1. /\ db' = db /\ manifest' = manifest /\ disk \in [Files -> Nat] /\ clock \in Nat
        /\ disk' = [disk EXCEPT ![f] = disk'[f]] /\ disk'[f] # disk[f]
        /\ disk'[f] = 0 \/ disk'[f] = clock + 1
    BY DEF EditFile, RemoveFile, index, IInv, TypeOK, GivenOut
  <1>2. disk' # disk
    BY <1>1
  <1>3. Current' = Current \ {f}
    <2>1. manifest[f] <= clock /\ manifest[f] \in Nat
      BY DEF IInv, GivenOut, TypeOK
    <2>2. \A g \in Files \ {f} : disk'[g] = disk[g]
      BY <1>1
    <2>3. f \notin Current'
      BY <1>1, <2>1 DEF Current
    <2> QED BY <1>1, <2>2, <2>3 DEF Current
  <1> QED BY <1>1, <1>2, <1>3 DEF Promise!Change

\* What leaves the tree alone publishes what it may.
LEMMA PublicationsPromised ==
    ASSUME IInv', disk' = disk,
           \A f \in Files : db'[f].src = 0 \/ db'[f].src >= db[f].src
    PROVE  Promise!Publish
  <1>1. \A f \in Current' : f \in Files /\ (db'[f].err \/ db'[f].src = disk[f])
    BY DEF IInv, IndexShows, Shows, Current
  <1> QED BY <1>1 DEF Promise!Publish

LEMMA StepsPromised ==
    ASSUME FairMtimes, IInv, IInv', Grown, [Next]_vars
    PROVE  Promise!FreshNext
  <1>1. ASSUME NEW f \in Files, EditFile(f) \/ RemoveFile(f)
        PROVE  Promise!FreshNext
    BY <1>1, ChangesPromised DEF Promise!FreshNext
  <1>2. ASSUME disk' = disk, db' = db
        PROVE  Promise!FreshNext
    <2>1. \A f \in Files : db[f].src \in Nat
      BY RowSrc DEF IInv, TypeOK, Graph
    <2> QED BY <1>2, <2>1, PublicationsPromised DEF Promise!FreshNext
  <1>3. ASSUME NEW p \in Procs, WriteDb(p)
        PROVE  Promise!FreshNext
    <2>1. Advances(scan[p]) /\ HasGraph(scan[p]) /\ db' = scan[p].topo /\ disk' = disk
      BY <1>3 DEF WriteDb, At, Grown, HasGraph, tree
    <2> QED BY <2>1, PublicationsPromised DEF Promise!FreshNext, Advances
  <1>4. CASE World
    BY <1>1, <1>2, <1>4 DEF World, FairMtimes, RestoreFile, ChangeVisibility, ChangeAccess,
       EditProject, tree, index
  <1>5. CASE UNCHANGED vars
    BY <1>2, <1>5 DEF vars, tree, index
  <1>6. ASSUME NEW p \in Procs,
               \/ \E mode \in Entries : Begin(p, mode)
               \/ \E f \in Files : UpdateFile(p, f)
               \/ Work(p) \/ WriteDbFails(p) \/ Kill(p)
        PROVE  WriteDb(p) \/ (disk' = disk /\ db' = db)
    BY <1>6 DEF Begin, UpdateFile, Work, DiffScan, Snapshot, ParseChanged, ResolveAll,
       RemoveDeleted, ParsePartial, ParseUpdated, ScanAllLanguages, WriteManifest,
       RecordProject, WriteDbFails, Kill, Abort, tree, index
  <1> QED BY <1>2, <1>3, <1>4, <1>5, <1>6 DEF Next

\* Scans, locks, manifests and faults are one way of keeping the promise of FreshIndex:
\* the index never vouches for content it does not hold, nor goes back to older content
\* (IncrementalScan, FullScan, UpdateFile).
THEOREM PromiseKept == FairMtimes => (Spec => KeepsPromise)
  <1> SUFFICES ASSUME FairMtimes PROVE Spec => KeepsPromise
    OBVIOUS
  <1>1. Init => Promise!FreshInit
    <2> SUFFICES ASSUME Init PROVE Promise!FreshInit
      OBVIOUS
    <2>1. /\ disk = [f \in Files |-> 0] /\ \A f \in Files : db[f].src = 0 /\ ~db[f].err
          /\ Current = {}
      BY DEF Init, NoStamps, EmptyGraph, NoRow, Current
    <2> QED BY <2>1 DEF Promise!FreshInit
  <1>2. IInv /\ Grown /\ [Next]_vars => (IInv /\ Grown)'
    BY InvNext, GrownNext
  <1>3. IInv /\ Grown /\ [Next]_vars => [Promise!FreshNext]_Promise!freshVars
    BY InvNext, StepsPromised
  <1> QED BY InvInit, GrownInit, <1>1, <1>2, <1>3, PTL DEF Spec, KeepsPromise, Promise!FreshSpec

-----------------------------------------------------------------------------
(* In calm weather nothing is overlooked either.                           *)

\* What a scan depends on stays put while it runs, but that files may be saved
\* if none is put back with an older mtime; no process is killed, nothing it
\* writes or parses fails.  Between scans all may change, within two limits: no
\* file is hidden where a directory cannot be listed, and the project manifest
\* does not change where files may be hidden, unlistable or put back -- unless
\* there is but one such change altogether.
Calm ==
    /\ Weather \in {{}, {"save"}, {"kept_mtime"}}
    /\ MaxTurns <= 1 \/ Hideable = {} \/ Sealable = {}
    /\ \/ MaxTurns <= 1
       \/ \A c, d \in Projects : c = d
       \/ Hideable = {} /\ Sealable = {} /\ "kept_mtime" \notin Weather

\* Every mtime in sight, and that of every copy kept, was given out.
AllGivenOut == GivenOut /\ \A f \in Files : \A t \in past[f] : t <= clock

\* Some of the Hideable, and only where every directory can be listed.
Veil(S) == S = {} \/ (sealed = {} /\ turns # 0 /\ S \subseteq Hideable)

Views ==
    /\ Veil(hidden)
    /\ sealed = {} \/ (turns # 0 /\ sealed \subseteq Sealable)
    /\ \A p \in Procs : Veil(scan[p].filter)

Rebuilding(s) == s.mode \in {"full", "reroot"}

\* What a scan took on: files that exist, stamped from the snapshot on.
Batched(s) ==
    /\ s.mode = "update" =>
         /\ \E f \in Files : s.batch = {f}
         /\ s.filter = {} /\ s.gone = {}
         /\ s.step \in {"parse", "write_db", "write_manifest"}
         /\ \A f \in Files : s.stamps[f] = 0 <=> f \notin s.batch \/ disk[f] = 0
    /\ s.mode # "update" =>
         \A f \in s.batch : disk[f] # 0 /\ (s.step # "snapshot" => s.stamps[f] # 0)
    /\ s.step = "diff" => s.batch = {} /\ s.gone = {} /\ s.mode = "incremental"
    /\ Rebuilding(s) =>
         /\ s.gone = {}
         /\ s.step = "snapshot" => s.batch = {}
         /\ s.step = "parse" => s.batch = Found(s.filter)
    /\ s.mode = "partial" => s.gone = {}
    /\ s.step \in {"resolve", "settle"} => s.mode = "incremental"
    /\ s.step = "record" => Rebuilding(s)
    /\ s.mode = "none" => s.step = "idle"

\* The graph in memory before its last parse.
Working(s) ==
    \/ s.step \in {"resolve", "settle"}
    \/ ~ Rebuilding(s) /\ s.step \in {"snapshot", "parse"}

Writing(s) == s.step \in {"write_db", "write_manifest"}

\* The manifest goes on to know a file whose entry is kept, or which is stamped.
Kept(s, f) == f \notin s.filter /\ manifest[f] # 0
Stamped(s, f) == s.stamps[f] # 0 /\ disk[f] # 0

\* Whatever is in a scan's graph will be in its manifest.
Listed(s) ==
    /\ Working(s) =>
         \A f \in Indexed(s.topo) : f \in s.batch \/ f \in s.gone \/ Kept(s, f)
    /\ Writing(s) => \A f \in Indexed(s.topo) : Stamped(s, f) \/ Kept(s, f)
    /\ Written(s)

\* A scan that does not build the index from nothing finds all of it there.
BothFiles == stored = {"db", "manifest"} /\ recorded # NoProject
Filed(s) ==
    /\ (s.mode \in {"incremental", "partial", "update", "reroot"} /\ s.step # "diff") => BothFiles
    /\ s.step = "write_manifest" => "db" \in stored
    /\ s.step = "record" => stored = {"db", "manifest"}

\* Whatever is indexed is in the manifest, but between the two writes.
Known == \A f \in Indexed(db) : manifest[f] # 0

Ledger ==
    /\ \A p \in Procs : Batched(scan[p]) /\ Listed(scan[p]) /\ Filed(scan[p])
    /\ (\A p \in Procs : scan[p].step # "write_manifest") => Known
    /\ (\A p \in Procs : scan[p].step \notin {"write_manifest", "record"}) =>
         stored = {} \/ BothFiles

\* All ids are rooted under the project manifest as it is.
Rooted(g) == \A f \in Indexed(g) : g[f].root = project

HasRows(s) == Working(s) \/ s.step = "write_db"

Uniform == Rooted(db) /\ \A p \in Procs : HasRows(scan[p]) => Rooted(scan[p].topo)

\* Or, once the project manifest has changed: nothing else of the kind can.
Still ==
    /\ hidden = {} /\ sealed = {} /\ \A p \in Procs : scan[p].filter = {}
    /\ \/ turns >= MaxTurns
       \/ Hideable = {} /\ Sealable = {} /\ "kept_mtime" \notin Weather

\* Each id is rooted rightly, or its file will be parsed again.
Agreed ==
    recorded = project =>
        \A f \in Indexed(db) : db[f].root = project \/ manifest[f] # disk[f]

Rerooted(s) ==
    /\ s.mode \in {"incremental", "partial"} /\ Working(s) =>
         /\ recorded = project
         /\ \A f \in Indexed(s.topo) :
              \/ s.topo[f].root = project \/ f \in s.gone
              \/ f \in s.batch /\ s.step \in {"snapshot", "parse"}
    /\ s.mode # "update" /\ Writing(s) => Rooted(s.topo)
    /\ s.step = "record" => Rooted(db)
    /\ s.mode = "update" /\ recorded = project =>
         \A f \in Indexed(s.topo) :
           \/ s.topo[f].root = project
           \/ f \in s.batch /\ s.step = "parse"
           \/ f \notin s.batch /\ manifest[f] # disk[f]

StillRooted == Still /\ Agreed /\ \A p \in Procs : Rerooted(scan[p])

CInv ==
    /\ TypeOK
    /\ Alone
    /\ AllGivenOut
    /\ Views
    /\ Ledger
    /\ Uniform \/ StillRooted

-----------------------------------------------------------------------------
\* In calm weather a scan is disturbed by saves only, and nothing fails.
LEMMA CalmQuiet ==
    ASSUME Calm
    PROVE  /\ \A event \in {"churn", "turn"} : Quiet(event) => lock = NoProc
           /\ "kept_mtime" \in Weather => (Quiet("save") => lock = NoProc)
           /\ ~ Fault("kill") /\ ~ Fault("bad_write") /\ ~ Fault("bad_scanner")
           /\ "turn_back" \notin Weather
  <1>1. /\ "churn" \notin Weather /\ "turn" \notin Weather /\ "turn_back" \notin Weather
        /\ "kill" \notin Weather /\ "bad_write" \notin Weather /\ "bad_scanner" \notin Weather
        /\ "kept_mtime" \in Weather => "save" \notin Weather
    BY DEF Calm
  <1> QED BY <1>1 DEF Quiet, Fault

\* What parsing leaves of a file: what it is now, if it is parsed and there, or
\* at most what there was.
LEMMA ParsedRows ==
    ASSUME TypeOK, NEW g \in Graph, NEW S, NEW drop \in BOOLEAN, NEW f \in Files,
           f \in Indexed(ParseInto(g, S, drop))
    PROVE  \/ f \in S /\ disk[f] # 0 /\ ParseInto(g, S, drop)[f].root = project
           \/ /\ f \notin S \/ disk[f] = 0
              /\ f \in Indexed(g) /\ ParseInto(g, S, drop)[f].root = g[f].root
  <1>1. ParseInto(g, S, drop)[f] =
          IF f \notin S THEN g[f]
          ELSE IF disk[f] # 0 THEN Parsed(f)
          ELSE IF drop THEN Failed ELSE [g[f] EXCEPT !.err = TRUE]
    BY DEF ParseInto
  <1>2. g[f] \in Row /\ ParseInto(g, S, drop)[f].src # 0
    BY DEF Graph, Indexed
  <1>3. /\ [g[f] EXCEPT !.err = TRUE].src = g[f].src
        /\ [g[f] EXCEPT !.err = TRUE].root = g[f].root
    BY <1>2 DEF Row
  <1>4. Failed.src = 0 /\ Parsed(f).root = project
    BY DEF Failed, NoRow, Parsed
  <1>5. CASE f \notin S
    BY <1>1, <1>2, <1>5 DEF Indexed
  <1>6. CASE f \in S /\ disk[f] # 0
    BY <1>1, <1>4, <1>6
  <1>7. CASE f \in S /\ disk[f] = 0
    BY <1>1, <1>2, <1>3, <1>4, <1>7 DEF Indexed
  <1> QED BY <1>5, <1>6, <1>7

\* The same where what cannot be read keeps its nodes.
LEMMA ParsedAgain ==
    ASSUME TypeOK, NEW g \in Graph, NEW S, NEW f \in Files,
           f \in Indexed(ParseInto(g, S, FALSE))
    PROVE  \/ f \in S /\ disk[f] # 0 /\ ParseInto(g, S, FALSE)[f].root = project
           \/ /\ f \notin S \/ disk[f] = 0
              /\ f \in Indexed(g) /\ ParseInto(g, S, FALSE)[f].root = g[f].root
  <1>1. PICK drop \in BOOLEAN : drop = FALSE
    OBVIOUS
  <1>2. f \in Indexed(ParseInto(g, S, drop))
    BY <1>1
  <1>3. \/ f \in S /\ disk[f] # 0 /\ ParseInto(g, S, drop)[f].root = project
        \/ /\ f \notin S \/ disk[f] = 0
           /\ f \in Indexed(g) /\ ParseInto(g, S, drop)[f].root = g[f].root
    BY <1>2, ParsedRows
  <1> QED BY <1>1, <1>3

\* Taking files out leaves the others as they are.
LEMMA RestRows ==
    ASSUME NEW g \in Graph, NEW S, NEW f \in Indexed(Without(g, S))
    PROVE  f \notin S /\ f \in Indexed(g) /\ Without(g, S)[f] = g[f]
  BY DEF Without, Indexed, NoRow

\* A scan at rest has nothing to answer for.
LEMMA RestingCalm ==
    ASSUME TypeOK
    PROVE  /\ Batched(Resting) /\ Listed(Resting) /\ Filed(Resting)
           /\ ~ HasRows(Resting) /\ Rerooted(Resting) /\ Veil(Resting.filter)
           /\ Resting.step = "idle" /\ Resting.filter = {} /\ Resting.gone = {}
           /\ \A f \in Files : Resting.stamps[f] = 0
  BY DEF Batched, Listed, Filed, HasRows, Rerooted, Veil, Resting, Working, Writing, Written,
     Rebuilding, NoStamps

LEMMA CalmInit == Init => CInv
  <1> SUFFICES ASSUME Init PROVE CInv
    OBVIOUS
  <1>1. TypeOK
    BY TypeInit
  <1>2. \A p \in Procs : scan[p] = Resting
    BY DEF Init
  <1>3. Alone /\ AllGivenOut
    BY <1>1, <1>2, RestingCalm DEF Init, Alone, AllGivenOut, GivenOut, NoStamps
  <1>4. Views
    BY <1>1, <1>2, RestingCalm DEF Init, Views, Veil
  <1>5. Indexed(db) = {}
    BY DEF Init, Indexed, EmptyGraph, NoRow
  <1>6. Ledger
    BY <1>1, <1>2, <1>5, RestingCalm DEF Init, Ledger, Known
  <1>7. Uniform
    BY <1>1, <1>2, <1>5, RestingCalm DEF Uniform, Rooted
  <1> QED BY <1>1, <1>3, <1>4, <1>6, <1>7 DEF CInv

\* What has to be shown of a step of p's scan to a state s: what the invariant
\* says of s and of the index.  Every other scan rests, before and after.
LEMMA CalmStep ==
    ASSUME CInv, TypeOK', NEW p \in Procs, NEW s \in Scan, Go(p, s),
           lock \in {p, NoProc}, lock' = p \/ s = Resting,
           UNCHANGED <<tree, project, turns>>,
           s.filter = {} \/ s.filter = hidden \/ s.filter = scan[p].filter,
           \A f \in Files : s.stamps[f] <= clock /\ manifest'[f] <= clock,
           Batched(s)', Listed(s)', Filed(s)',
           s.step = "write_manifest" \/ Known',
           s.step \in {"write_manifest", "record"} \/ (stored = {} \/ BothFiles)',
           Uniform => Rooted(db)' /\ (HasRows(s) => Rooted(s.topo)'),
           StillRooted => Agreed' /\ Rerooted(s)'
    PROVE  CInv'
  <1>1. scan' = [scan EXCEPT ![p] = s] /\ scan \in [Procs -> Scan]
    BY DEF Go, CInv, TypeOK
  <1>2. scan'[p] = s /\ \A q \in Procs \ {p} : scan'[q] = Resting
    BY <1>1, ScanSyncAssumption DEF CInv, Alone
  <1>3. /\ clock' = clock /\ disk' = disk /\ past' = past /\ hidden' = hidden
        /\ sealed' = sealed /\ project' = project /\ turns' = turns
    BY DEF tree
  <1>4. Alone'
    BY <1>2 DEF Alone
  <1>5. AllGivenOut'
    <2>1. \A q \in Procs, f \in Files : scan'[q].stamps[f] <= clock
      BY <1>2, RestingCalm DEF CInv, TypeOK
    <2> QED BY <1>3, <2>1 DEF CInv, AllGivenOut, GivenOut
  <1>6. Veil(hidden) /\ Veil(scan[p].filter) /\ Veil({})
    BY DEF CInv, Views, Veil
  <1>7. Views'
    <2>1. Veil(s.filter)
      BY <1>6
    <2>2. \A q \in Procs : Veil(scan'[q].filter)
      BY <1>2, <1>6, <2>1, RestingCalm DEF CInv
    <2> QED BY <1>3, <2>2 DEF CInv, Views, Veil
  <1>8. (Batched(Resting) /\ Listed(Resting) /\ Filed(Resting) /\ Rerooted(Resting))'
    BY DEF Batched, Listed, Filed, Rerooted, Resting, Working, Writing, Written, Rebuilding,
       NoStamps
  <1>9. Ledger'
    <2>1. ASSUME NEW q \in Procs
          PROVE  (Batched(scan[q]) /\ Listed(scan[q]) /\ Filed(scan[q]))'
      <3>1. CASE q = p
        BY <1>2, <3>1 DEF Batched, Listed, Filed, Working, Writing, Written, Rebuilding, Stamped, Kept
      <3>2. CASE q # p
        BY <1>2, <1>8, <3>2 DEF Batched, Listed, Filed, Working, Writing, Written, Rebuilding, Stamped, Kept
      <3> QED BY <3>1, <3>2
    <2> QED BY <1>2, <2>1 DEF Ledger
  <1>10. CASE Uniform
    <2>1. ASSUME NEW q \in Procs, HasRows(scan'[q]) PROVE Rooted(scan[q].topo)'
      BY <1>2, <1>10, <2>1, RestingCalm DEF CInv, Rooted
    <2>2. Uniform'
      BY <1>10, <2>1 DEF Uniform, HasRows, Working, Rebuilding
    <2> QED BY <1>4, <1>5, <1>7, <1>9, <2>2 DEF CInv
  <1>11. CASE StillRooted
    <2>1. s.filter = {}
      BY <1>11 DEF StillRooted, Still
    <2>2. Still'
      BY <1>2, <1>3, <1>11, <2>1, RestingCalm DEF CInv, StillRooted, Still
    <2>3. ASSUME NEW q \in Procs PROVE Rerooted(scan[q])'
      <3>1. CASE q = p
        BY <1>2, <1>11, <3>1 DEF Rerooted, Working, Writing, Rebuilding
      <3>2. CASE q # p
        BY <1>2, <1>8, <3>2 DEF Rerooted, Working, Writing, Rebuilding
      <3> QED BY <3>1, <3>2
    <2>4. StillRooted'
      BY <1>11, <2>2, <2>3 DEF StillRooted
    <2> QED BY <1>4, <1>5, <1>7, <1>9, <2>4 DEF CInv
  <1> QED BY <1>10, <1>11 DEF CInv

\* A change of the tree disturbs no scan, or none is under way.
LEMMA CalmLedger ==
    ASSUME CInv, UNCHANGED <<index, lock, scan>>,
           lock = NoProc \/ (sealed' = sealed /\ \A f \in Files : disk'[f] = 0 <=> disk[f] = 0)
    PROVE  Ledger'
  <1>1. manifest' = manifest /\ db' = db /\ stored' = stored /\ recorded' = recorded
    BY DEF index
  <1>2. CASE lock = NoProc
    <2>1. \A q \in Procs : scan[q] = Resting /\ scan'[q] = Resting
      BY <1>2, ScanSyncAssumption DEF CInv, Alone
    <2>2. (Batched(Resting) /\ Listed(Resting) /\ Filed(Resting))'
      BY DEF Batched, Listed, Filed, Resting, Working, Writing, Written, Rebuilding, NoStamps
    <2>3. ASSUME NEW q \in Procs PROVE (Batched(scan[q]) /\ Listed(scan[q]) /\ Filed(scan[q]))'
      BY <2>1, <2>2 DEF Batched, Listed, Filed, Working, Writing, Written, Rebuilding, Stamped, Kept
    <2>4. Known /\ (stored = {} \/ BothFiles)
      BY <2>1, RestingCalm DEF CInv, Ledger
    <2> QED BY <1>1, <2>3, <2>4 DEF Ledger, Known, BothFiles
  <1>3. CASE sealed' = sealed /\ \A f \in Files : disk'[f] = 0 <=> disk[f] = 0
    <2>1. ASSUME NEW q \in Procs PROVE (Batched(scan[q]) /\ Listed(scan[q]) /\ Filed(scan[q]))'
      <3>1. Batched(scan[q]) /\ Listed(scan[q]) /\ Filed(scan[q]) /\ scan'[q] = scan[q]
        BY DEF CInv, Ledger
      <3>2. scan[q].batch \subseteq Files
        BY DEF CInv, TypeOK, Scan
      <3>3. \A F : Found(F)' = Found(F)
        BY <1>3 DEF Found, OnDisk
      <3>4. Batched(scan[q])'
        <4>1. Rebuilding(scan[q]) /\ scan[q].step = "parse" => scan[q].batch = Found(scan[q].filter)'
          BY <3>1, <3>3 DEF Batched
        <4>2. scan[q].mode # "update" =>
                \A f \in scan[q].batch : disk'[f] # 0 /\ (scan[q].step # "snapshot" => scan[q].stamps[f] # 0)
          BY <1>3, <3>1, <3>2 DEF Batched
        <4>3. scan[q].mode = "update" =>
                \A f \in Files : scan[q].stamps[f] = 0 <=> f \notin scan[q].batch \/ disk'[f] = 0
          BY <1>3, <3>1 DEF Batched
        <4> QED BY <3>1, <4>1, <4>2, <4>3 DEF Batched, Rebuilding
      <3>5. Listed(scan[q])' /\ Filed(scan[q])'
        BY <1>1, <1>3, <3>1
           DEF Listed, Filed, Working, Writing, Written, Rebuilding, Stamped, Kept, Indexed, BothFiles
      <3> QED BY <3>4, <3>5
    <2> QED BY <1>1, <2>1 DEF CInv, Ledger, Known, BothFiles
  <1> QED BY <1>2, <1>3

\* The tree changes without a file being put back, hidden or made unlistable:
\* what no id was rooted under changes only to be parsed again.
LEMMA CalmTouch ==
    ASSUME CInv, TypeOK', NEW f \in Files, NEW t \in Nat,
           disk' = [disk EXCEPT ![f] = t], t = 0 \/ t > clock, t <= clock', clock <= clock',
           \A g \in Files : \A u \in past'[g] : u \in past[g] \/ u <= clock,
           lock = NoProc \/ (t # 0 /\ disk[f] # 0),
           UNCHANGED <<hidden, sealed, project, turns, index, lock, scan>>
    PROVE  CInv'
  <1>1. /\ disk \in [Files -> Nat] /\ manifest \in [Files -> Nat]
        /\ past \in [Files -> SUBSET Nat] /\ past' \in [Files -> SUBSET Nat]
        /\ clock \in Nat /\ clock' \in Nat /\ manifest' = manifest /\ db' = db
        /\ recorded' = recorded /\ \A p \in Procs : scan[p] \in Scan
    BY DEF CInv, TypeOK, index
  <1>2. Alone' /\ Views'
    BY DEF CInv, Alone, Views, Veil
  <1>3. AllGivenOut'
    <2>1. \A g \in Files : disk'[g] <= clock'
      BY <1>1 DEF CInv, AllGivenOut, GivenOut
    <2>2. \A g \in Files : manifest[g] <= clock'
      BY <1>1 DEF CInv, AllGivenOut, GivenOut
    <2>3. ASSUME NEW g \in Files, NEW p \in Procs PROVE scan[p].stamps[g] <= clock'
      BY <1>1 DEF CInv, AllGivenOut, GivenOut, Scan
    <2>4. ASSUME NEW g \in Files, NEW u \in past'[g] PROVE u <= clock'
      <3>1. u \in Nat /\ u <= clock
        BY <1>1, <2>4 DEF CInv, AllGivenOut
      <3> QED BY <1>1, <3>1
    <2> QED BY <1>1, <2>1, <2>2, <2>3, <2>4 DEF AllGivenOut, GivenOut
  <1>4. Ledger'
    BY <1>1, CalmLedger
  <1>5. CASE Uniform
    <2>1. Uniform'
      BY <1>1, <1>5 DEF Uniform, Rooted, Indexed, HasRows, Working, Rebuilding
    <2> QED BY <1>2, <1>3, <1>4, <2>1 DEF CInv
  <1>6. CASE StillRooted
    <2>1. Still'
      BY <1>6 DEF StillRooted, Still
    <2>2. \A g \in Files : manifest[g] # disk[g] /\ (t # 0 \/ manifest[g] # 0) => manifest[g] # disk'[g]
      BY <1>1 DEF CInv, AllGivenOut, GivenOut
    <2>3. lock = NoProc => Known /\ \A p \in Procs : scan[p] = Resting
      BY ScanSyncAssumption, RestingCalm DEF CInv, Alone, Ledger
    <2>4. \A g \in Indexed(db) : t # 0 \/ manifest[g] # 0
      BY <2>3 DEF Known
    <2>5. Agreed'
      BY <1>1, <1>6, <2>2, <2>4 DEF StillRooted, Agreed, Indexed
    <2>6. ASSUME NEW q \in Procs PROVE Rerooted(scan[q])'
      <3>1. Rerooted(scan[q]) /\ scan'[q] = scan[q]
        BY <1>6 DEF StillRooted
      <3>2. CASE lock = NoProc
        <4>1. scan[q] = Resting
          BY <2>3, <3>2
        <4> QED BY <3>1, <4>1 DEF Rerooted, Resting, Working, Writing, Rebuilding
      <3>3. CASE t # 0
        BY <1>1, <2>2, <3>1, <3>3 DEF Rerooted, Working, Writing, Rebuilding, Rooted, Indexed
      <3> QED BY <3>2, <3>3
    <2> QED BY <1>2, <1>3, <1>4, <2>1, <2>5, <2>6 DEF CInv, StillRooted
  <1> QED BY <1>5, <1>6 DEF CInv

\* One change of the kind that Calm limits: only if no id can be affected, or
\* none has been made so far.
LEMMA CalmWorld == Calm /\ CInv /\ World => CInv'
  <1> SUFFICES ASSUME Calm, CInv, World PROVE CInv'
    OBVIOUS
  <1>1. TypeOK' /\ TypeOK
    BY TypeWorld DEF CInv
  <1>2. ASSUME NEW f \in Files, EditFile(f) PROVE CInv'
    <2>1. PICK t \in Nat : t = clock + 1
      BY <1>1 DEF TypeOK
    <2>2. /\ t > clock /\ t <= clock' /\ clock <= clock' /\ disk' = [disk EXCEPT ![f] = t]
          /\ t # 0
      BY <1>1, <1>2, <2>1 DEF EditFile, TypeOK
    <2>3. \A g \in Files : \A u \in past'[g] : u \in past[g] \/ u <= clock
      BY <1>1, <1>2 DEF EditFile, TypeOK, CInv, AllGivenOut, GivenOut
    <2>4. lock = NoProc \/ disk[f] # 0
      BY <1>2, CalmQuiet DEF EditFile
    <2>5. UNCHANGED <<hidden, sealed, project, turns, index, lock, scan>>
      BY <1>2 DEF EditFile
    <2> QED BY <1>1, <2>2, <2>3, <2>4, <2>5, CalmTouch
  <1>3. ASSUME NEW f \in Files, RemoveFile(f) PROVE CInv'
    <2>1. PICK t \in Nat : t = 0
      OBVIOUS
    <2>2. t <= clock' /\ clock <= clock' /\ disk' = [disk EXCEPT ![f] = t] /\ past' = past
      BY <1>1, <1>3, <2>1 DEF RemoveFile, TypeOK
    <2>3. lock = NoProc
      BY <1>3, CalmQuiet DEF RemoveFile
    <2>4. UNCHANGED <<hidden, sealed, project, turns, index, lock, scan>>
      BY <1>3 DEF RemoveFile
    <2> QED BY <1>1, <2>1, <2>2, <2>3, <2>4, CalmTouch
  <1>4. ASSUME NEW f \in Files, RestoreFile(f) \/ ChangeVisibility(f) \/ ChangeAccess(f)
        PROVE  CInv'
    <2>1. /\ UNCHANGED <<clock, past, project, index, lock, scan>>
          /\ turns < MaxTurns /\ turns' = turns + 1
      BY <1>4 DEF RestoreFile, ChangeVisibility, ChangeAccess
    <2>2. /\ manifest' = manifest /\ db' = db
      BY <2>1 DEF index
    <2>3. turns' # 0 /\ turns \in Nat
      BY <1>1, <2>1 DEF TypeOK
    <2>4. Alone'
      BY <2>1 DEF CInv, Alone
    <2>5. \A g \in Files : disk'[g] <= clock
      <3>1. CASE RestoreFile(f)
        BY <1>1, <3>1 DEF RestoreFile, TypeOK, CInv, AllGivenOut, GivenOut
      <3>2. CASE disk' = disk
        BY <3>2 DEF CInv, AllGivenOut, GivenOut
      <3> QED BY <1>4, <3>1, <3>2 DEF ChangeVisibility, ChangeAccess
    <2>6. AllGivenOut'
      BY <2>1, <2>2, <2>5 DEF CInv, AllGivenOut, GivenOut
    <2>7. lock = NoProc \/ ChangeVisibility(f)
      BY <1>4, CalmQuiet DEF RestoreFile, ChangeAccess
    <2>8. Ledger'
      BY <2>1, <2>7, CalmLedger DEF ChangeVisibility
    <2>9. Uniform
      BY <1>4, <2>1, <2>3, ScanSyncAssumption
         DEF CInv, StillRooted, Still, RestoreFile, ChangeVisibility, ChangeAccess
    <2>10. Uniform'
      BY <2>1, <2>2, <2>9 DEF Uniform, Rooted, Indexed, HasRows, Working, Rebuilding
    <2>11. Views'
      <3>1. CASE RestoreFile(f)
        BY <2>1, <2>3, <3>1 DEF RestoreFile, CInv, Views, Veil
      <3>2. CASE ChangeVisibility(f)
        <4>1. sealed = {}
          BY <2>1, <2>3, <3>2, ScanSyncAssumption DEF ChangeVisibility, Calm, CInv, Views
        <4>2. hidden' \subseteq Hideable
          BY <3>2 DEF ChangeVisibility, CInv, Views, Veil
        <4> QED BY <2>1, <2>3, <3>2, <4>1, <4>2 DEF ChangeVisibility, CInv, Views, Veil
      <3>3. CASE ChangeAccess(f)
        <4>1. hidden = {}
          BY <2>1, <2>3, <3>3, ScanSyncAssumption DEF ChangeAccess, Calm, CInv, Views, Veil
        <4>2. \A q \in Procs : scan'[q].filter = {}
          BY <1>1, <2>1, <2>7, <3>3, CalmQuiet, RestingCalm, ScanSyncAssumption
             DEF ChangeAccess, CInv, Alone
        <4>3. sealed' \subseteq Sealable
          BY <3>3 DEF ChangeAccess, CInv, Views
        <4>4. hidden' = hidden
          BY <3>3 DEF ChangeAccess
        <4> QED BY <2>3, <4>1, <4>2, <4>3, <4>4 DEF Views, Veil
      <3> QED BY <1>4, <3>1, <3>2, <3>3
    <2> QED BY <1>1, <2>4, <2>6, <2>8, <2>10, <2>11 DEF CInv
  <1>5. CASE EditProject
    <2>1. /\ UNCHANGED <<tree, index, lock, scan>> /\ turns < MaxTurns /\ turns' = turns + 1
          /\ project' \in Projects \ {project}
      BY <1>5 DEF EditProject
    <2>2. lock = NoProc /\ project' # recorded
      BY <1>5, CalmQuiet DEF EditProject
    <2>3. /\ clock' = clock /\ disk' = disk /\ past' = past /\ hidden' = hidden /\ sealed' = sealed
          /\ manifest' = manifest /\ db' = db /\ recorded' = recorded
      BY <2>1 DEF tree, index
    <2>4. \A q \in Procs : scan[q] = Resting /\ scan'[q] = Resting
      BY <2>1, <2>2, ScanSyncAssumption DEF CInv, Alone
    <2>5. turns \in Nat /\ turns' # 0
      BY <1>1, <2>1 DEF TypeOK
    <2>6. Alone' /\ AllGivenOut' /\ Views'
      BY <2>1, <2>3, <2>5 DEF CInv, Alone, AllGivenOut, GivenOut, Views, Veil
    <2>7. Ledger'
      BY <2>1, <2>2, CalmLedger
    <2>8. \/ MaxTurns <= 1
          \/ Hideable = {} /\ Sealable = {} /\ "kept_mtime" \notin Weather
      BY <1>1, <2>1 DEF Calm, TypeOK
    <2>9. hidden = {} /\ sealed = {}
      BY <2>1, <2>5, <2>8, ScanSyncAssumption DEF CInv, Views, Veil
    <2>10. turns' >= MaxTurns \/ (Hideable = {} /\ Sealable = {} /\ "kept_mtime" \notin Weather)
      BY <2>1, <2>5, <2>8, ScanSyncAssumption
    <2>11. Still'
      BY <1>1, <2>3, <2>4, <2>9, <2>10, RestingCalm DEF Still
    <2>12. Agreed'
      BY <2>2, <2>3 DEF Agreed
    <2>13. Rerooted(Resting)'
      BY DEF Rerooted, Resting, Working, Writing, Rebuilding
    <2>14. \A q \in Procs : Rerooted(scan[q])'
      BY <2>4, <2>13 DEF Rerooted, Working, Writing, Rebuilding
    <2> QED BY <1>1, <2>6, <2>7, <2>11, <2>12, <2>14 DEF CInv, StillRooted
  <1> QED BY <1>2, <1>3, <1>4, <1>5 DEF World

\* A scan under way: its state, and that no other is; so all is listed.
LEMMA CalmBusy ==
    ASSUME CInv, NEW p \in Procs, lock = p
    PROVE  /\ scan[p] \in Scan /\ scan[p].topo \in Graph
           /\ Batched(scan[p]) /\ Listed(scan[p]) /\ Filed(scan[p])
           /\ scan[p].step # "write_manifest" => Known
           /\ scan[p].step \notin {"write_manifest", "record"} => stored = {} \/ BothFiles
           /\ Uniform /\ HasRows(scan[p]) => Rooted(scan[p].topo)
           /\ Uniform => Rooted(db)
           /\ StillRooted => Agreed /\ Rerooted(scan[p])
           /\ \A f \in Files : scan[p].stamps[f] <= clock /\ manifest[f] <= clock
  <1>1. \A q \in Procs \ {p} : scan[q].step = "idle"
    BY RestingCalm, ScanSyncAssumption DEF CInv, Alone
  <1>2. scan[p] \in Scan /\ scan[p].topo \in Graph
    BY DEF CInv, TypeOK, Scan
  <1>3. /\ scan[p].step # "write_manifest" => Known
        /\ scan[p].step \notin {"write_manifest", "record"} => stored = {} \/ BothFiles
    BY <1>1 DEF CInv, Ledger
  <1> QED BY <1>2, <1>3 DEF CInv, Ledger, Uniform, StillRooted, AllGivenOut, GivenOut

\* Nobody is scanning: the index is all there is.
LEMMA CalmIdle ==
    ASSUME CInv, lock = NoProc
    PROVE  Known /\ (stored = {} \/ BothFiles)
  BY RestingCalm, ScanSyncAssumption DEF CInv, Alone, Ledger

\* Going back to rest, when what is left is as it should be.
LEMMA CalmRest ==
    ASSUME CInv, TypeOK', NEW p \in Procs, lock = p, Rest(p),
           UNCHANGED <<tree, project, turns>>,
           \A f \in Files : manifest'[f] <= clock,
           Known', (stored = {} \/ BothFiles)',
           Uniform => Rooted(db)', StillRooted => Agreed'
    PROVE  CInv'
  <1>1. PICK s \in Scan : s = Resting
    BY Shapes
  <1>2. (Batched(s) /\ Listed(s) /\ Filed(s) /\ Rerooted(s))' /\ ~ HasRows(s)
    BY <1>1 DEF Batched, Listed, Filed, HasRows, Rerooted, Resting, Working, Writing, Written,
       Rebuilding, NoStamps
  <1>3. s.filter = {} /\ \A f \in Files : s.stamps[f] <= clock
    BY <1>1, RestingCalm DEF CInv, TypeOK
  <1> QED BY <1>1, <1>2, <1>3, CalmStep DEF Rest

\* A step that leaves the index as it is.
LEMMA CalmKeep ==
    ASSUME CInv, TypeOK', NEW p \in Procs, NEW s \in Scan, Go(p, s),
           lock \in {p, NoProc}, lock' = p,
           lock = p => scan[p].step \notin {"write_manifest", "record"},
           UNCHANGED <<tree, project, turns, index>>,
           s.filter = {} \/ s.filter = hidden \/ s.filter = scan[p].filter,
           \A f \in Files : s.stamps[f] <= clock,
           Batched(s), Listed(s), Filed(s), s.step \notin {"write_manifest", "record"},
           Uniform /\ HasRows(s) => Rooted(s.topo),
           StillRooted => Rerooted(s)
    PROVE  CInv'
  <1>1. /\ clock' = clock /\ disk' = disk /\ hidden' = hidden /\ sealed' = sealed
        /\ db' = db /\ manifest' = manifest /\ recorded' = recorded /\ stored' = stored
    BY DEF tree, index
  <1>2. Known /\ (stored = {} \/ BothFiles)
    BY CalmBusy, CalmIdle
  <1>3. Known' /\ (stored = {} \/ BothFiles)'
    BY <1>1, <1>2 DEF Known, Indexed, BothFiles
  <1>4. Found(s.filter)' = Found(s.filter)
    BY <1>1 DEF Found, OnDisk
  <1>5. Batched(s)' /\ Listed(s)' /\ Filed(s)'
    BY <1>1, <1>4 DEF Batched, Listed, Filed, BothFiles, Working, Writing, Written, Rebuilding,
       Stamped, Kept, Indexed
  <1>6. \A f \in Files : s.stamps[f] <= clock /\ manifest'[f] <= clock
    BY <1>1 DEF CInv, AllGivenOut, GivenOut
  <1>7. Uniform => Rooted(db)' /\ (HasRows(s) => Rooted(s.topo)')
    BY <1>1 DEF Uniform, Rooted, Indexed
  <1>8. StillRooted => Agreed' /\ Rerooted(s)'
    BY <1>1 DEF StillRooted, Agreed, Rerooted, Rooted, Indexed, Working, Writing, Rebuilding
  <1> QED BY <1>3, <1>5, <1>6, <1>7, <1>8, CalmStep

LEMMA CalmBegin ==
    ASSUME CInv, NEW p \in Procs, NEW mode \in Entries, Begin(p, mode)
    PROVE  CInv'
  <1>1. TypeOK' /\ mode \in {"incremental", "full"}
    BY TypeBegin DEF CInv, Begin
  <1>2. PICK s : s = [Resting EXCEPT !.mode = mode, !.filter = hidden,
                        !.step = IF mode = "full" THEN "snapshot" ELSE "diff"]
    OBVIOUS
  <1>3. s \in Scan
    BY <1>2, Shapes DEF CInv, TypeOK, Scan, Steps, Entries
  <1>4. /\ s.mode = mode /\ s.step = IF mode = "full" THEN "snapshot" ELSE "diff"
        /\ s.filter = hidden /\ s.batch = {} /\ s.gone = {} /\ s.stamps = NoStamps
    BY <1>2 DEF Resting
  <1>5. Batched(s) /\ Listed(s) /\ Filed(s) /\ ~ HasRows(s) /\ Rerooted(s)
    BY <1>1, <1>4
       DEF Batched, Listed, Filed, HasRows, Rerooted, Working, Writing, Written, Rebuilding
  <1>6. \A f \in Files : s.stamps[f] <= clock
    BY <1>4 DEF CInv, TypeOK, NoStamps
  <1>7. /\ Go(p, s) /\ lock = NoProc /\ lock' = p /\ UNCHANGED <<tree, project, turns, index>>
        /\ NoProc # p
    BY <1>2, ScanSyncAssumption DEF Begin
  <1> QED BY <1>1, <1>3, <1>4, <1>5, <1>6, <1>7, CalmKeep

LEMMA CalmUpdateFile ==
    ASSUME CInv, NEW p \in Procs, NEW f \in Files, UpdateFile(p, f)
    PROVE  CInv'
  <1>1. TypeOK'
    BY TypeUpdateFile DEF CInv
  <1>2. PICK s : s = [Resting EXCEPT !.mode = "update", !.step = "parse", !.batch = {f},
                        !.topo = db, !.stamps[f] = disk[f]]
    OBVIOUS
  <1>3. s \in Scan
    BY <1>2, Shapes DEF CInv, TypeOK, Scan, Steps
  <1>4. /\ s.mode = "update" /\ s.step = "parse" /\ s.batch = {f} /\ s.topo = db
        /\ s.gone = {} /\ s.filter = {} /\ s.stamps = [NoStamps EXCEPT ![f] = disk[f]]
    BY <1>2 DEF Resting
  <1>5. /\ Go(p, s) /\ lock = NoProc /\ lock' = p /\ UNCHANGED <<tree, project, turns, index>>
        /\ NoProc # p /\ "db" \in stored
    BY <1>2, ScanSyncAssumption DEF UpdateFile
  <1>6. Known /\ BothFiles
    BY <1>5, CalmIdle
  <1>7. Batched(s)
    BY <1>4 DEF Batched, Rebuilding, NoStamps
  <1>8. Listed(s) /\ Filed(s)
    BY <1>4, <1>6 DEF Listed, Filed, Known, Kept, Working, Writing, Written
  <1>9. Uniform => Rooted(s.topo)
    BY <1>4 DEF Uniform
  <1>10. StillRooted => Rerooted(s)
    <2> SUFFICES ASSUME StillRooted, recorded = project, NEW g \in Indexed(db)
                 PROVE  db[g].root = project \/ g \in {f} \/ manifest[g] # disk[g]
      BY <1>4 DEF Rerooted, Writing
    <2> QED BY DEF StillRooted, Agreed
  <1>11. \A g \in Files : s.stamps[g] <= clock
    BY <1>4 DEF CInv, TypeOK, NoStamps, AllGivenOut, GivenOut
  <1> QED BY <1>1, <1>3, <1>4, <1>5, <1>7, <1>8, <1>9, <1>10, <1>11, CalmKeep

\* What a diff finds, where a directory that cannot be listed and a hidden file
\* do not come together: it refuses no file that is hidden, and all that is new.
LEMMA DiffFinds ==
    ASSUME CInv, NEW p \in Procs, scan[p].step = "diff", lock = p
    PROVE  /\ \A f \in Changed(scan[p].filter) : disk[f] # 0
           /\ \A f \in Indexed(db) : f \in scan[p].filter => f \in Deleted(scan[p].filter)
           /\ StillRooted => \A f \in Indexed(db) :
                manifest[f] # disk[f] => f \in Changed(scan[p].filter) \cup Deleted(scan[p].filter)
  <1>1. Known /\ Indexed(db) \subseteq Files
    BY CalmBusy DEF Indexed
  <1>2. Veil(scan[p].filter)
    BY DEF CInv, Views
  <1>3. sealed = {} => Refused(scan[p].filter) = {}
    BY DEF Refused, Found, OnDisk
  <1>4. \A f \in Changed(scan[p].filter) : disk[f] # 0
    BY DEF Changed, Found, OnDisk
  <1>5. \A f \in Indexed(db) : f \in scan[p].filter => f \in Deleted(scan[p].filter)
    BY <1>1, <1>2, <1>3 DEF Known, Veil, Deleted
  <1>6. ASSUME StillRooted, NEW f \in Indexed(db), manifest[f] # disk[f]
        PROVE  f \in Changed(scan[p].filter) \cup Deleted(scan[p].filter)
    <2>1. sealed = {} /\ scan[p].filter = {}
      BY <1>6 DEF StillRooted, Still
    <2>2. CASE disk[f] # 0
      BY <1>1, <1>6, <2>1, <2>2 DEF Changed, Found, OnDisk
    <2>3. CASE disk[f] = 0
      BY <1>1, <1>3, <1>6, <2>1, <2>3 DEF Known, Deleted
    <2> QED BY <2>2, <2>3
  <1> QED BY <1>4, <1>5, <1>6

LEMMA CalmDiffScan ==
    ASSUME CInv, NEW p \in Procs, DiffScan(p)
    PROVE  CInv'
  <1>1. TypeOK' /\ scan[p] \in Scan
    BY TypeDiffScan DEF CInv, TypeOK
  <1>2. /\ scan[p].step = "diff" /\ lock = p /\ UNCHANGED <<tree, project, turns>>
        /\ db' = db /\ manifest' = manifest /\ stored' = stored
        /\ disk' = disk /\ clock' = clock /\ p # NoProc
    BY ScanSyncAssumption DEF DiffScan, At, tree
  <1>3. /\ scan[p].batch = {} /\ scan[p].gone = {} /\ scan[p].mode = "incremental"
        /\ Known /\ (stored = {} \/ BothFiles)
        /\ \A f \in Files : scan[p].stamps[f] <= clock /\ manifest[f] <= clock
        /\ Uniform => Rooted(db)
        /\ StillRooted => Agreed
    BY <1>2, CalmBusy DEF Batched
  <1>4. CASE stored # {"db", "manifest"} \/ ProjectChanged
    <2>1. PICK mode \in {"full", "reroot"} :
            /\ mode = IF stored = {"db", "manifest"} THEN "reroot" ELSE "full"
            /\ Go(p, [scan[p] EXCEPT !.step = "snapshot", !.filter = hidden, !.mode = mode])
            /\ lock' = lock /\ recorded' = recorded
      BY <1>4 DEF DiffScan
    <2>2. PICK s : s = [scan[p] EXCEPT !.step = "snapshot", !.filter = hidden, !.mode = mode]
      OBVIOUS
    <2>3. s \in Scan
      BY <1>1, <2>2 DEF CInv, TypeOK, Scan, Steps
    <2>4. /\ s.step = "snapshot" /\ s.mode = mode /\ s.filter = hidden /\ s.gone = {}
          /\ s.batch = {} /\ s.stamps = scan[p].stamps
      BY <1>1, <1>3, <2>2 DEF Scan
    <2>5. Batched(s) /\ Listed(s) /\ Filed(s) /\ ~ HasRows(s) /\ Rerooted(s)
      BY <1>3, <2>1, <2>4 DEF Batched, Listed, Filed, HasRows, Rerooted, Working, Writing, Written,
         Rebuilding, BothFiles
    <2>6. UNCHANGED index
      BY <1>2, <2>1 DEF index
    <2> QED BY <1>1, <1>2, <1>3, <2>1, <2>2, <2>3, <2>4, <2>5, <2>6, CalmKeep
  <1>5. CASE ~ (stored # {"db", "manifest"} \/ ProjectChanged)
    <2>1. /\ recorded' = project /\ recorded = project /\ BothFiles /\ BothFiles'
      BY <1>2, <1>3, <1>5, ScanSyncAssumption DEF DiffScan, ProjectChanged, BothFiles, CInv, TypeOK
    <2>2. UNCHANGED index
      BY <1>2, <2>1 DEF index
    <2>3. Known'
      BY <1>2, <1>3 DEF Known, Indexed
    <2>4. CASE Rest(p)
      <3>1. Uniform => Rooted(db)'
        BY <1>2, <1>3 DEF Rooted, Indexed
      <3>2. StillRooted => Agreed'
        BY <1>2, <1>3, <2>1 DEF Agreed, Indexed
      <3> QED BY <1>1, <1>2, <1>3, <2>1, <2>3, <2>4, <3>1, <3>2, CalmRest
    <2>5. ASSUME NEW mode \in {"incremental", "partial"},
                 mode = "partial" => Deleted(scan[p].filter) = {},
                 Go(p, [scan[p] EXCEPT !.step = "snapshot", !.mode = mode,
                          !.batch = Changed(scan[p].filter),
                          !.gone = Deleted(scan[p].filter), !.topo = db]),
                 lock' = lock
          PROVE  CInv'
      <3>1. PICK s : s = [scan[p] EXCEPT !.step = "snapshot", !.mode = mode,
                            !.batch = Changed(scan[p].filter),
                            !.gone = Deleted(scan[p].filter), !.topo = db]
        OBVIOUS
      <3>2. s \in Scan
        BY <1>1, <3>1 DEF CInv, TypeOK, Scan, Steps, Changed, Deleted, Found, OnDisk
      <3>3. /\ s.step = "snapshot" /\ s.mode = mode /\ s.filter = scan[p].filter /\ s.topo = db
            /\ s.stamps = scan[p].stamps /\ s.batch = Changed(scan[p].filter)
            /\ s.gone = Deleted(scan[p].filter)
        BY <1>1, <3>1 DEF Scan
      <3>4. Batched(s)
        BY <1>2, <2>5, <3>3, DiffFinds DEF Batched, Rebuilding
      <3>5. Listed(s) /\ Filed(s)
        BY <1>2, <1>3, <2>1, <3>3, DiffFinds
           DEF Listed, Filed, Known, Kept, Working, Writing, Written
      <3>6. Uniform => Rooted(s.topo)
        BY <1>3, <3>3
      <3>7. StillRooted => Rerooted(s)
        <4> SUFFICES ASSUME StillRooted, NEW f \in Indexed(db)
                     PROVE  db[f].root = project \/ f \in s.gone \/ f \in s.batch
          BY <2>1, <3>3 DEF Rerooted, Writing
        <4> QED BY <1>2, <1>3, <2>1, <3>3, DiffFinds DEF Agreed
      <3> QED BY <1>1, <1>2, <1>3, <2>2, <2>5, <3>1, <3>2, <3>3, <3>4, <3>5, <3>6, <3>7, CalmKeep
    <2> QED BY <1>5, <2>4, <2>5 DEF DiffScan
  <1> QED BY <1>4, <1>5

LEMMA CalmSnapshot ==
    ASSUME CInv, NEW p \in Procs, Snapshot(p)
    PROVE  CInv'
  <1>1. TypeOK' /\ scan[p] \in Scan /\ disk \in [Files -> Nat]
    BY TypeSnapshot DEF CInv, TypeOK
  <1>2. /\ scan[p].step = "snapshot" /\ lock = p /\ lock' = p
        /\ UNCHANGED <<tree, project, turns, index>>
    BY DEF Snapshot, At
  <1>3. PICK batch : batch = IF scan[p].mode \in {"full", "reroot"}
                             THEN Found(scan[p].filter) ELSE scan[p].batch
    OBVIOUS
  <1>4. PICK stamps : stamps = [f \in Files |-> IF f \in batch THEN disk[f] ELSE 0]
    OBVIOUS
  <1>5. batch \subseteq Files /\ stamps \in [Files -> Nat]
    BY <1>1, <1>3, <1>4 DEF Scan, Found, OnDisk
  <1>6. PICK s : s = [scan[p] EXCEPT !.step = "parse", !.batch = batch, !.stamps = stamps]
    OBVIOUS
  <1>7. s \in Scan /\ Go(p, s)
    BY <1>1, <1>3, <1>4, <1>5, <1>6 DEF Snapshot, Scan, Steps
  <1>8. /\ s.step = "parse" /\ s.mode = scan[p].mode /\ s.filter = scan[p].filter
        /\ s.gone = scan[p].gone /\ s.topo = scan[p].topo
        /\ s.batch = batch /\ s.stamps = stamps
    BY <1>1, <1>6 DEF Scan
  <1>9. Batched(scan[p]) /\ Listed(scan[p]) /\ Filed(scan[p])
    BY <1>2, CalmBusy
  <1>10. scan[p].mode # "update" /\ \A f \in batch : disk[f] # 0
    BY <1>2, <1>3, <1>9 DEF Batched, Found, OnDisk
  <1>11. Batched(s)
    BY <1>1, <1>2, <1>3, <1>4, <1>5, <1>8, <1>9, <1>10 DEF Batched, Rebuilding
  <1>12. Listed(s) /\ Filed(s)
    BY <1>2, <1>3, <1>8, <1>9 DEF Listed, Filed, Working, Writing, Written, Rebuilding, Kept
  <1>13. Uniform /\ HasRows(s) => Rooted(s.topo)
    BY <1>2, <1>8, CalmBusy DEF HasRows, Working, Rebuilding
  <1>14. StillRooted => Rerooted(s)
    <2> SUFFICES ASSUME StillRooted PROVE Rerooted(s)
      OBVIOUS
    <2>1. Rerooted(scan[p])
      BY <1>2, CalmBusy
    <2> QED BY <1>2, <1>3, <1>8, <1>10, <2>1 DEF Rerooted, Working, Writing, Rebuilding
  <1>15. \A f \in Files : s.stamps[f] <= clock
    BY <1>1, <1>4, <1>8 DEF CInv, AllGivenOut, GivenOut, TypeOK
  <1> QED BY <1>1, <1>2, <1>7, <1>8, <1>11, <1>12, <1>13, <1>14, <1>15, CalmKeep

\* A step that replaces the graph and moves on, by what it makes of each row.
LEMMA CalmGraph ==
    ASSUME CInv, TypeOK', NEW p \in Procs, NEW g \in Graph,
           NEW step \in {"resolve", "settle", "write_db"},
           scan[p].step \in {"parse", "resolve", "settle"}, lock = p, lock' = p,
           Go(p, [scan[p] EXCEPT !.step = step, !.topo = g]),
           UNCHANGED <<tree, project, turns, index>>,
           step # "write_db" => scan[p].mode = "incremental",
           step # "write_db" =>
             \A f \in Indexed(g) : f \in scan[p].batch \/ f \in scan[p].gone \/ Kept(scan[p], f),
           step = "write_db" => \A f \in Indexed(g) : Stamped(scan[p], f) \/ Kept(scan[p], f),
           Uniform => Rooted(g),
           StillRooted /\ step # "write_db" =>
             \A f \in Indexed(g) : g[f].root = project \/ f \in scan[p].gone,
           StillRooted /\ step = "write_db" /\ scan[p].mode # "update" => Rooted(g),
           StillRooted /\ scan[p].mode = "update" /\ recorded = project =>
             \A f \in Indexed(g) : \/ g[f].root = project
                                   \/ f \notin scan[p].batch /\ manifest[f] # disk[f]
    PROVE  CInv'
  <1>1. /\ scan[p] \in Scan /\ Batched(scan[p]) /\ Filed(scan[p])
        /\ StillRooted => Rerooted(scan[p])
        /\ \A f \in Files : scan[p].stamps[f] <= clock
    BY CalmBusy
  <1>2. PICK s : s = [scan[p] EXCEPT !.step = step, !.topo = g]
    OBVIOUS
  <1>3. s \in Scan /\ Go(p, s)
    BY <1>1, <1>2 DEF Scan, Steps
  <1>4. /\ s.step = step /\ s.topo = g /\ s.mode = scan[p].mode /\ s.batch = scan[p].batch
        /\ s.gone = scan[p].gone /\ s.stamps = scan[p].stamps /\ s.filter = scan[p].filter
    BY <1>1, <1>2 DEF Scan
  <1>5. Batched(s)
    BY <1>1, <1>4 DEF Batched, Rebuilding
  <1>6. Listed(s) /\ Filed(s)
    BY <1>1, <1>4 DEF Listed, Filed, Working, Writing, Written, Kept, Stamped, Rebuilding
  <1>7. StillRooted => Rerooted(s)
    <2> SUFFICES ASSUME StillRooted PROVE Rerooted(s)
      OBVIOUS
    <2>1. step # "write_db" => recorded = project
      BY <1>1 DEF Rerooted, Working, Rebuilding
    <2> QED BY <1>4, <2>1 DEF Rerooted, Working, Writing, Rebuilding
  <1> QED BY <1>1, <1>3, <1>4, <1>5, <1>6, <1>7, CalmKeep

LEMMA CalmParseChanged ==
    ASSUME CInv, NEW p \in Procs, ParseChanged(p)
    PROVE  CInv'
  <1>1. TypeOK /\ TypeOK'
    BY TypeParseChanged DEF CInv
  <1>2. PICK drop \in BOOLEAN :
           Go(p, [scan[p] EXCEPT !.step = "resolve",
                    !.topo = ParseInto(@, scan[p].batch, drop)])
    BY DEF ParseChanged
  <1>3. PICK g : g = ParseInto(scan[p].topo, scan[p].batch, drop)
    OBVIOUS
  <1>4. /\ lock = p /\ lock' = p /\ scan[p].step = "parse" /\ scan[p].mode = "incremental"
        /\ UNCHANGED <<tree, project, turns, index>>
    BY DEF ParseChanged, At
  <1>5. /\ scan[p].topo \in Graph /\ Batched(scan[p]) /\ Listed(scan[p])
        /\ Uniform /\ HasRows(scan[p]) => Rooted(scan[p].topo)
        /\ StillRooted => Rerooted(scan[p])
    BY <1>4, CalmBusy
  <1>6. g \in Graph
    BY <1>1, <1>3, <1>5, ParseIntoType
  <1>7. Working(scan[p]) /\ HasRows(scan[p])
    BY <1>4 DEF Working, HasRows, Rebuilding
  <1>8. \A f \in scan[p].batch : disk[f] # 0
    BY <1>4, <1>5 DEF Batched
  <1>9. ASSUME NEW f \in Indexed(g)
        PROVE  \/ f \in scan[p].batch /\ g[f].root = project
               \/ /\ f \in Indexed(scan[p].topo) /\ f \notin scan[p].batch
                  /\ g[f].root = scan[p].topo[f].root
    BY <1>1, <1>3, <1>5, <1>8, <1>9, ParsedRows DEF Indexed
  <1>10. \A f \in Indexed(g) : f \in scan[p].batch \/ f \in scan[p].gone \/ Kept(scan[p], f)
    BY <1>5, <1>7, <1>9 DEF Listed
  <1>11. Uniform => Rooted(g)
    BY <1>5, <1>7, <1>9 DEF Rooted
  <1>12. StillRooted => \A f \in Indexed(g) : g[f].root = project \/ f \in scan[p].gone
    BY <1>4, <1>5, <1>7, <1>9 DEF Rerooted
  <1>13. Go(p, [scan[p] EXCEPT !.step = "resolve", !.topo = g])
    BY <1>2, <1>3
  <1> QED BY <1>1, <1>4, <1>6, <1>10, <1>11, <1>12, <1>13, CalmGraph

LEMMA CalmResolveAll ==
    ASSUME CInv, NEW p \in Procs, ResolveAll(p)
    PROVE  CInv'
  <1>1. TypeOK /\ TypeOK'
    BY TypeResolveAll DEF CInv
  <1>2. PICK extra \in SUBSET (Indexed(scan[p].topo) \ scan[p].gone), drop \in BOOLEAN :
           Go(p, [scan[p] EXCEPT
                    !.step = IF scan[p].gone = {} THEN "write_db" ELSE "settle",
                    !.topo = ParseInto(@, scan[p].batch \cup extra, drop)])
    BY DEF ResolveAll
  <1>3. PICK g : g = ParseInto(scan[p].topo, scan[p].batch \cup extra, drop)
    OBVIOUS
  <1>4. PICK step \in {"resolve", "settle", "write_db"} :
           step = IF scan[p].gone = {} THEN "write_db" ELSE "settle"
    OBVIOUS
  <1>5. /\ lock = p /\ lock' = p /\ scan[p].step = "resolve"
        /\ UNCHANGED <<tree, project, turns, index>>
    BY DEF ResolveAll, At
  <1>6. /\ scan[p].topo \in Graph /\ Batched(scan[p]) /\ Listed(scan[p])
        /\ Uniform /\ HasRows(scan[p]) => Rooted(scan[p].topo)
        /\ StillRooted => Rerooted(scan[p])
    BY <1>5, CalmBusy
  <1>7. g \in Graph
    BY <1>1, <1>3, <1>6, ParseIntoType
  <1>8. Working(scan[p]) /\ HasRows(scan[p]) /\ scan[p].mode = "incremental"
    BY <1>5, <1>6 DEF Batched, Working, HasRows
  <1>9. \A f \in scan[p].batch : disk[f] # 0 /\ scan[p].stamps[f] # 0
    BY <1>5, <1>6, <1>8 DEF Batched
  <1>10. ASSUME NEW f \in Indexed(g)
         PROVE  /\ f \in scan[p].batch \/ f \in Indexed(scan[p].topo)
                /\ g[f].root = project \/
                     (f \in Indexed(scan[p].topo) /\ g[f].root = scan[p].topo[f].root)
    BY <1>1, <1>3, <1>6, <1>10, ParsedRows DEF Indexed
  <1>11. \A f \in Indexed(g) : f \in scan[p].batch \/ f \in scan[p].gone \/ Kept(scan[p], f)
    BY <1>6, <1>8, <1>10 DEF Listed
  <1>12. step = "write_db" => \A f \in Indexed(g) : Stamped(scan[p], f) \/ Kept(scan[p], f)
    BY <1>4, <1>9, <1>11 DEF Stamped
  <1>13. Uniform => Rooted(g)
    BY <1>6, <1>8, <1>10 DEF Rooted
  <1>14. StillRooted => \A f \in Indexed(g) : g[f].root = project \/ f \in scan[p].gone
    <2> SUFFICES ASSUME StillRooted, NEW f \in Indexed(g), g[f].root # project
                 PROVE  f \in scan[p].gone
      OBVIOUS
    <2>1. f \in Indexed(scan[p].topo) /\ scan[p].topo[f].root # project
      BY <1>10
    <2> QED BY <1>5, <1>6, <1>8, <2>1 DEF Rerooted
  <1>15. StillRooted /\ step = "write_db" => Rooted(g)
    BY <1>4, <1>14 DEF Rooted
  <1>16. Go(p, [scan[p] EXCEPT !.step = step, !.topo = g])
    BY <1>2, <1>3, <1>4
  <1> QED BY <1>1, <1>5, <1>7, <1>8, <1>11, <1>12, <1>13, <1>14, <1>15, <1>16, CalmGraph

LEMMA CalmRemoveDeleted ==
    ASSUME CInv, NEW p \in Procs, RemoveDeleted(p)
    PROVE  CInv'
  <1>1. TypeOK /\ TypeOK'
    BY TypeRemoveDeleted DEF CInv
  <1>2. /\ lock = p /\ lock' = p /\ scan[p].step = "settle"
        /\ UNCHANGED <<tree, project, turns, index>>
    BY DEF RemoveDeleted, At
  <1>3. PICK rest : rest = Without(scan[p].topo, scan[p].gone)
    OBVIOUS
  <1>4. PICK tied \in SUBSET OnDisk(Indexed(rest), scan[p].filter) :
          Go(p, [scan[p] EXCEPT !.step = "write_db", !.topo = ParseInto(rest, tied, FALSE)])
    BY <1>3 DEF RemoveDeleted
  <1>5. PICK g : g = ParseInto(rest, tied, FALSE)
    OBVIOUS
  <1>6. /\ scan[p].topo \in Graph /\ Batched(scan[p]) /\ Listed(scan[p])
        /\ Uniform /\ HasRows(scan[p]) => Rooted(scan[p].topo)
        /\ StillRooted => Rerooted(scan[p])
    BY <1>2, CalmBusy
  <1>7. rest \in Graph /\ g \in Graph
    BY <1>1, <1>3, <1>5, <1>6, ParseIntoType, WithoutType
  <1>8. Working(scan[p]) /\ HasRows(scan[p]) /\ scan[p].mode = "incremental"
    BY <1>2, <1>6 DEF Batched, Working, HasRows
  <1>9. \A f \in scan[p].batch : disk[f] # 0 /\ scan[p].stamps[f] # 0
    BY <1>2, <1>6, <1>8 DEF Batched
  <1>10. ASSUME NEW f \in Indexed(g)
         PROVE  /\ f \in Indexed(scan[p].topo) /\ f \notin scan[p].gone
                /\ g[f].root = project \/ g[f].root = scan[p].topo[f].root
    <2>1. f \in Files /\ f \in Indexed(ParseInto(rest, tied, FALSE))
      BY <1>5, <1>10 DEF Indexed
    <2>2. \/ f \in tied /\ disk[f] # 0 /\ ParseInto(rest, tied, FALSE)[f].root = project
          \/ /\ f \notin tied \/ disk[f] = 0
             /\ f \in Indexed(rest) /\ ParseInto(rest, tied, FALSE)[f].root = rest[f].root
      BY <1>1, <1>7, <2>1, ParsedAgain
    <2>3. f \in Indexed(rest) /\ (g[f].root = project \/ g[f].root = rest[f].root)
      BY <1>4, <1>5, <2>2 DEF OnDisk
    <2> QED BY <1>3, <1>6, <2>3, RestRows
  <1>11. \A f \in Indexed(g) : Stamped(scan[p], f) \/ Kept(scan[p], f)
    BY <1>6, <1>8, <1>9, <1>10 DEF Listed, Stamped
  <1>12. Uniform => Rooted(g)
    BY <1>6, <1>8, <1>10 DEF Rooted
  <1>13. StillRooted => Rooted(g)
    BY <1>2, <1>6, <1>8, <1>10 DEF Rerooted, Rooted
  <1>14. Go(p, [scan[p] EXCEPT !.step = "write_db", !.topo = g])
    BY <1>4, <1>5
  <1> QED BY <1>1, <1>2, <1>7, <1>8, <1>11, <1>12, <1>13, <1>14, CalmGraph

LEMMA CalmParsePartial ==
    ASSUME CInv, NEW p \in Procs, ParsePartial(p)
    PROVE  CInv'
  <1>1. TypeOK /\ TypeOK'
    BY TypeParsePartial DEF CInv
  <1>2. /\ lock = p /\ lock' = p /\ scan[p].step = "parse" /\ scan[p].mode = "partial"
        /\ UNCHANGED <<tree, project, turns, index>>
    BY DEF ParsePartial, At
  <1>3. /\ scan[p].topo \in Graph /\ Batched(scan[p]) /\ Listed(scan[p]) /\ Filed(scan[p])
        /\ Uniform /\ HasRows(scan[p]) => Rooted(scan[p].topo)
        /\ StillRooted => Rerooted(scan[p])
        /\ scan[p] \in Scan /\ \A f \in Files : scan[p].stamps[f] <= clock
    BY <1>2, CalmBusy
  <1>4. Working(scan[p]) /\ HasRows(scan[p])
    BY <1>2 DEF Working, HasRows, Rebuilding
  <1>5. scan[p].gone = {} /\ \A f \in scan[p].batch : disk[f] # 0 /\ scan[p].stamps[f] # 0
    BY <1>2, <1>3 DEF Batched
  <1>6. CASE Go(p, [scan[p] EXCEPT !.step = "write_db",
                      !.topo = ParseInto(@, scan[p].batch, FALSE)])
    <2>1. PICK g : g = ParseInto(scan[p].topo, scan[p].batch, FALSE)
      OBVIOUS
    <2>2. g \in Graph
      BY <1>1, <1>3, <2>1, ParseIntoType
    <2>3. ASSUME NEW f \in Indexed(g)
          PROVE  \/ f \in scan[p].batch /\ g[f].root = project
                 \/ /\ f \in Indexed(scan[p].topo) /\ f \notin scan[p].batch
                    /\ g[f].root = scan[p].topo[f].root
      <3>1. f \in Files /\ f \in Indexed(ParseInto(scan[p].topo, scan[p].batch, FALSE))
        BY <2>1, <2>3 DEF Indexed
      <3>2. \/ /\ f \in scan[p].batch /\ disk[f] # 0
               /\ ParseInto(scan[p].topo, scan[p].batch, FALSE)[f].root = project
            \/ /\ f \notin scan[p].batch \/ disk[f] = 0
               /\ f \in Indexed(scan[p].topo)
               /\ ParseInto(scan[p].topo, scan[p].batch, FALSE)[f].root = scan[p].topo[f].root
        BY <1>1, <1>3, <3>1, ParsedAgain
      <3> QED BY <1>5, <2>1, <3>2
    <2>4. \A f \in Indexed(g) : Stamped(scan[p], f) \/ Kept(scan[p], f)
      BY <1>3, <1>4, <1>5, <2>3 DEF Listed, Stamped
    <2>5. Uniform => Rooted(g)
      BY <1>3, <1>4, <2>3 DEF Rooted
    <2>6. StillRooted => Rooted(g)
      BY <1>2, <1>3, <1>4, <1>5, <2>3 DEF Rerooted, Rooted
    <2>7. Go(p, [scan[p] EXCEPT !.step = "write_db", !.topo = g])
      BY <1>6, <2>1
    <2> QED BY <1>1, <1>2, <2>2, <2>4, <2>5, <2>6, <2>7, CalmGraph
  <1>7. CASE Go(p, [scan[p] EXCEPT !.step = "snapshot", !.mode = "incremental"])
    <2>1. PICK s : s = [scan[p] EXCEPT !.step = "snapshot", !.mode = "incremental"]
      OBVIOUS
    <2>2. s \in Scan /\ Go(p, s)
      BY <1>3, <1>7, <2>1 DEF Scan, Steps
    <2>3. /\ s.step = "snapshot" /\ s.mode = "incremental" /\ s.topo = scan[p].topo
          /\ s.batch = scan[p].batch /\ s.gone = scan[p].gone
          /\ s.stamps = scan[p].stamps /\ s.filter = scan[p].filter
      BY <1>3, <2>1 DEF Scan
    <2>4. Batched(s) /\ Listed(s) /\ Filed(s)
      BY <1>2, <1>3, <1>4, <1>5, <2>3
         DEF Batched, Listed, Filed, Working, Writing, Written, Rebuilding, Kept
    <2>5. Uniform => Rooted(s.topo)
      BY <1>3, <1>4, <2>3
    <2>6. StillRooted => Rerooted(s)
      BY <1>2, <1>3, <1>4, <2>3 DEF Rerooted, Working, Writing
    <2> QED BY <1>1, <1>2, <1>3, <2>2, <2>3, <2>4, <2>5, <2>6, CalmKeep
  <1> QED BY <1>6, <1>7 DEF ParsePartial

LEMMA CalmParseUpdated ==
    ASSUME CInv, NEW p \in Procs, ParseUpdated(p)
    PROVE  CInv'
  <1>1. TypeOK /\ TypeOK'
    BY TypeParseUpdated DEF CInv
  <1>2. /\ lock = p /\ lock' = p /\ scan[p].step = "parse" /\ scan[p].mode = "update"
        /\ UNCHANGED <<tree, project, turns, index>>
    BY DEF ParseUpdated, At
  <1>3. /\ scan[p].topo \in Graph /\ Batched(scan[p]) /\ Listed(scan[p])
        /\ Uniform /\ HasRows(scan[p]) => Rooted(scan[p].topo)
        /\ StillRooted => Rerooted(scan[p])
    BY <1>2, CalmBusy
  <1>4. Working(scan[p]) /\ HasRows(scan[p])
    BY <1>2 DEF Working, HasRows, Rebuilding
  <1>5. PICK f \in Files : scan[p].batch = {f}
    BY <1>2, <1>3 DEF Batched
  <1>6. f = CHOOSE g \in Files : scan[p].batch = {g}
    BY <1>5
  <1>7. scan[p].gone = {} /\ (disk[f] # 0 => scan[p].stamps[f] # 0)
    BY <1>2, <1>3, <1>5 DEF Batched
  <1>8. StillRooted /\ recorded = project =>
          \A h \in Indexed(scan[p].topo) :
            scan[p].topo[h].root = project \/ h = f \/ manifest[h] # disk[h]
    BY <1>2, <1>3, <1>5 DEF Rerooted
  <1>9. \A h \in Indexed(scan[p].topo) : h = f \/ Kept(scan[p], h)
    BY <1>3, <1>4, <1>5, <1>7 DEF Listed
  <1>10. CASE f \in hidden \/ disk[f] = 0
    <2>1. PICK rest : rest = Without(scan[p].topo, {f})
      OBVIOUS
    <2>2. PICK tied \in SUBSET OnDisk(Indexed(rest), hidden) :
            Go(p, [scan[p] EXCEPT !.step = "write_db", !.topo = ParseInto(rest, tied, FALSE)])
      BY <1>6, <1>10, <2>1 DEF ParseUpdated
    <2>3. PICK g : g = ParseInto(rest, tied, FALSE)
      OBVIOUS
    <2>4. rest \in Graph /\ g \in Graph
      BY <1>1, <1>3, <2>1, <2>3, ParseIntoType, WithoutType
    <2>5. ASSUME NEW h \in Indexed(g)
          PROVE  /\ h \in Indexed(scan[p].topo) /\ h # f
                 /\ g[h].root = project \/ g[h].root = scan[p].topo[h].root
      <3>1. h \in Files /\ h \in Indexed(ParseInto(rest, tied, FALSE))
        BY <2>3, <2>5 DEF Indexed
      <3>2. \/ h \in tied /\ disk[h] # 0 /\ ParseInto(rest, tied, FALSE)[h].root = project
            \/ /\ h \notin tied \/ disk[h] = 0
               /\ h \in Indexed(rest) /\ ParseInto(rest, tied, FALSE)[h].root = rest[h].root
        BY <1>1, <2>4, <3>1, ParsedAgain
      <3>3. h \in Indexed(rest) /\ (g[h].root = project \/ g[h].root = rest[h].root)
        BY <2>2, <2>3, <3>2 DEF OnDisk
      <3> QED BY <1>3, <2>1, <3>3, RestRows
    <2>6. \A h \in Indexed(g) : Stamped(scan[p], h) \/ Kept(scan[p], h)
      BY <1>9, <2>5
    <2>7. Uniform => Rooted(g)
      BY <1>3, <1>4, <2>5 DEF Rooted
    <2>8. StillRooted /\ recorded = project =>
            \A h \in Indexed(g) : \/ g[h].root = project
                                  \/ h \notin scan[p].batch /\ manifest[h] # disk[h]
      BY <1>5, <1>8, <2>5
    <2>9. Go(p, [scan[p] EXCEPT !.step = "write_db", !.topo = g])
      BY <2>2, <2>3
    <2> QED BY <1>1, <1>2, <2>4, <2>6, <2>7, <2>8, <2>9, CalmGraph
  <1>11. CASE ~ (f \in hidden \/ disk[f] = 0)
    <2>1. PICK g : g = ParseInto(scan[p].topo, {f}, FALSE)
      OBVIOUS
    <2>2. g \in Graph
      BY <1>1, <1>3, <2>1, ParseIntoType
    <2>3. ASSUME NEW h \in Indexed(g)
          PROVE  \/ h = f /\ g[h].root = project
                 \/ h # f /\ h \in Indexed(scan[p].topo) /\ g[h].root = scan[p].topo[h].root
      <3>1. h \in Files /\ h \in Indexed(ParseInto(scan[p].topo, {f}, FALSE))
        BY <2>1, <2>3 DEF Indexed
      <3>2. \/ /\ h \in {f} /\ disk[h] # 0
               /\ ParseInto(scan[p].topo, {f}, FALSE)[h].root = project
            \/ /\ h \notin {f} \/ disk[h] = 0
               /\ h \in Indexed(scan[p].topo)
               /\ ParseInto(scan[p].topo, {f}, FALSE)[h].root = scan[p].topo[h].root
        BY <1>1, <1>3, <3>1, ParsedAgain
      <3> QED BY <1>11, <2>1, <3>2
    <2>4. \A h \in Indexed(g) : Stamped(scan[p], h) \/ Kept(scan[p], h)
      BY <1>7, <1>9, <1>11, <2>3 DEF Stamped
    <2>5. Uniform => Rooted(g)
      BY <1>3, <1>4, <2>3 DEF Rooted
    <2>6. StillRooted /\ recorded = project =>
            \A h \in Indexed(g) : \/ g[h].root = project
                                  \/ h \notin scan[p].batch /\ manifest[h] # disk[h]
      BY <1>5, <1>8, <2>3
    <2>7. Go(p, [scan[p] EXCEPT !.step = "write_db", !.topo = g])
      BY <1>6, <1>11, <2>1 DEF ParseUpdated
    <2> QED BY <1>1, <1>2, <2>2, <2>4, <2>5, <2>6, <2>7, CalmGraph
  <1> QED BY <1>10, <1>11

\* A rescan that finds no file at all leaves the index, and records the project
\* manifest: all there is in the index is gone from disk.
LEMMA CalmAbort ==
    ASSUME CInv, TypeOK', NEW p \in Procs, lock = p, Abort(p), scan[p].step = "parse",
           Found(scan[p].filter) = {}
    PROVE  CInv'
  <1>1. /\ UNCHANGED <<tree, project, turns>> /\ db' = db /\ manifest' = manifest
        /\ stored' = stored /\ disk' = disk /\ project' = project /\ Rest(p)
        /\ recorded' = IF scan[p].mode = "reroot" THEN project ELSE recorded
    BY DEF Abort, tree
  <1>2. /\ Known /\ (stored = {} \/ BothFiles) /\ Filed(scan[p])
        /\ Uniform => Rooted(db)
        /\ StillRooted => Agreed
        /\ \A f \in Files : manifest[f] <= clock
    BY CalmBusy
  <1>3. Known'
    BY <1>1, <1>2 DEF Known, Indexed
  <1>4. (stored = {} \/ BothFiles)'
    BY <1>1, <1>2, ScanSyncAssumption DEF BothFiles, CInv, TypeOK
  <1>5. Uniform => Rooted(db)'
    BY <1>1, <1>2 DEF Rooted, Indexed
  <1>6. StillRooted => Agreed'
    <2> SUFFICES ASSUME StillRooted PROVE Agreed'
      OBVIOUS
    <2>1. \A f \in Files : disk[f] = 0
      BY DEF StillRooted, Still, Found, OnDisk
    <2>2. \A f \in Indexed(db) : manifest[f] # disk[f]
      BY <1>2, <2>1 DEF Known, Indexed
    <2> QED BY <1>1, <2>2 DEF Agreed, Indexed
  <1> QED BY <1>1, <1>2, <1>3, <1>4, <1>5, <1>6, CalmRest

LEMMA CalmScanAllLanguages ==
    ASSUME Calm, CInv, NEW p \in Procs, ScanAllLanguages(p)
    PROVE  CInv'
  <1>1. TypeOK /\ TypeOK'
    BY TypeScanAllLanguages DEF CInv
  <1>2. /\ lock = p /\ scan[p].step = "parse" /\ scan[p].mode \in {"full", "reroot"}
    BY DEF ScanAllLanguages, At
  <1>3. PICK found : found = Found(scan[p].filter)
    OBVIOUS
  <1>4. PICK failed \in SUBSET {Lang[f] : f \in found} :
          /\ failed = {} \/ Fault("bad_scanner")
          /\ IF failed = {Lang[f] : f \in found}
             THEN Abort(p)
             ELSE /\ Go(p, [scan[p] EXCEPT !.step = "write_db",
                              !.topo = [f \in Files |->
                                 IF f \notin found THEN NoRow
                                 ELSE IF Lang[f] \in failed THEN Failed
                                 ELSE Parsed(f)]])
                  /\ UNCHANGED <<tree, project, turns, index, lock>>
    BY <1>3 DEF ScanAllLanguages
  <1>5. failed = {}
    BY <1>4, CalmQuiet
  <1>6. CASE found = {}
    BY <1>1, <1>2, <1>3, <1>4, <1>5, <1>6, CalmAbort
  <1>7. CASE found # {}
    <2>1. PICK g : g = [f \in Files |-> IF f \notin found THEN NoRow ELSE Parsed(f)]
      OBVIOUS
    <2>2. /\ Go(p, [scan[p] EXCEPT !.step = "write_db", !.topo = g])
          /\ UNCHANGED <<tree, project, turns, index, lock>>
      BY <1>4, <1>5, <1>7, <2>1
    <2>3. g \in Graph
      BY <1>1, <2>1, Shapes, ParsedType DEF Graph
    <2>4. Batched(scan[p])
      BY <1>2, CalmBusy
    <2>5. \A f \in found : scan[p].stamps[f] # 0 /\ disk[f] # 0
      BY <1>2, <1>3, <2>4 DEF Batched, Rebuilding
    <2>6. \A f \in Indexed(g) : f \in found /\ g[f].root = project
      BY <2>1 DEF Indexed, NoRow, Parsed
    <2>7. Rooted(g) /\ \A f \in Indexed(g) : Stamped(scan[p], f)
      BY <2>5, <2>6 DEF Rooted, Stamped
    <2> QED BY <1>1, <1>2, <2>2, <2>3, <2>7, CalmGraph
  <1> QED BY <1>6, <1>7

LEMMA CalmWriteDb ==
    ASSUME CInv, NEW p \in Procs, WriteDb(p)
    PROVE  CInv'
  <1>1. TypeOK' /\ scan[p] \in Scan
    BY TypeWriteDb DEF CInv, TypeOK
  <1>2. /\ lock = p /\ lock' = p /\ scan[p].step = "write_db" /\ UNCHANGED <<tree, project, turns>>
        /\ disk' = disk /\ sealed' = sealed /\ manifest' = manifest /\ recorded' = recorded
        /\ db' = scan[p].topo /\ stored' = stored \cup {"db"} /\ project' = project
    BY DEF WriteDb, At, tree
  <1>3. PICK s : s = [scan[p] EXCEPT !.step = "write_manifest"]
    OBVIOUS
  <1>4. s \in Scan /\ Go(p, s)
    BY <1>1, <1>3 DEF WriteDb, Scan, Steps
  <1>5. /\ s.step = "write_manifest" /\ s.mode = scan[p].mode /\ s.topo = scan[p].topo
        /\ s.batch = scan[p].batch /\ s.gone = scan[p].gone
        /\ s.stamps = scan[p].stamps /\ s.filter = scan[p].filter
    BY <1>1, <1>3 DEF Scan
  <1>6. /\ Batched(scan[p]) /\ Listed(scan[p]) /\ Filed(scan[p])
        /\ Uniform /\ HasRows(scan[p]) => Rooted(scan[p].topo)
        /\ StillRooted => Rerooted(scan[p])
        /\ \A f \in Files : scan[p].stamps[f] <= clock /\ manifest[f] <= clock
    BY <1>2, CalmBusy
  <1>7. Batched(s)'
    BY <1>2, <1>5, <1>6 DEF Batched, Rebuilding
  <1>8. Listed(s)' /\ Filed(s)'
    BY <1>2, <1>5, <1>6 DEF Listed, Filed, Working, Writing, Written, Rebuilding, Stamped, Kept,
       Indexed, BothFiles
  <1>9. Uniform => Rooted(db)'
    BY <1>2, <1>6 DEF HasRows, Rooted, Indexed
  <1>10. ~ HasRows(s)
    BY <1>5 DEF HasRows, Working
  <1>11. StillRooted => Agreed' /\ Rerooted(s)'
    <2> SUFFICES ASSUME StillRooted PROVE Agreed' /\ Rerooted(s)'
      OBVIOUS
    <2>1. Rerooted(scan[p])
      BY <1>6
    <2>2. scan[p].mode # "update" => Rooted(scan[p].topo)
      BY <1>2, <2>1 DEF Rerooted, Writing
    <2>3. scan[p].mode = "update" /\ recorded = project =>
            \A f \in Indexed(scan[p].topo) : \/ scan[p].topo[f].root = project
                                             \/ f \notin scan[p].batch /\ manifest[f] # disk[f]
      BY <1>2, <2>1 DEF Rerooted
    <2>4. Agreed'
      BY <1>2, <2>2, <2>3 DEF Agreed, Rooted, Indexed
    <2>5. Rerooted(s)'
      BY <1>2, <1>5, <2>2, <2>3 DEF Rerooted, Working, Writing, Rooted, Indexed
    <2> QED BY <2>4, <2>5
  <1> QED BY <1>1, <1>2, <1>4, <1>5, <1>6, <1>7, <1>8, <1>9, <1>10, <1>11, CalmStep

\* The new manifest knows each file in the graph.
LEMMA NewManifestKnows ==
    ASSUME CInv, NEW p \in Procs, lock = p, scan[p].step = "write_manifest",
           NEW f \in Indexed(scan[p].topo)
    PROVE  NewManifest(scan[p])[f] # 0
  <1>1. f \in Files
    BY DEF Indexed
  <1>2. Batched(scan[p]) /\ Listed(scan[p])
    BY CalmBusy
  <1>3. Stamped(scan[p], f) \/ Kept(scan[p], f)
    BY <1>2 DEF Listed, Writing
  <1>4. StampManifest(scan[p])[f] # 0
    BY <1>1, <1>3 DEF StampManifest, Stamped, Kept
  <1>5. SyncManifest(scan[p])[f] # 0
    BY <1>1, <1>3 DEF SyncManifest, Stamped, Kept
  <1>6. scan[p].mode = "update" => StampOrForget(scan[p])[f] # 0
    BY <1>1, <1>2, <1>3, <1>4 DEF StampOrForget, Batched, Stamped, Kept
  <1> QED BY <1>4, <1>5, <1>6 DEF NewManifest

LEMMA CalmWriteManifest ==
    ASSUME Calm, CInv, NEW p \in Procs, WriteManifest(p)
    PROVE  CInv'
  <1>1. TypeOK' /\ scan[p] \in Scan
    BY TypeWriteManifest DEF CInv, TypeOK
  <1>2. /\ lock = p /\ scan[p].step = "write_manifest" /\ UNCHANGED <<tree, project, turns>>
        /\ disk' = disk /\ sealed' = sealed /\ db' = db /\ recorded' = recorded
        /\ project' = project
    BY DEF WriteManifest, At, tree
  <1>3. manifest' = NewManifest(scan[p]) /\ stored' = stored \cup {"manifest"}
    BY CalmQuiet DEF WriteManifest
  <1>4. /\ Batched(scan[p]) /\ Listed(scan[p]) /\ Filed(scan[p])
        /\ Uniform => Rooted(db)
        /\ StillRooted => Agreed /\ Rerooted(scan[p])
        /\ \A f \in Files : scan[p].stamps[f] <= clock /\ manifest[f] <= clock
    BY <1>2, CalmBusy
  <1>5. db = scan[p].topo /\ "db" \in stored
    BY <1>2, <1>4 DEF Listed, Written, Filed
  <1>6. Known'
    BY <1>2, <1>3, <1>5, NewManifestKnows DEF Known, Indexed
  <1>7. \A f \in Files : manifest'[f] <= clock
    <2>1. \A f \in Files : manifest'[f] \in {scan[p].stamps[f], manifest[f], 0}
      BY <1>3, NewManifestCases
    <2>2. clock \in Nat
      BY DEF CInv, TypeOK
    <2> QED BY <1>4, <2>1, <2>2
  <1>8. stored' = {"db", "manifest"}
    BY <1>3, <1>5 DEF CInv, TypeOK
  <1>9. StillRooted => Agreed' /\ (scan[p].mode # "update" => Rooted(db)')
    <2> SUFFICES ASSUME StillRooted PROVE Agreed' /\ (scan[p].mode # "update" => Rooted(db)')
      OBVIOUS
    <2>1. Rerooted(scan[p])
      BY <1>4
    <2>2. CASE scan[p].mode # "update"
      <3>1. Rooted(db)
        BY <1>2, <1>5, <2>1, <2>2 DEF Rerooted, Writing
      <3> QED BY <1>2, <3>1 DEF Agreed, Rooted, Indexed
    <2>3. CASE scan[p].mode = "update"
      <3>1. \A f \in Files : f \notin scan[p].batch => manifest'[f] = manifest[f]
        BY <1>3, <1>4, <2>3 DEF NewManifest, StampOrForget, StampManifest, Batched
      <3>2. recorded = project =>
              \A f \in Indexed(db) : \/ db[f].root = project
                                     \/ f \notin scan[p].batch /\ manifest[f] # disk[f]
        BY <1>2, <1>5, <2>1, <2>3 DEF Rerooted
      <3>3. Agreed'
        BY <1>2, <3>1, <3>2 DEF Agreed, Indexed
      <3> QED BY <2>3, <3>3
    <2> QED BY <2>2, <2>3
  <1>10. Uniform => Rooted(db)'
    BY <1>2, <1>4 DEF Rooted, Indexed
  <1>11. CASE scan[p].mode \notin {"full", "reroot"}
    <2>1. BothFiles
      BY <1>1, <1>2, <1>4, <1>11 DEF Filed, Batched, Scan
    <2>2. (stored = {} \/ BothFiles)'
      BY <1>2, <1>8, <2>1 DEF BothFiles
    <2>3. Rest(p)
      BY <1>11 DEF WriteManifest
    <2> QED BY <1>1, <1>2, <1>6, <1>7, <1>9, <1>10, <2>2, <2>3, CalmRest
  <1>12. CASE scan[p].mode \in {"full", "reroot"}
    <2>1. PICK s : s = [scan[p] EXCEPT !.step = "record"]
      OBVIOUS
    <2>2. s \in Scan /\ Go(p, s) /\ lock' = p
      BY <1>1, <1>2, <1>12, <2>1 DEF WriteManifest, Scan, Steps
    <2>3. /\ s.step = "record" /\ s.mode = scan[p].mode /\ s.batch = scan[p].batch
          /\ s.gone = scan[p].gone /\ s.stamps = scan[p].stamps /\ s.filter = scan[p].filter
      BY <1>1, <2>1 DEF Scan
    <2>4. Batched(s)'
      BY <1>2, <1>4, <1>12, <2>3 DEF Batched, Rebuilding
    <2>5. Listed(s)'
      BY <1>12, <2>3 DEF Listed, Working, Writing, Written, Rebuilding
    <2>6. Filed(s)'
      BY <1>2, <1>4, <1>8, <1>12, <2>3 DEF Filed, BothFiles
    <2>7. ~ HasRows(s)
      BY <1>12, <2>3 DEF HasRows, Working
    <2>8. StillRooted => Agreed' /\ Rerooted(s)'
      BY <1>9, <1>12, <2>3 DEF Rerooted, Working, Writing
    <2> QED BY <1>1, <1>2, <1>4, <1>6, <1>7, <1>10, <2>2, <2>3, <2>4, <2>5, <2>6, <2>7, <2>8, CalmStep
  <1> QED BY <1>11, <1>12

LEMMA CalmRecordProject ==
    ASSUME CInv, NEW p \in Procs, RecordProject(p)
    PROVE  CInv'
  <1>1. TypeOK'
    BY TypeEnd DEF CInv
  <1>2. /\ lock = p /\ scan[p].step = "record" /\ UNCHANGED <<tree, project, turns>> /\ Rest(p)
        /\ db' = db /\ manifest' = manifest /\ stored' = stored /\ recorded' = project
        /\ project' = project
    BY DEF RecordProject, At
  <1>3. /\ Known /\ Filed(scan[p])
        /\ Uniform => Rooted(db)
        /\ StillRooted => Rerooted(scan[p])
        /\ \A f \in Files : manifest[f] <= clock
    BY <1>2, CalmBusy
  <1>4. Known'
    BY <1>2, <1>3 DEF Known, Indexed
  <1>5. BothFiles'
    BY <1>2, <1>3, ScanSyncAssumption DEF Filed, BothFiles, CInv, TypeOK
  <1>6. Uniform => Rooted(db)'
    BY <1>2, <1>3 DEF Rooted, Indexed
  <1>7. StillRooted => Agreed'
    BY <1>2, <1>3 DEF Rerooted, Agreed, Rooted, Indexed
  <1> QED BY <1>1, <1>2, <1>3, <1>4, <1>5, <1>6, <1>7, CalmRest

LEMMA CalmNext == Calm /\ CInv /\ [Next]_vars => CInv'
  <1> SUFFICES ASSUME Calm, CInv, [Next]_vars PROVE CInv'
    OBVIOUS
  <1>1. CASE World
    BY <1>1, CalmWorld
  <1>2. CASE \E p \in Procs : \/ \E mode \in Entries : Begin(p, mode)
                              \/ \E f \in Files : UpdateFile(p, f)
                              \/ Work(p)
    BY <1>2, CalmBegin, CalmUpdateFile, CalmDiffScan, CalmSnapshot, CalmParseChanged,
       CalmResolveAll, CalmRemoveDeleted, CalmParsePartial, CalmParseUpdated,
       CalmScanAllLanguages, CalmWriteDb, CalmWriteManifest, CalmRecordProject DEF Work
  <1>3. CASE \E p \in Procs : WriteDbFails(p) \/ Kill(p)
    BY <1>3, CalmQuiet DEF WriteDbFails, Kill
  <1>4. CASE UNCHANGED vars
    <2>1. CInv' = CInv
      BY <1>4 DEF vars, tree, index, CInv, TypeOK, Alone, AllGivenOut, GivenOut, Views, Veil,
         Ledger, Batched, Listed, Filed, Known, BothFiles, Working, Writing, Written, Rebuilding,
         Stamped, Kept, Found, OnDisk, Uniform, Rooted, HasRows, StillRooted, Still, Agreed, Rerooted,
         Indexed
    <2> QED BY <2>1
  <1> QED BY <1>1, <1>2, <1>3, <1>4 DEF Next

\* With nobody scanning, what is neither on disk nor in the manifest is not
\* indexed, and what the manifest calls current is rooted under the project.
LEMMA CalmOverlooksNothing == CInv => NothingOverlooked
  <1> SUFFICES ASSUME CInv PROVE NothingOverlooked
    OBVIOUS
  <1>1. NoGhost
    BY CalmIdle DEF NoGhost, Known, Indexed
  <1>2. RootVouched
    BY DEF RootVouched, CInv, Uniform, Rooted, StillRooted, Agreed
  <1> QED BY <1>1, <1>2 DEF NothingOverlooked

\* In calm weather no scan and no single-file update leaves behind a node of a
\* file that no diff will ever report, or an id under a root that no diff will
\* ever correct (DiffScanFiles, SyncManifest, projectManifestsChanged).
THEOREM NothingIsOverlooked == Calm => (Spec => []NothingOverlooked)
  <1> SUFFICES ASSUME Calm PROVE Spec => []NothingOverlooked
    OBVIOUS
  <1>1. CInv /\ [Next]_vars => CInv'
    BY CalmNext
  <1> QED BY CalmInit, <1>1, CalmOverlooksNothing, PTL DEF Spec
=============================================================================
