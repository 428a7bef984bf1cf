------------------------------ MODULE ScanSync ------------------------------
(***************************************************************************)
(* How aracne keeps its index -- the topology database, the file manifest  *)
(* and the record of project manifests (go.mod, Cargo.toml, ...) -- in     *)
(* step with a source tree that people and agents edit while scans run.    *)
(*                                                                         *)
(* Several PROCESSES run scans: the guard's pre-tool hook, `arac scan`,    *)
(* the watcher, `arac update-file`.  A scan is a sequence of steps under   *)
(* the topology lock (helper.WithTopologyLock): diff the tree against the  *)
(* manifest, snapshot the mtimes of what it will read, parse, write the    *)
(* database in one transaction, write the manifest.  Nothing stops an      *)
(* editor from changing the tree between two of these steps, and a process *)
(* can be killed between any two of them.                                  *)
(*                                                                         *)
(* A file's content is abstracted to its mtime: each edit takes a fresh    *)
(* one.  What the parser produced from a file is abstracted to the mtime   *)
(* of the content it read.  0 is "no such file", "not in the manifest" and *)
(* "not in the database".                                                  *)
(***************************************************************************)
EXTENDS Naturals, FiniteSets

CONSTANTS
    Files,      \* the source files of the project
    Procs,      \* the processes that scan
    NoProc,     \* nobody: the topology lock is free
    Languages,  \* the languages a scanner is registered for
    Lang,       \* [Files -> Languages]
    Projects,   \* what the project manifests can say; every id is rooted under it
    NoProject,  \* nothing recorded yet in project_manifests.json
    Hideable,   \* the files `paths`/`scan.ignore` rules may come to hide
    Sealable,   \* the files whose directory may become unreadable to a walk
    Modes,      \* the entry points in use, a subset of Entries
    MaxTime,    \* bound: number of edits to source files
    MaxTurns,   \* bound: number of edits to the project manifest and the config,
                \* and of restored copies
    MaxFaults,  \* bound: number of kills, failed writes and failed scanners
    Weather     \* what may happen beside a scan, a subset of Events

Entries == {"incremental", "full", "update"}

\* save, churn: files change, appear and disappear while a scan runs.
\* turn: the project manifest changes while a scan runs.
\* turn_back: the project manifest goes back to content it had before.
\* kept_mtime: an older copy is put back with its own mtime (cp -p, rsync -a).
\* kill, bad_write, bad_scanner: a process is killed, a write to the database
\* or the manifest fails, a language's scanner fails; at most MaxFaults times.
Events == {"save", "churn", "turn", "turn_back", "kept_mtime",
           "kill", "bad_write", "bad_scanner"}

ASSUME ScanSyncAssumption ==
    /\ NoProc \notin Procs
    /\ Lang \in [Files -> Languages]
    /\ Projects # {}
    /\ NoProject \notin Projects
    /\ Hideable \subseteq Files
    /\ Sealable \subseteq Files
    /\ Modes \subseteq Entries
    /\ MaxTime \in Nat
    /\ MaxTurns \in Nat
    /\ MaxFaults \in Nat
    /\ Weather \subseteq Events

VARIABLES
    clock,      \* the newest mtime given out
    disk,       \* [Files -> Nat]: mtime of each file on disk
    past,       \* [Files -> SUBSET Nat]: contents of which an older copy is kept
    hidden,     \* the files the config on disk hides
    sealed,     \* the files in directories a walk cannot list
    project,    \* what the project manifest on disk says
    turns,      \* edits made to it and to the config, and copies restored
    db,         \* [Files -> Row]: what the database holds of each file
    manifest,   \* [Files -> Nat]: file_manifest.json
    recorded,   \* project_manifests.json
    stored,     \* which of the files {"db", "manifest"} exist
    lock,       \* the process in WithTopologyLock, or NoProc
    scan,       \* [Procs -> Scan]: the local state of each process
    faults      \* faults so far

index == <<db, manifest, recorded, stored>>
tree == <<clock, disk, past, hidden, sealed>>
vars == <<tree, project, turns, index, lock, scan, faults>>

-----------------------------------------------------------------------------
\* A database row set of one file: the content it was parsed from (0: no
\* node), the project manifest its ids are rooted under, and whether the error
\* log names the file.
Row == [src: Nat, root: Projects \cup {NoProject}, err: BOOLEAN]
NoRow == [src |-> 0, root |-> NoProject, err |-> FALSE]
Failed == [NoRow EXCEPT !.err = TRUE]
Parsed(f) == [src |-> disk[f], root |-> project, err |-> FALSE]

Graph == [Files -> Row]
EmptyGraph == [f \in Files |-> NoRow]
NoStamps == [f \in Files |-> 0]

Steps == {"idle", "diff", "snapshot", "parse", "resolve", "settle",
          "write_db", "write_manifest", "record"}

\* mode: which code path the scan is on ("reroot": a full rescan forced by a
\* changed project manifest; "partial": the single-file fast path).
Scan == [step: Steps,
         mode: {"none", "incremental", "partial", "full", "reroot", "update"},
         filter: SUBSET Files,     \* the visibility filter it installed
         batch: SUBSET Files,      \* the files it will parse
         gone: SUBSET Files,       \* the files it will remove
         stamps: [Files -> Nat],   \* SnapshotManifest's result
         topo: Graph]              \* the graph in memory

Resting == [step |-> "idle", mode |-> "none", filter |-> {}, batch |-> {},
            gone |-> {}, stamps |-> NoStamps, topo |-> EmptyGraph]

TypeOK ==
    /\ clock \in Nat
    /\ disk \in [Files -> Nat]
    /\ past \in [Files -> SUBSET Nat]
    /\ hidden \subseteq Files
    /\ sealed \subseteq Files
    /\ project \in Projects
    /\ turns \in Nat
    /\ db \in Graph
    /\ manifest \in [Files -> Nat]
    /\ recorded \in Projects \cup {NoProject}
    /\ stored \subseteq {"db", "manifest"}
    /\ lock \in Procs \cup {NoProc}
    /\ scan \in [Procs -> Scan]
    /\ faults \in Nat

Init ==
    /\ clock = 0
    /\ disk = NoStamps
    /\ past = [f \in Files |-> {}]
    /\ hidden = {}
    /\ sealed = {}
    /\ project \in Projects
    /\ turns = 0
    /\ db = EmptyGraph
    /\ manifest = NoStamps
    /\ recorded = NoProject
    /\ stored = {}
    /\ lock = NoProc
    /\ scan = [p \in Procs |-> Resting]
    /\ faults = 0

-----------------------------------------------------------------------------
(* The world: editors, checkouts, restores, config and project edits.      *)

Quiet(event) == lock = NoProc \/ event \in Weather
Fault(event) == event \in Weather /\ faults < MaxFaults /\ faults' = faults + 1

\* A save: new bytes under a new mtime.
EditFile(f) ==
    /\ clock < MaxTime
    /\ Quiet(IF disk[f] = 0 THEN "churn" ELSE "save")
    /\ clock' = clock + 1
    /\ disk' = [disk EXCEPT ![f] = clock + 1]
    /\ past' = IF "kept_mtime" \in Weather /\ disk[f] # 0
               THEN [past EXCEPT ![f] = @ \cup {disk[f]}] ELSE past
    /\ UNCHANGED <<hidden, sealed, project, turns, index, lock, scan, faults>>

RemoveFile(f) ==
    /\ disk[f] # 0
    /\ Quiet("churn")
    /\ disk' = [disk EXCEPT ![f] = 0]
    /\ UNCHANGED <<clock, past, hidden, sealed, project, turns, index, lock, scan, faults>>

\* An older copy put back with the mtime it had.
RestoreFile(f) ==
    /\ "kept_mtime" \in Weather
    /\ Quiet("save")
    /\ turns < MaxTurns
    /\ turns' = turns + 1
    /\ \E t \in past[f] \ {disk[f]} : disk' = [disk EXCEPT ![f] = t]
    /\ UNCHANGED <<clock, past, hidden, sealed, project, index, lock, scan, faults>>

\* `paths` or `scan.ignore` in the config starts or stops covering a file.
ChangeVisibility(f) ==
    /\ f \in Hideable
    /\ turns < MaxTurns
    /\ turns' = turns + 1
    /\ hidden' = IF f \in hidden THEN hidden \ {f} ELSE hidden \cup {f}
    /\ UNCHANGED <<clock, disk, past, sealed, project, index, lock, scan, faults>>

\* A directory's read permission goes or comes back: its files can still be
\* opened by name, but no walk lists them.
ChangeAccess(f) ==
    /\ f \in Sealable
    /\ turns < MaxTurns
    /\ Quiet("churn")
    /\ turns' = turns + 1
    /\ sealed' = IF f \in sealed THEN sealed \ {f} ELSE sealed \cup {f}
    /\ UNCHANGED <<clock, disk, past, hidden, project, index, lock, scan, faults>>

\* The module or package name changes.  Without "turn_back" it never returns
\* to what the record already holds.
EditProject ==
    /\ turns < MaxTurns
    /\ Quiet("turn")
    /\ \E c \in Projects \ {project} :
          /\ "turn_back" \notin Weather => c # recorded
          /\ project' = c
    /\ turns' = turns + 1
    /\ UNCHANGED <<tree, index, lock, scan, faults>>

-----------------------------------------------------------------------------
(* Helpers of a scan.                                                      *)

At(p, step) == lock = p /\ scan[p].step = step
Go(p, s) == scan' = [scan EXCEPT ![p] = s]
Rest(p) == Go(p, Resting) /\ lock' = NoProc
Indexed(g) == {f \in Files : g[f].src # 0}

OnDisk(S, filter) == {f \in S \ filter : disk[f] # 0}

\* What a walk under this scan's filter finds (collectSourceFiles).
Found(filter) == OnDisk(Files \ sealed, filter)

\* updateFileWithScanner over a set of files.  A file that cannot be read any
\* more leaves an error; the scanners differ in whether its nodes stay.
ParseInto(g, S, drop) ==
    [f \in Files |->
        IF f \notin S THEN g[f]
        ELSE IF disk[f] # 0 THEN Parsed(f)
        ELSE IF drop THEN Failed ELSE [g[f] EXCEPT !.err = TRUE]]

Without(g, S) == [f \in Files |-> IF f \in S THEN NoRow ELSE g[f]]

\* An error return.  The caller of a forced rescan then records the project
\* manifest, whatever the error was.
Abort(p) ==
    /\ Rest(p)
    /\ recorded' = IF scan[p].mode = "reroot" THEN project ELSE recorded
    /\ UNCHANGED <<tree, project, turns, db, manifest, stored>>

-----------------------------------------------------------------------------
(* Steps of a scan.                                                        *)

\* WithTopologyLock, then the filter the config asks for (applyPathVisibility).
\* FullScan and FullReScan start at their snapshot, UpdateFile at its read of
\* the database.
Begin(p, mode) ==
    /\ lock = NoProc
    /\ mode \in Modes \cap {"incremental", "full"}
    /\ lock' = p
    /\ Go(p, [Resting EXCEPT !.mode = mode, !.filter = hidden,
                !.step = IF mode = "full" THEN "snapshot" ELSE "diff"])
    /\ UNCHANGED <<tree, project, turns, index, faults>>

\* updateFileLocked reads the graph and stats the file before anything else.
UpdateFile(p, f) ==
    /\ lock = NoProc
    /\ "update" \in Modes
    /\ "db" \in stored
    /\ lock' = p
    /\ Go(p, [Resting EXCEPT !.mode = "update", !.step = "parse", !.batch = {f},
                !.topo = db, !.stamps[f] = disk[f]])
    /\ UNCHANGED <<tree, project, turns, index, faults>>

\* (Operators named for a slip -- ChangedIfNew, SyncManifestLate, ... -- are
\* the variants of the next one that the checked properties must reject.)
\* DiffScanFiles, run per language: what is on disk against the manifest.  A
\* file out of the walk's reach is neither changed nor deleted; one the config
\* now hides is deleted.  A language whose walk finds nothing while files the
\* manifest knows are still there is refused, deletions and all.
Refused(filter) ==
    {f \in Files :
        LET kin == {g \in Files : Lang[g] = Lang[f]}
        IN /\ kin \cap Found(filter) = {}
           /\ \E g \in kin \ filter : manifest[g] # 0 /\ disk[g] # 0}

ChangedIfNew(filter) == {f \in Found(filter) : manifest[f] = 0}
ChangedIfNewer(filter) == {f \in Found(filter) : manifest[f] < disk[f]}
DeletedFromDisk(filter) ==
    {f \in Files : manifest[f] # 0 /\ f \notin filter \cup sealed /\ disk[f] = 0}

Changed(filter) == {f \in Found(filter) : manifest[f] # disk[f]}
Deleted(filter) ==
    {f \in Files \ Refused(filter) :
        manifest[f] # 0 /\ (f \in filter \/ (f \notin sealed /\ disk[f] = 0))}

\* projectManifestsChanged, except that a missing record is made, not compared.
ProjectChanged == recorded \notin {NoProject, project}

\* incrementalScanLocked up to the point where it knows its work.
DiffScan(p) ==
    /\ At(p, "diff")
    /\ IF stored # {"db", "manifest"} \/ ProjectChanged
       THEN /\ Go(p, [scan[p] EXCEPT !.step = "snapshot", !.filter = hidden,
                        !.mode = IF stored = {"db", "manifest"} THEN "reroot" ELSE "full"])
            /\ UNCHANGED <<lock, recorded>>
       ELSE /\ recorded' = project
            /\ LET changed == Changed(scan[p].filter)
                   deleted == Deleted(scan[p].filter)
               IN IF changed \cup deleted = {}
                  THEN Rest(p)
                  ELSE /\ \E mode \in {"incremental", "partial"} :
                            /\ mode = "partial" =>
                               /\ deleted \cup Refused(scan[p].filter) = {}
                               /\ Cardinality(changed) = 1
                            /\ Go(p, [scan[p] EXCEPT !.step = "snapshot", !.mode = mode,
                                        !.batch = changed, !.gone = deleted, !.topo = db])
                       /\ UNCHANGED lock
    /\ UNCHANGED <<tree, project, turns, db, manifest, stored, faults>>

\* SnapshotManifest: the mtimes before the parse.  A full scan snapshots what
\* attemptedSourceFiles walks to.
Snapshot(p) ==
    /\ At(p, "snapshot")
    /\ LET batch == IF scan[p].mode \in {"full", "reroot"}
                    THEN Found(scan[p].filter) ELSE scan[p].batch
       IN Go(p, [scan[p] EXCEPT !.step = "parse", !.batch = batch,
                   !.stamps = [f \in Files |-> IF f \in batch THEN disk[f] ELSE 0]])
    /\ UNCHANGED <<tree, project, turns, index, lock, faults>>

\* Phase 1 of the incremental path.
ParseChanged(p) ==
    /\ At(p, "parse")
    /\ scan[p].mode = "incremental"
    /\ \E drop \in BOOLEAN :
         Go(p, [scan[p] EXCEPT !.step = "resolve",
                  !.topo = ParseInto(@, scan[p].batch, drop)])
    /\ UNCHANGED <<tree, project, turns, index, lock, faults>>

\* Phase 2: the same files again, and any indexed files that reverseCallerFiles,
\* dependentFiles, repeatedDeclarationSiblings or coOwnerFiles add to them.
ResolveAll(p) ==
    /\ At(p, "resolve")
    /\ \E extra \in SUBSET (Indexed(scan[p].topo) \ scan[p].gone), drop \in BOOLEAN :
         Go(p, [scan[p] EXCEPT !.step = IF scan[p].gone = {} THEN "write_db" ELSE "settle",
                  !.topo = ParseInto(@, scan[p].batch \cup extra, drop)])
    /\ UNCHANGED <<tree, project, turns, index, lock, faults>>

\* removeDeletedFiles: take the deleted files out, then re-parse the surviving
\* files that were tied to them.
RemoveDeleted(p) ==
    /\ At(p, "settle")
    /\ LET rest == Without(scan[p].topo, scan[p].gone)
       IN \E tied \in SUBSET OnDisk(Indexed(rest), scan[p].filter) :
            Go(p, [scan[p] EXCEPT !.step = "write_db",
                     !.topo = ParseInto(rest, tied, FALSE)])
    /\ UNCHANGED <<tree, project, turns, index, lock, faults>>

\* The scoped path: one file, parsed once; it falls back to the full path when
\* the file is unreadable or the edit reaches other files.
ParsePartial(p) ==
    /\ At(p, "parse")
    /\ scan[p].mode = "partial"
    /\ \/ /\ \A f \in scan[p].batch : disk[f] # 0
          /\ Go(p, [scan[p] EXCEPT !.step = "write_db",
                      !.topo = ParseInto(@, scan[p].batch, FALSE)])
       \/ Go(p, [scan[p] EXCEPT !.step = "snapshot", !.mode = "incremental"])
    /\ UNCHANGED <<tree, project, turns, index, lock, faults>>

\* updateFileLocked: remove the file when it is hidden or gone, parse it else.
\* Removing it may re-parse files tied to it.
ParseUpdated(p) ==
    /\ At(p, "parse")
    /\ scan[p].mode = "update"
    /\ LET f == CHOOSE g \in Files : scan[p].batch = {g}
           rest == Without(scan[p].topo, {f})
       IN IF f \in hidden \/ disk[f] = 0
          THEN \E tied \in SUBSET OnDisk(Indexed(rest), hidden) :
                 Go(p, [scan[p] EXCEPT !.step = "write_db",
                          !.topo = ParseInto(rest, tied, FALSE)])
          ELSE Go(p, [scan[p] EXCEPT !.step = "write_db",
                        !.topo = ParseInto(@, {f}, FALSE)])
    /\ UNCHANGED <<tree, project, turns, index, lock, faults>>

\* scanAllLanguages: a graph built from nothing.  A language whose scanner
\* fails is recorded in the error log and left out, unless every one fails.
ScanAllLanguages(p) ==
    /\ At(p, "parse")
    /\ scan[p].mode \in {"full", "reroot"}
    /\ LET found == Found(scan[p].filter)
           detected == {Lang[f] : f \in found}
       IN  \E failed \in SUBSET detected :
              /\ IF failed = {} THEN UNCHANGED faults ELSE Fault("bad_scanner")
              /\ IF failed = detected
                 THEN Abort(p)
                 ELSE /\ Go(p, [scan[p] EXCEPT !.step = "write_db",
                                  !.topo = [f \in Files |->
                                     IF f \notin found THEN NoRow
                                     ELSE IF Lang[f] \in failed THEN Failed
                                     ELSE Parsed(f)]])
                      /\ UNCHANGED <<tree, project, turns, index, lock>>

\* WriteDb, WriteIncremental, WriteScopedResources: one transaction.  The rows
\* a scoped write leaves alone are the ones the scan read and did not change.
WriteDb(p) ==
    /\ At(p, "write_db")
    /\ db' = scan[p].topo
    /\ stored' = stored \cup {"db"}
    /\ Go(p, [scan[p] EXCEPT !.step = "write_manifest"])
    /\ UNCHANGED <<tree, project, turns, manifest, recorded, lock, faults>>

\* The database stays locked through every retry, or the disk is full.
WriteDbFails(p) ==
    /\ At(p, "write_db")
    /\ Fault("bad_write")
    /\ Abort(p)

SyncManifestLate(s) ==
    LET stamped == {f \in Files : s.stamps[f] # 0 /\ disk[f] # 0}
    IN [f \in Files |-> IF f \in stamped THEN disk[f]
                        ELSE IF f \in Indexed(s.topo) \ s.filter THEN manifest[f]
                        ELSE 0]
SyncManifestPartial(s) ==
    [f \in {g \in Files : s.stamps[g] # 0 /\ disk[g] # 0} |-> s.stamps[f]]
StampManifestLate(s) ==
    [f \in Files |-> IF s.stamps[f] # 0 THEN disk[f] ELSE manifest[f]]

\* SyncManifest: stamp what was attempted and still exists, keep what is still
\* in the graph, drop the rest.
SyncManifest(s) ==
    LET stamped == {f \in Files : s.stamps[f] # 0 /\ disk[f] # 0}
    IN [f \in Files |-> IF f \in stamped THEN s.stamps[f]
                        ELSE IF f \in Indexed(s.topo) \ s.filter THEN manifest[f]
                        ELSE 0]

\* StampManifest touches nothing but the stamped files.
StampManifest(s) ==
    [f \in Files |-> IF s.stamps[f] # 0 THEN s.stamps[f] ELSE manifest[f]]

\* UpdateFile stamps its file, or forgets it when the graph no longer holds it.
StampOrForget(s) ==
    IF s.batch \subseteq Indexed(s.topo) THEN StampManifest(s)
    ELSE [f \in Files |-> IF f \in s.batch THEN 0 ELSE manifest[f]]

NewManifest(s) ==
    IF s.mode = "partial" THEN StampManifest(s)
    ELSE IF s.mode = "update" THEN StampOrForget(s)
    ELSE SyncManifest(s)

\* The manifest is replaced by rename, or left as it was.  A full scan goes on
\* to record the project manifests; every other one returns.
WriteManifest(p) ==
    /\ At(p, "write_manifest")
    /\ \/ /\ manifest' = NewManifest(scan[p])
          /\ stored' = stored \cup {"manifest"}
          /\ UNCHANGED faults
       \/ Fault("bad_write") /\ UNCHANGED <<manifest, stored>>
    /\ IF scan[p].mode \in {"full", "reroot"}
       THEN Go(p, [scan[p] EXCEPT !.step = "record"]) /\ UNCHANGED lock
       ELSE Rest(p)
    /\ UNCHANGED <<tree, project, turns, db, recorded>>

\* recordProjectManifests stamps the project manifest as it is now.
RecordProject(p) ==
    /\ At(p, "record")
    /\ recorded' = project
    /\ Rest(p)
    /\ UNCHANGED <<tree, project, turns, db, manifest, stored, faults>>

\* A hook's timeout, Ctrl-C, an OOM kill: the process is gone and the kernel
\* drops its flock.
Kill(p) ==
    /\ lock = p
    /\ Fault("kill")
    /\ Rest(p)
    /\ UNCHANGED <<tree, project, turns, index>>

-----------------------------------------------------------------------------
Work(p) ==
    \/ DiffScan(p) \/ Snapshot(p) \/ ParseChanged(p) \/ ResolveAll(p)
    \/ RemoveDeleted(p) \/ ParsePartial(p) \/ ParseUpdated(p)
    \/ ScanAllLanguages(p) \/ WriteDb(p) \/ WriteManifest(p) \/ RecordProject(p)

World ==
    \/ \E f \in Files : \/ EditFile(f) \/ RemoveFile(f) \/ RestoreFile(f)
                        \/ ChangeVisibility(f) \/ ChangeAccess(f)
    \/ EditProject

Next ==
    \/ World
    \/ \E p \in Procs :
         \/ \E mode \in Entries : Begin(p, mode)
         \/ \E f \in Files : UpdateFile(p, f)
         \/ Work(p) \/ WriteDbFails(p) \/ Kill(p)

Spec == Init /\ [][Next]_vars

\* A scan that holds the lock runs on, and somebody keeps asking for an
\* incremental scan (the watcher's tick, the hook before every tool call).
Fairness ==
    /\ \A p \in Procs : WF_vars(Work(p))
    /\ SF_vars(\E p \in Procs : Begin(p, "incremental"))

FairSpec == Spec /\ Fairness

-----------------------------------------------------------------------------
(* What has to hold.                                                       *)

Visible(f) == IF f \in hidden THEN 0 ELSE disk[f]
Serves(f) == db[f].err \/ db[f].src = disk[f]

\* The files a read serves without looking at them again (StaleFiles).
Current == {f \in Files : disk[f] # 0 /\ manifest[f] = disk[f]}

\* A file the manifest calls current -- its stamp is the mtime on disk, so no
\* scan and no read will look at it again -- is in the database with exactly
\* that content, or the error log says why not (SnapshotManifest, MtimeChanged).
Vouched ==
    lock = NoProc => \A f \in Current : Serves(f)

\* What is neither on disk nor in the manifest is not in the database: no diff
\* would ever report it deleted (DiffScanFiles, RemoveFileResources).
NoGhost ==
    lock = NoProc =>
        \A f \in Files : disk[f] = 0 /\ manifest[f] = 0 => db[f].src = 0

\* While the record equals the project manifest on disk, so that no scan will
\* force a rescan, the ids of every current file are rooted under it
\* (projectManifestsChanged, recordProjectManifests).
RootVouched ==
    lock = NoProc /\ recorded = project =>
        \A f \in Indexed(db) : manifest[f] = disk[f] => db[f].root = project

\* What no diff would ever report is as it should be: nothing is left over that no
\* scan will remove, and no id is rooted where no scan will look for it.
NothingOverlooked == NoGhost /\ RootVouched

\* All that machinery keeps the promise of FreshIndex.
Promise == INSTANCE FreshIndex WITH
    served <- [f \in Files |-> db[f].src],
    noted <- {f \in Files : db[f].err},
    vouched <- Current
KeepsPromise == Promise!FreshSpec

\* Once the tree is left alone, every visible file is indexed as it is on disk,
\* or its failure is recorded, through kills and failed writes.
EventuallyIndexed ==
    <>[](\A f \in Files : Visible(f) # 0 => Serves(f))

\* And the database holds nothing else, as long as every directory can be listed.
EventuallyExact ==
    <>[](sealed = {} => \A f \in Files : db[f].err \/ db[f].src = Visible(f))
=============================================================================
