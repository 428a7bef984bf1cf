# aracne in TLA+

aracne scans a source tree in Go, Python, JavaScript/TypeScript, Rust and Java,
keeps a graph of its declarations (the *topology*) in SQLite, and serves that
graph to people and to LLM agents.  The parsers are sequential and heavily
tested.  What tests reach badly is everything around them: several processes
(a hook before every tool call, a watcher, `arac scan`, `arac edit`, an MCP
server, a web server with its own chat) share one database, a handful of JSON
files beside it and a source tree that changes under them at any moment, and
any of them may be killed half-way.  These modules model that part.

## 1. Inventory

| component | state | operations | who else touches it | what is hard | what makes it correct |
|---|---|---|---|---|---|
| **Index synchronisation** (`topology/manager.go`, `helper/manifest.go`, `helper/incremental.go`, `topology/project_manifests.go`, `topology/freshness.go`) | `topology.db`, `file_manifest.json`, `project_manifests.json`, the topology lock | `FullScan`, `FullReScan`, `IncrementalScan` (full and partial path), `UpdateFile` | every process; the tree is edited while a scan runs | a file saved, created or deleted between the diff, the snapshot, the parse and the stamp; a kill between the database and the manifest; a scanner or a write that fails; a project manifest that changes meanwhile | a file the manifest calls current is in the database as it is on disk; nothing is left that no diff would find; ids are rooted under the project as it is; the index catches up |
| **Descriptions** (`helper/db.go`, `manager.go: restoreDescriptions`, `helper/description_attempts.go`, `helper/descriptions_sidecar.go`) | the description column, the attempts table | `UpdateDescription(s)`, `ClearDescriptions`, sidecar import, carry-over by scans | agents, the fill, the sweep, `descriptions clear`, and every scan -- of which only the scans take the topology lock | a description written or cleared between a scan's read of the database and its write | a write is not lost, a cleared description does not return |
| **Pending transients** (`helper/pending_transients.go`) | `pending-transients.json`, `reported-transients.json`, their lock file | queue, drain, requeue, peek, remove, refresh | scans queue, hooks and `arac scan` drain | an `O_EXCL` lock that is waited for 3s and then ignored, stale takeover, kill between two sections, out-of-order queueing | a report that was raised is shown, once per state, newest state wins |
| **Warning ledger of the guard** (`cli/guard_warnstate.go`, `cli/guard_drift.go`, `cli/warning_report.go`) | `guard-reported-warnings.json`, its lock file | seed, report what is unreported | parallel hooks of one agent; a scan goroutine abandoned at its budget | the scan finishing after the hook gave up; a seed between a scan and its report | every standing warning is reported to the agent at least once, and not again while it stands |
| **Lazy description fill** (`lazydesc/`) | the attempted set in memory, the attempts table, worker pool | `fill` = claim, run, write, record, release | reads in several goroutines and processes; `descriptions clear` | deadline against late results, parallel reads naming the same node, retry suppression | a node is paid for once per content, never blocked for good, nothing is written after the deadline's decision |
| **Chat sessions** (`chat/manager.go`, `chat/workflow_forced.go`, `chat/store.go`) | sessions, run flags, stop flags, pending approvals, questions and tool calls | send, run loop, approve, answer, stop, rewind, regenerate, delete, close | HTTP handlers and background goroutines around one mutex released between steps | stop against a tool in flight, an approval resolved while a run is on, rewind under a run | every tool call gets exactly one result before the next model call; one run per session; a stopped session stays stopped |
| **Task groups** (`chat/task_runner.go`, `chat/task_resume.go`) | groups, tasks, run keys, cancels | run, resume, stop, close | workers, `Manager.Close` | an abandoned worker writing into a resumed group; closing between spawning and feeding | a completed group has no pending task; a task is run by one worker |
| **Edit and write tools** (`llm/tools/edit.go`, `llm/tools/write.go`, `helper/filelock.go`) | source files, path locks | batch edit, write, then `UpdateFile` | agents in several processes | lock order, a lock that cannot be taken, an edit computed on stale content | no lost edit, no deadlock, a batch is all or nothing |
| **Bugs, aliases, relocations** (`helper/db.go`, `topology/relocation.go`) | bugs, resource aliases | create, list, change state, remap | scans remap and clean up | clean-up against creation | a bug on a live node survives rescans |
| **Stored warnings** (`topology/manager.go: settleSignatureWarnings, referrerPass`, `helper/referrers.go`, `helper/conformance.go`, `topology/warning_carry.go`) | the warnings table | raise, settle, carry | scans | order of edits against order of scans | a warning stands exactly while its cause does |
| **Watcher** (`cli/scanner.go`) | last diff | poll, scan, describe | scans | ticks against long sweeps | every change is eventually scanned |
| **MCP server** (`mcp/`) | none beyond the tools | JSON-RPC over stdio | -- | parallel calls, late answers | one answer per request |
| **Web server and socket hub** (`viz/`) | clients and their queues | broadcast, serve | chat events | a slow client, removal while sending | no send on a closed queue |
| **Language scanners** (`topology/golang, python, javascript, rust, java`, `topology/scanner`, `topology/contract`) | none | parse a file, scan a project | called by scans | none of it concurrent | golden tests |
| **Name resolution, grep, shell parsing** (`topology/idresolve`, `topogrep`, `shellcmd`) | none | pure functions | -- | -- | unit tests |
| **Command line, setup, prompts, terminal UI, providers** (`cli/*`, `prompts`, `toolspec`, `tui`, `progress`, `llm/*`) | config files | mostly I/O | -- | -- | -- |

The hazards, line by line, are in `PROJECT.json`.

## 2. Plan

Modules, in the order of importance; a component's theorems go into a module of
their own beside it.

1. `FreshIndex`, `ScanSync`, `ScanSyncProofs` -- **done**.  `FreshIndex` is the
   abstract specification of the index; `ScanSync` implements it
   (`Promise == INSTANCE FreshIndex WITH ...`).
2. `Transients`, `TransientsProofs` -- **done**.  What scans raise and hooks report, through two files.
3. `ChatRun`, `ChatRunProofs`, `TaskGroup`, `TaskGroupProofs` -- **done**.  They meet at one tool call: `ChatRun` sees a
   `CreateTasks` call as any other tool, or as the one call of a workflow's turn;
   `TaskGroup` has what goes on inside it.
4. `LazyFill`, `LazyFillProofs` -- **done**.  Fills of several reads and processes,
   and the two ledgers that keep them from paying twice.
5. `LockFile`, `WarnLedger`, `WarnLedgerProofs` -- **done**.  `LockFile` is the `O_EXCL`
   lock with its waiting, giving up and takeover; `WarnLedger` extends it with what the
   guard's hooks do inside.
6. `Descriptions`, `DescriptionsProofs` -- **done**.  Writes, clears and imports, which do not take the topology
   lock, beside the read-to-write window of scans, and the matcher that follows a
   declaration to its new id.
7. `EditFiles`, `EditFilesProofs` -- **done**.  Mutexes, path locks and batches of the edit and write tools.
8. `Transients` over `LockFile`: its sections are atomic today; the refinement holds only
   while the lock excludes.
9. Bugs, aliases and relocations beside `Descriptions`, which share its matcher.

Every safety and action property the passing runs check is proved.  Still worth having: how
far `NeverEchoed` and `NeverNagged` go once the ledger has been pruned, where the code
promises only that a forgotten entry costs one more report (`pending_transients.go:325`).

## 3. The modules and the code

### ScanSync

A process's scan is a program counter (`scan[p].step`) over the calls of one entry
point, taken under the topology lock:

| step | code |
|---|---|
| `Begin`, `UpdateFile` | `IncrementalScan`, `FullScan`/`FullReScan`, `UpdateFile` up to the lock |
| `DiffScan` | `helper.DiffScanFiles`, `projectManifestsChanged`, the choice between partial, incremental and full |
| `Snapshot` | `helper.SnapshotManifest` |
| `ParseChanged`, `ParsePartial`, `ParseUpdated`, `ScanAllLanguages`, `ResolveAll`, `RemoveDeleted` | the parser calls, each reading the file *as it is at that moment* |
| `WriteDb`, `WriteDbFails` | the one SQLite transaction |
| `WriteManifest` | `SyncManifest` and `StampManifest`, with the rename |
| `RecordProject` | `recordProjectManifests` |
| `Kill` | the process dies; its lock goes |

A file's content is its mtime, and an edit takes an mtime never used before; what is
in the database is the mtime the parser read.  So "the index is current" is equality
of two numbers.  `Weather` switches the surroundings on: saves and churn during a
scan, project manifests that change, copies restored with their old mtime, kills,
failed writes, failed scanners.

### Transients

Every visit to `pending-transients.json` is one section of `withPendingLock` and
one step; a scanner or reporter holds what it took in `local` between two of them.
`due` and `printed` are history: what the newest scan raised, what the agent saw.
The lock file itself is taken to exclude (see `LockFile` and plan item 8).  `setting` is
what may happen in a behaviour; it is chosen at the start and never changes, so that one
run covers settings whose properties differ (`NoEcho` speaks of hooks only).

### ChatRun

One session.  The thread `Run` is `runLoop`; the threads in `Requests` are HTTP
handlers.  A step is one section under the manager's mutex.  `sent` is the transcript
of the last request to the model; `user` is a set of `Habits`, what the user may do, chosen at the start.  The thread `Job`
is the goroutine of a forced workflow (`StartForcedWorkflow`, its follow-up rounds and the
run at its end) or of a group that is resumed: a group is here the wait for its tasks
(`Launch` to `GroupEnds`), which a stop may cut short.  `groups` has what
`ResumeTaskGroup` looks at.  One such goroutine at a time: a bound.  Left out: calls
that name no registered tool (answered at once, as a declined call is), the detail of the
limit of 40 iterations (it ends the run as a failure does), titles, deletion and `Close`.

### TaskGroup

One group.  `run[r]` is a call of `runTaskGroup` with its feeder and waiter,
`worker[w]` a sub-agent's goroutine; a step is one section under the mutex, or one
channel operation.  `setting` is what may happen to the group.  Saves are taken to succeed.

### LazyFill

`read[r]` is one call of `fill`, with the calls it makes in order: plan, consult the table,
claim under the mutex, run, collect, write, record, release.  A batch is one resource;
so an answer for a batch that describes some of its resources and not others is two
answers.  An answer that comes after the deadline is dropped by the code and is therefore
no step.

### LockFile and WarnLedger

`LockFile` is `withWarnStateLock`, which `withPendingLock` repeats word for word.  The
lock file is absent, young or older than the stale limit; time is `Age` and the choice
of `GoUnlocked`, and both need a slow section or a dead one, as the limits are far longer
than a section.  To find a lock stale and to remove it are two steps, so a second waiter
may remove the file of a new holder.  `holders` are those whose deferred `os.Remove` will
run.

`WarnLedger` has one hook per process, which seeds (`preToolScan`) or reports
(`driftCheck`), and the three steps of either section: the table, the ledger, the write.
The scans of hooks, in time or abandoned at their budget, and those of anyone else are
`Scan`, which changes the table at any moment.  Four histories stand for the promise.  A
warning is `owed` from the moment a visit found it gone until a report takes it in hand (or
a first seed takes it for known): that is the duty of the ledger, which is written before
the report is printed.  It is `untold` until the report is *printed*, which is what the agent
sees.  It is `lost` if the hook that had it in hand is killed first; the ledger has it as
shown by then, which is the loss `guard_drift.go:24-26` speaks of.  And it is `blurred` if a
process of `intruded` wrote the ledger -- one whose section overlapped another -- until a
section of its own found the warning gone or told of it: what stands and is in the ledger
stays in doubt.

### Descriptions

A row has its place, its code and its text; its id is made of the project, the package or
module, the owner and a name all rows share.  A scan is two steps, read-and-parse and
write, as nothing but texts changes in between; which files it parses is left open.
`Match` is `MatchDescriptions` with its tiers, used by `remapByIdentity` and by the import.
`word` is history: the last text written to each row.  It follows a declaration to a new
id where place or code tell that it is the same (`FollowTexts`), which is stated without
the tiers.  `astray` are the rows of which no such thing can be said: rows written to while
a scan that rewrites them, or an import that names them, was under way, until their next
word, and rows whose declaration place and code cannot tell from another.

### EditFiles

One call of either tool per `c`, in a process of its own or sharing one.  A call takes the
mutexes of its paths, then their `flock`s, resolves all its edits in memory, writes the
files, gives the `flock`s back and updates the topology path by path with the mutexes
held.  A file is a few spots; a text is named for the call that wrote it, so `NothingLost`
can say that a write changes what its call edits and nothing else.  `GoUnlocked` is the
`continue` of `WithPathLock`.  `distinctPaths` sorts, so a call locks the smallest path it
has still to lock (`NextToLock`).

## 4. The runs

| run | what it shows |
|---|---|
| `ScanSync_storm` | `Vouched`, the refinement `KeepsPromise` and `EventuallyIndexed`: two processes, two languages, every entry point, saves and churn at any moment, one kill, failed write or failed scanner.  A stamp that equals the mtime on disk means the database has that content, or the error log names the file; and once the tree rests, all of it is indexed |
| `ScanSync_calm` | `NothingOverlooked`, `EventuallyExact`: while the tree changes only between scans, hiding rules, unreadable directories, project manifest changes and restored copies leave no orphan (`NoGhost`) and no id under the wrong root (`RootVouched`) |
| `Transients_settings` | two hooks against a scanner, overlapping, queue at its cap, one kill; and hook and pager with cut pages, callers edited, ledger at its cap: `NothingLost`, `NoEcho`, `NoNag`, `EventuallyTold` |
| `ChatRun_polite` | two request handlers and a user who waits for the page: one who stops runs and rewinds, one who stops them while the server dies between any two steps, one who also starts workflows, stops them and resumes their groups, or one whose workflows go on to a second round while the server dies: six properties |
| `ChatRun_rude` | a user with every habit at once, with rewinds or with workflows (with both, one group can be resumed for ever, each time with one more result: section 6): what then still holds is `RanOnce` and `RunEnds` |
| `TaskGroup_whole` | a group of two tasks on two workers, stopped, restarted and resumed, or stopped while the manager closes: no task is left behind or done twice, the tool call has one answer, and a model is never asked over an open tool call; a group that is not stopped is answered, and `Close` returns |
| `LazyFill_reads` | two reads of a server and one of a shell command, an edit, a clear and a fault: `PaidOnce`, `HeldForReason`, `RecordedIsAnswered`, `EventuallyDescribed` |
| `WarnLedger_hooks` | two hooks, a table that changes three times, overlapping sections, one kill or one failed read: `NothingMissed`, `NoRepeat`, `EventuallyTold`.  The agent is shown every warning that stands, but for those in the hands of a hook that was killed and those that overlapping sections hid and that were not found gone since |
| `WarnLedger_unlocked` | **fails**, against the comment of `guard_warnstate.go:103-106`: two hooks in the section at once do not only repeat a warning, they can hide one.  A reported warning is gone and one hook reads the table; the warning comes back and the other hook reads the table, which has it, and the ledger, which has it still; the first prunes the ledger, and the second writes the warning in again without a report |
| `WarnLedger_sealed` | **fails**, against the comment of `guard_warnstate.go:46-50`: a ledger that is there and cannot be read is taken for none (`:53`), and the next seed enters what stands as shown |
| `Descriptions_moves` | two declarations of one name, three files of two packages, two owners and two projects, one text, one export: `LastWordStands` |
| `EditFiles_calls` | two calls of either tool, in one process or two, on two files: `NothingLost`, `EveryCallReturns`, and no deadlock |

### Bounds

* `ScanSync`: two files are enough for a diff that finds one changed, one deleted or
  hidden, and for the languages to differ; files interact in no other way.  Two
  processes are all that the lock lets matter.  Three mtimes give before, during and
  after a scan.  In `storm` nothing is hidden or sealed; in `calm` nothing
  changes while a scan holds the lock, so that the properties it checks hold.
* `Transients`: one place in the queue (the cap bites at the second pair), two
  signatures per callee (there and back), three scans that change something.
  `MaxPending = 1` and `MaxReported`, `Keep` of a few stand for 200, 2000 and 1500: what
  matters is that both sides of each cap are reached.  The constraint `ShownAtMostTwice`
  bounds how often one pair is printed: two readers could pass one transient to and fro for
  ever.  It never cuts the setting of the hooks, and so not the behaviours `EventuallyTold`
  is about.
* `ChatRun`: a batch of two calls has one running and one queued; three turns give a
  turn before, during and after a rewind; two handlers are two requests at once; two
  rounds (three in the code) are a first and a later one.
* `TaskGroup`: two tasks and two workers are one task per worker, both for one, and none
  left for the other; two runs are one and its resume.
* `WarnLedger`: every operator treats each warning by itself, so one is enough; three table
  changes are a warning that comes back unseen as two sections overlap, is fixed, and comes
  back once more; two hooks are one and whoever interferes.  `WarnLedger_unlocked` starts with
  a ledger (`SpecWithLedger`): two first seeds at once would show the same of a warning that
  comes between them.
* `Descriptions`: two declarations are one and its double; of three files two share a
  package, so that a move may or may not change the id; of three bodies two differ in
  comments only and one is long enough for the weak tiers.  Two edits are a move and an
  edit, or there and back; one text shows any loss, as what it is lost to is none.
* `EditFiles`: two calls are the one that reads and the one that writes in between; two
  spots are the one edited and the one kept; the batches have two edits of one spot, of one
  file, and of two files in either order.
* `LazyFill`: every operator treats each resource by itself, so one resource is enough
  for its interleavings; two fingerprints are before and after an edit.

Symmetry is used only in runs without liveness.  `CHECK_DEADLOCK FALSE` stands in the runs
of systems that may stop: a user who sends nothing more, a queue nobody fills.

### Fairness

* `ScanSync`: a scan that holds the lock goes on (weak fairness of `Work`), and
  incremental scans are asked for again and again (the watcher's tick and the hook
  before every tool call; strong, as the lock may be taken each time it is looked at).
* `Transients`: a process that began goes on, and a hook keeps running after tool calls.
  Scans need none.
* `ChatRun`, `TaskGroup`: goroutines and handlers go on, models answer (each provider
  call has a deadline), tools return.  Users owe nothing.
* `WarnLedger`: a hook that started goes on (`SF` of `Wait`: two hooks may pass the lock
  between them for long, but a poll every five milliseconds finds it free some time), an
  unattended lock file grows old, and the agent makes calls with a hook after them.
* `EditFiles`: a call that can go on does; nothing is asked of calls that never start.
* `LazyFill`: a fill goes on -- its deadline sees to that -- and every undescribed resource
  is named again and again by new processes (each intercepted `cat` or `grep` is one).
  Strong fairness, as an edit or a clear may take the resource away in between.

## 5. What is proved

`ScanSyncProofs`, for any set of files, processes, languages and projects and any bounds:

* **TypeCorrect**: `Spec => []TypeOK`.
* **IndexVouched**: `FairMtimes /\ Spec => []Vouched`.  `FairMtimes` says that no older
  copy is restored with its own mtime and that nothing becomes hidden or unlistable; the
  first is what `MtimeChanged` trusts (`manifest.go:532`), and without it `Vouched` fails
  (below).  `Weather` is otherwise free: saves, churn, kills, failed writes and scanners.
* **PromiseKept**: `FairMtimes => (Spec => KeepsPromise)`: `ScanSync` implements `FreshIndex`.
* **NothingIsOverlooked**: `Calm => (Spec => []NothingOverlooked)`: no orphan in the graph and
  no id under the wrong root, for any interleaving of scans of every kind.  `Calm` is a
  condition on the constants which the calm run meets.

`Vouched` speaks of states in which nobody holds the lock and is not inductive.  `IInv`
adds what a scan under way knows: only the lock's holder has one (`Alone`); no
mtime anywhere lies in the future (`GivenOut`), so an edit can never revive a
stamp; whatever is current is shown by the database in *every* state (`IndexShows`); and
for the scan itself, a stamp it took that still equals the disk belongs to a
file its graph shows (`GraphShows`), its batch holds every file whose stamp it
will write (`Planned`), and after its transaction the database is that graph
(`Written`).  The proof has one lemma per action; a file that changes is dealt with once,
in `InvTouch`.

`FreshIndex` lets an index move forward only: a publication replaces what is served by
nothing older, and vouches for nothing it does not serve.  For the refinement `Grown` says,
of every state, that no row of the database or of a graph in hand is newer than its file
(`Aged`), and that a graph about to be written takes no file back (`Advances`).  Then the
changes of the world are `FreshIndex`'s changes (`ChangesPromised`: by `GivenOut` a new mtime
withdraws the vouching), the transaction and the manifest's rename are its publications
(`PublicationsPromised`: by `IndexShows` they vouch only for what is served), and every
other step, a kill or an error return too, is one it cannot see.

`Calm` has three parts, and without any one of them `NothingOverlooked` is false (section 6).
At most one kind of weather: saves during scans, or old copies put back between them.  At
most one turn of the project (a rule that hides, a directory sealed, a project manifest
changed), or else files can be hidden or directories sealed but not both.  And at most one
turn, or else the root never changes, or nothing else that a forced rescan could fail at does.

The invariant `CInv` follows an id from the graph in memory into the database and the
manifest.  `Batched` and `Listed` say of a scan that each file of its graph is in its batch,
is about to be removed, or keeps its manifest entry (`Kept`); and at the writes, that each is
stamped or kept.  So `Known` -- what is indexed is in the manifest -- holds in
every state but those between a scan's two writes, and `Filed` tells a scan which of
the three files on disk it may count on.  `Views` is what makes `Kept` last: what a scan does
not see was hidden by the one turn there is, and nothing was then sealed.  For the roots there
are two regimes.  Until the project manifest changes all ids have the same root (`Uniform`).
After that nothing else of the kind can happen (`Still`), and each id is under the right root
or its file will be parsed again (`Agreed`, and `Rerooted` for a scan under way).  The proof
has one lemma per action over a single generic step (`CalmStep`).

`LazyFillProofs`, for any resources, fingerprints, reads, processes and bounds:

* **TypeCorrect**: `Spec => []TypeOK`.
* **HeldBackForReason**: `Spec => []HeldForReason`.
* **RecordedOnlyAnswered**: `Spec => []RecordedIsAnswered`.
* **PaidForOnce**: `Spec => PaidOnce`, an action property.

They assume that a one-shot process has one read (`LazyFillAssumption`).  The first
three follow from `IInv`: before its claim a read has taken nothing and asked nobody
(`Fresh`); what it took has a fingerprint (`Planned`), without which `answered` could not
keep its type; whatever came back was heard of (`Heard`), so `release` may
forget the read and keep the ledger; and an answer is one for the planned fingerprint
(`Asked`).  `PaidForOnce` needs `Exclusive` on top: a Filler's ledger holds all it
heard of and all its reads took (`Ledger`, `Taken`), and no two of its reads took
the same (`Apart`).  A claim takes only what the ledger does not hold, and `release` gives
back only what was never heard of.

`WarnLedgerProofs`, for any number of hooks and warnings and any bounds:

* **TypeCorrect**: `Spec => []TypeOK`.
* **NothingIsMissed**: `Spec => []NothingMissed`, if `Sound`.
* **NothingIsRepeated**: `Spec => NoRepeat`, an action property, if `Sound`.

`Sound` says that the ledger can be read and written; slow sections, kills and tables that
cannot be read are otherwise free, and so are sections that overlap.  `NothingMissed` says
that the ledger holds nothing that is owed, but for what is blurred, and is not inductive: a
hook that seeds drops what is gone, so it must be known that nothing else was missing.  `IInv`
says more (`Kept`): who met nobody in his section is alone there (`Apart`), and what he has
read is still what is there (`InStep`), where the table may have moved on but `gone` has what
the visit saw missing; and the ledger is *exactly* what is not owed, but for what is blurred
(`Exact`).  A visit of its own keeps `Exact` for what was not blurred and restores it for what
it finds gone or tells of; one that overlaps another blurs everything.  From `Exact` both
theorems follow: a report is what is in the table and not in the ledger, so it is owed.

`TransientsProofs`, for any finite set of pairs, any signatures, processes, settings and bounds:

* **TypeCorrect**: `Spec => []TypeOK`: the queue within its cap and with one entry for each
  pair, the ledger within its own and without repetition.
* **NoneLost**: `Undisturbed => (Spec => []NothingLost)`.

`Undisturbed` says that no two scanners are at work, and that in a setting where a scan may
run beside a report, reports come from hooks and are printed whole; without any of the three
`NothingLost` fails (section 6).  How many hooks there are, and whether they overlap, is free.
The files are sequences, and what a section makes of them is got from a few lemmas on
parts of sequences (`PickFacts`, `ListFacts`, `LastKeeps`, `ConcatFacts`); `SelectSeq` takes
an operator and is out of the provers' reach, so `Transients` picks entries by their positions.

The danger to `NothingLost` is not the queue but the ledger: `QueueTransients` drops a raise
that is in it.  So `Accounted` says that what is in the ledger was read or is in the hands of
a process that will print it, unless it forgets it was reported first.  A process that only
removes what it printed holds nothing that counts (`Safe`); what it removes was read
(`Removing`) and nothing newer is removed by the same id, as by then the queue has only
what is due (`Recent`): a scan leaves older raises about its pairs nowhere once it has queued
its own, which are the newest (`Timely`).

* **NeverEchoed**: `Roomy => (Spec => NoEcho)`, an action property.
* **NeverNagged**: `Roomy /\ OneAtATime => (Spec => NoNag)`, another.

`Roomy` says that the ledger has room for all that scans can raise, one transient for each
pair and scan; as the code has room for 2000, that is the time before the first pruning.
`NoEcho` fails without it, and `NoNag` where two processes are at work at once (section 6):
`OneAtATime` says that one process scans, and that in a setting where scans and reports do
not meet, readers wait for each other, nobody is killed and nobody prints what its own scan
found.  The run's settings meet both.

For `NoEcho` it is enough to count.  Where callers stay as they are, every transient there is
has the caller the graph has (`Steady`), so `RefreshTransientCallers` changes nothing and no
new transient comes but by a raise (`Counted`); so `Marked` never prunes, and what was printed
is in the ledger (`Recorded`).  What a hook has drained is in the ledger too but was not
printed yet (`Unheard`), and is with no other hook (`Split`).  This holds with scans, hooks and
kills interleaved in any way.

`NoNag` is about the last report of a pair, which pages, edits and cut reports move about, so
the invariant says of the one process at work where it stands.  What was last printed of a pair
has its entry in the ledger, and no later one of that pair but for what is marked and not yet
printed (`Remembered`), which is at the ledger's end (`AtTheEnd`).  Whatever waits, queued or
in hand, differs in the callee from what was last printed (`News`): `QueueTransients` drops the
rest, since by then the ledger follows the callers of what a scan raised (`Following`).
`Measured` is the counting again, with the place that a raise has in either file.  `Before`,
`Closes`, `WithoutOrder`, `ConcatOrder` and `MarkedOrder` say what becomes of the ledger's
order, by which `Latest` judges.

`TaskGroupProofs`, for any tasks, workers, runs, settings and bounds:

* **TypeCorrect**: `Spec => []TypeOK`, and **AsksClosed**: `Spec => []ProviderInvariant`.
* **NothingLeftUndone**: `Spec => []CompletedIsDone`, **AnsweredByResult**:
  `Spec => TrueAnswer` and **SettledForGood**: `Spec => OutcomeStays`, if `Patient`.

`Patient` says that no setting has `hasty` (a group resumed while goroutines of its last
run are left), and none has both `close` and `restart`.  Without either of the two a
property fails (section 6); the second was found by the proof.  `AsksClosed` speaks of a group
nobody resumed and rests on `FirstHand`: a task that has not begun has no open call, and no
task is with two workers.  The others rest on `Orderly`: one run at a time is live,
counting the goroutines it abandoned (`OneRun`); it hands out only what is unfinished, and
gives the answer only of a completed group (`Proper`); as long as nothing was closed or
cancelled, each unfinished task is still to be handed out or with a worker, and there is
a worker, or one to come, until all were handed out (`Accounted`); what a worker has in
hand is in no other hand (`InHand`).

`ChatRunProofs`, for any users, requests, batches, workflows and bounds:

* **TypeCorrect**: `Spec => []TypeOK`.
* **EachCallOnce**: `Spec => []RanOnce`, of every user, with no assumption.

`RanOnce` says where calls have been and is not inductive: it must be known where a call that
may still run *is*.  `Ledger` says that it waits in one place only, the approvals, the queue
or the claims of one thread (`OnePlace`); that a waiting call has neither run nor been
declined (`Unstarted`); and that every call anywhere has been issued (`AllIssued`), so that a
new turn's calls are in none of these places.  A rewind that keeps the queue and a
restart that keeps the approvals leave all of this true, which is why `RanOnce` holds even of
the users for whom `NoStrayTool` and `ProviderInvariant` fail.

If every user is `Polite`:

* **ProviderKept**: `Spec => []ProviderInvariant`, and **OnlyOpenCallsRun**:
  `Spec => NoStrayTool`, an action property.
* **StopsHold**: `Spec => StopSticks`, an action property.
* **NeverStuck**: `Spec => []NotStuck`, and **ApprovedCallsRun**: `Spec => []ApprovedRuns`.

`Polite` says what a user does *not* do: none of `overlap`, `early`, `send_open` and
`stop_waiting`; no workflow that goes on to further rounds if the user also stops; and no
workflow or restart beside a rewind.  The four users of `ChatRun_polite` are polite, so the
run checks these theorems' conclusions under their hypothesis.  Of a user who does one of
these some property fails (section 6), except of one who rewinds beside restarts or
workflows and never stops, who is simply not covered.  What is free: when the server dies,
tools that return late, errors of the provider, how many calls a turn has and which
of them need the user, requests that are refused, and how often all of this happens.

The invariant, `Orderly`, adds six parts to `Typed` and `Ledger`.  `Alone`: at most one thread is at
work, but that a stop's request may write the result of the tool it interrupts while the
run comes to its end; it follows from where a polite user may ask at all
(`PoliteUser`, `NobodyAtWork`).  `Stopping`: after a stop the run has only steps left that
begin nothing.  `Core` relates the transcript to what is in hand: every turn has its
results right behind it, each once, and only the last may lack some (`Proper`); the call
the user is asked about, and what a thread is going to answer, lack theirs (`Asked`);
what is queued lacks its result too and is in nobody's hands, except where a rewind
left the queue as it was, which counts again only once it is overwritten (`Queued`,
`Counts`); and the call of a group that is open is the only open one (`Grouped`).  `Ending`
says how a run may come to its exit, and `Approving` where an approved call is until it has run.
`Queued` is the part that was hard to state: the stale queue of a rewound turn is there in
the code (`manager.go:393`) and does no harm only because it is overwritten or emptied
when the next call has to wait, before any handler takes it.  `Alone`, `Stopping`, `Core`, `Ending` and `Approving` were
checked by TLC on such users before they were proved.

`DescriptionsProofs`, for any declarations, files, owners, projects, texts and bounds:

* **TypeCorrect**: `Spec => []TypeOK`.
* **LastWord**: `Spec => []LastWordStands`, with no assumption.

`LastWordStands` compares the rows with the last words in every state, but a scan writes
from rows it read before.  `Remembered` says what such a scan knows: the rows that were there
when it read have their texts still, but for those that `astray` names; and what the parse
found in its batch is without text.  The rest is the matcher.  `MatchIsAlike` and
`AlikeIsMatch` say of all its tiers together what `FollowTexts` states without them: a
text goes only to a row that place or code tell is its own, and, if there is one such row and
no other row is like it, it does go there.

`EditFilesProofs`, for any calls, processes, paths, batches and faults:

* **TypeCorrect**: `Spec => []TypeOK`: among other things, a call that is over holds nothing.
* **NothingUndone**: `NoLinks /\ Spec => NothingLost`, an action property.

`NoLinks` says that no file has two paths; with a symbolic link `NothingLost` fails
(section 6), as locks are taken by path.  The invariant has four parts.  `Exclusive`: no
two calls share a lock, nor a mutex within a process.  `Guarded`: from its first edit to its
last write a call has the mutexes of all it names, and the locks too, where none was missed.
`Shaped`: how far a call is -- its files in order, each once, all of them named, and each
with a content.  `Faithful`: the content it has made of a file follows by its own edits so
far from what the file says *now*.  The last is why the locks are there: the call
read the file some steps ago, and `NamesApart` says that whoever wrote since wrote another.

Only model-checked: every liveness property (temporal proofs under fairness, and
`ENABLED`, are out of the prover's reach).

Some constants have assumptions for these proofs: a group has a run and a session a
round (`Runs # {}`, `MaxRounds > 0`), a declaration lies in some project
(`Projects # {}`), paths are numbered in their order, the declarations of an index and
the pairs of a change are finitely many (`IsFiniteSet(Pairs)`) and a declaration has some
fingerprint (`Callees # {}`, `Callers # {}`).

## 6. Where the properties end

The properties are checked under settings in which they hold.  These are settings in which
they do not: change the constants of the named configuration as shown and TLC prints the
behaviour.  Each is what the code does; whether it is worth guarding against is for its
authors.

Some properties name the setting they hold in, or what they excuse: `OnlyHooks` in `NoEcho`,
`phase = "open"` in `CompletedIsDone`, `resumes = 0` in TaskGroup's `ProviderInvariant`,
`lost` and `blurred` in WarnLedger's `EventuallyTold`.  The rows marked (*) are about the
property without that: take it out first.

| property | setting (the rest as in the module's runs) | what happens | code |
|---|---|---|---|
| `NothingOverlooked` (`NoGhost`) | `Weather = {"churn"}`, one process, incremental, no turns | a file created and deleted while it is indexed keeps its nodes and gets no manifest entry | `manifest.go:109`, against `:92` |
| `NothingOverlooked` (`RootVouched`) | `Weather = {"turn"}`, `MaxTurns = 2` | the project manifests are recorded as they are after the scan | `manager.go:868`, against `project_manifests.go:25` |
| `NothingOverlooked` (`RootVouched`) | calm, `MaxTurns = 2` | a forced rescan that finds every file hidden fails, and is recorded as done | `manager.go:230`, against `:228` |
| `NothingOverlooked` (`RootVouched`) | `Weather = {"bad_write"}`, `MaxFaults = 1` | a forced rescan that could not write is recorded as done | `manager.go:230`, against `:228` |
| `NothingOverlooked` (`RootVouched`) | `Weather = {"kill"}`, `MaxFaults = 1` | a first scan dies before its record | `project_manifests.go:173`, against `:161` |
| `NothingOverlooked` (`RootVouched`) | `Weather = {"turn_back"}`, `Modes` with `update`, `MaxTurns = 2` | a single-file update uses the changed manifest and no record tells | `manager.go:1006` |
| `NothingOverlooked` (`NoGhost`) | calm, one process and project, a third file in the other language, `MaxTurns = 2` | a walk that finds a language unreadable returns before it reports the hidden files deleted, and the manifest's sweep drops their entries: their nodes stay | `manifest.go:493`, against `:519` and `:109` |
| `NothingOverlooked` (`NoGhost`) | `Weather = {"save", "kept_mtime"}`, `MaxTurns = 1` | an older copy put back during a scan is a file created and deleted under it | `manifest.go:109`, against `:92` |
| `NothingOverlooked` (`RootVouched`) | `Weather = {}`, `Hideable = {}`, `MaxTurns = 2` | a forced rescan of an unlistable directory fails, and is recorded as done | `manager.go:230`, against `:228` |
| `Vouched` | `Weather = {"save", "kept_mtime"}`, `MaxTurns = 1` | a save during a scan is undone by a copy with the old mtime | `manifest.go:132` |
| `NothingLost` | `Settings = {{"hook", "meet"}}`, two scanners, three callees | two scans commit in one order and queue in the other | `pending_transients.go:133`, against `:128` |
| `NothingLost` | `Settings = {{"hook", "meet", "cut"}}` | what a page left out is put back over a newer raise | `:226` |
| `NothingLost` | `Settings = {{"page", "meet"}}` | a raise newer than the printed one is removed with it | `:263`, against `:261` |
| `NoEcho` (*) | `Settings = {{"hook", "print_own"}}` | `arac update-file` prints without the ledger | `update_file.go:40`, against `pending_transients.go:14` |
| `NoEcho` (*) | `Settings = {{"hook", "edited"}}`, two callers, `MaxScans = 5` | the ledger follows a caller's edit and forgets the earlier state | `:418` |
| `NoEcho` (*) | `Settings = {{"hook", "page", "crowd"}}` | two readers show one transient | `:251` |
| `NoEcho` | `Settings = {{"hook", "meet", "cut", "crowd"}}`, three callees, `MaxReported = 1`, `Keep = 1`, `MaxScans = 4` | a pruned entry comes back as news | `:402` |
| `NoNag` | `Settings = {{"hook", "page", "crowd"}}` | two pagers show one transient | `:251` |
| `NoNag` | `Settings = {{"hook", "page", "kill"}}` | a pager dies between the print and the removal | `:263` |
| `NoNag` | `Settings = {{"hook", "edited", "kill"}}`, three callees, `MaxScans = 4` | a hook dies with what it marked: that mark is the pair's latest, and the entry of what was read before it does not follow the caller | `:217`, against `:459` |
| `NoNag` | `Settings = {{"hook", "print_own"}}` | `arac update-file` prints without the ledger | `update_file.go:40`, against `pending_transients.go:14` |
| `NoNag` | `Settings = {{"hook", "edited"}}`, two scanners, three callees, `MaxScans = 4` | one scan's refresh moves the ledger on while another still holds the state it raised, which then is news | `:133`, against `:423` |
| `ProviderInvariant` (ChatRun) | `Users = {{"send_open", "stop"}}` | a message sent over an open call lands between the call and its result | `manager.go:487`, against `:875` |
| `ProviderInvariant` (ChatRun) | `Users = {{"early", "workflow"}}` | a workflow does not ask whether a run is on, and the run's turn lands between the workflow's call and its result | `workflow_forced.go:185`, against `manager.go:875` |
| `ProviderInvariant` (ChatRun) | `Users = {{"stop", "rewind", "workflow"}}` | a rewind keeps the group of the call it cut, and resuming the group answers that call | `manager.go:391`, against `task_resume.go:22` |
| `ProviderInvariant` (ChatRun) | `Users = {{"stop", "rounds"}}` | the run after an interrupted round answers the round's call, and resuming the round answers it again | `manager.go:903`, against `task_resume.go:28` |
| `StopSticks` | `Users = {{"stop", "rounds"}}` | a workflow stopped in a later round starts its run all the same, which clears the stop | `workflow_forced.go:66`, against `:130` |
| `NotStuck` | `Users = {{"early"}}`, `MaxBatch = 1` | an approval resolved before the run left starts no run, and nobody asks again | `manager.go:608`, against `:821` |
| `NoStrayTool` | `Users = {{"early", "rewind"}}` | calls queued by a turn that was rewound are run by the next one | `manager.go:858` |
| `StopSticks` | `Users = {{"overlap", "stop", "stop_waiting"}}` | a run starts after the stop and clears its flag | `manager.go:613`, against `:644` |
| `ApprovedRuns` | `Users` with `stop_waiting` | a stop while nothing runs interrupts the next approved tool | `manager.go:953` |
| `ProviderInvariant`, `NoStrayTool` | `Users = {{"stop", "restart", "rewind"}}` | a rewind keeps the stored queue | `manager.go:393` |
| `CompletedIsDone` (*) | `Settings = {{"close"}}` | a group that starts as the manager closes is completed with its tasks untouched | `task_runner.go:209`, against `stop_test.go:137` |
| `CompletedIsDone` | `Settings = {{"stop", "resume", "hasty"}}` | a worker of the stopped run marks a task after the resumed run counted it | `task_runner.go:245` |
| `CompletedIsDone` | `Settings = {{"close", "restart"}}` | a group that starts as the manager closes is completed with its tasks untouched, and the server that starts anew has it so | `task_runner.go:209` |
| `OutcomeStays` | `Settings = {{"resume", "hasty"}}`, `MaxResumes = 1` | a resume between the end of a run and its answer appends a second one | `task_runner.go:167` |
| `TrueAnswer` | `Settings = {{"resume", "hasty"}}`, `MaxResumes = 1` | a resume comes before the run of the tool call has set its flag: both begin, and the one that finds the flag set answers the call with "Task group is already processing." | `task_runner.go:151`, against `task_resume.go:22` |
| `ProviderInvariant` (TaskGroup) (*) | `Settings = {{"stop", "resume"}}` | a resumed task sends its stored open call | `task_runner.go:353` |
| `EventuallyTold` (WarnLedger) (*) | as it is, without `lost` | a hook is killed after it wrote the ledger and before it printed: the ledger has the warning as shown, and nobody shows it | `guard_warnstate.go:214`, `guard_drift.go:24` |
| `EventuallyTold` (WarnLedger) (*) | as it is, without `blurred` | two sections overlap and hide a warning that stands | `guard_warnstate.go:138` |
| `EventuallyTold` (WarnLedger) | `Doings = {"sealed"}` | a ledger that cannot be read is taken for none, and the seed enters what stands as shown | `guard_warnstate.go:53` |
| `NeverHangs` (WarnLedger) | `Doings = {"kill", "readonly"}`, `MaxFaults = 1`, `FairSpec` | a stale lock file that cannot be removed is tried again at once and for ever: the loop looks at its deadline only after it | `guard_warnstate.go:136`, against `:120` |
| `NothingLost` (EditFiles) | `FileAt` with both paths of one file | two paths of one file, by a symbolic link, take two locks, and one batch makes two copies of it | `filelock.go:27`, against `:24` |

Some more are described rather than checked.

* A description written or cleared between the read and the write of a scan that rewrites
  its row is undone (`manager.go:544`), although `:538` says that "It cannot resurrect a
  cleared description either".  `LastWordStands` exempts the row until its next word.
* An import overwrites a description that is written between its read and its write
  (`cli/descriptions_sidecar.go:56`), although "existing text wins so a re-import never
  clobbers newer work".
* A batch of edits whose second write fails leaves the first file written
  (`edit.go:253`), where `cli/edit.go:47` says that it "rolls back as a unit".
* A server's `Filler` keys what it attempted by id alone (`filler.go:237`), so it never
  tries a resource again that was edited or cleared after its attempt, where the comment
  has edited code "always tried again" (`:228`); other processes do.  `LazyFill` models the
  ledger as it is, and `EventuallyDescribed` relies on those other processes.

## 7. What is not modelled, and why

`PROJECT.json` lists every component.  Parsers, name resolution, grep and shell parsing
are sequential functions on text, covered by golden files.  Providers, prompts, setup, the
terminal UI and the bench keep no shared state.  The MCP server answers one request at a
time.  Stored warnings, bugs, aliases and relocations change inside one transaction of one
scan.  The socket hub never closes a client's queue and closes `done` once, so a broadcast
that meets a removal drops a message and nothing else.

Inside the modelled components: what a parse extracts (`ScanSync`), doc comments, aliases,
bug references and the path prefix of a relocated tree (`Descriptions`), occurrence counts,
line endings and calls without a topology manager (`EditFiles`), titles, deletion and
`Close` of sessions, a second workflow beside the first, and the choice of its tasks
(`ChatRun`), failing saves (`TaskGroup`), batches of several resources
and the ranking of a plan (`LazyFill`), the cap on warnings of a printed page
(`Transients`).
