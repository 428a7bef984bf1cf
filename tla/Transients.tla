----------------------------- MODULE Transients -----------------------------
(***************************************************************************)
(* Transient warnings: reports about a call whose argument the scanner     *)
(* could not type.  They are never stored in the topology, so the only     *)
(* copy is the pending queue a scan puts them in, until a report shows     *)
(* them; a ledger of what was shown keeps a re-raise from being news.      *)
(*                                                                         *)
(* SCANNERS commit a scan under the topology lock and queue what it raised *)
(* after that lock is released.  REPORTERS are the guard's post-tool hook, *)
(* which drains the queue, and `arac warnings list --read`, which pages    *)
(* through it.  Each visit to the queue is one section of withPendingLock  *)
(* and one step here; between two sections anybody may run.                *)
(*                                                                         *)
(* A transient is keyed by the PAIR it is about (its id: callee and caller *)
(* node) and by its STATE: a fingerprint of the callee's signature and one *)
(* of the caller, as they were when it was raised.                         *)
(***************************************************************************)
EXTENDS Naturals, Sequences, SequencesExt

CONSTANTS
    Pairs,          \* the callee/caller pairs
    Callees,        \* fingerprints of a callee's signature
    Callers,        \* fingerprints of a caller
    NoCallee,
    Scanners,       \* the processes that scan
    Reporters,      \* the processes that report
    Settings,       \* what reporters do and what may go wrong: sets of Happenings
    MaxPending,     \* maxPendingTransients
    MaxReported,    \* maxReportedTransients
    Keep,           \* reportedTransientsKeep
    MaxScans,       \* bound: number of scans that change the graph
    MaxKills        \* bound: number of processes killed

\* hook, page: the two kinds of reporter.  cut: the report's byte budget may
\* leave transients off the page.  meet: a scan and a report may overlap.
\* crowd: so may two reports.  edited: a scan may find callers edited.
\* print_own: `arac update-file`, which prints what its own scan returned.
\* kill: a process dies.
Happenings == {"hook", "page", "cut", "meet", "crowd", "edited",
               "print_own", "kill"}

ASSUME TransientsAssumption ==
    /\ IsFiniteSet(Pairs)
    /\ Callees # {} /\ Callers # {}
    /\ NoCallee \notin Callees
    /\ Scanners \cap Reporters = {}
    /\ Settings \subseteq SUBSET Happenings
    /\ MaxPending \in Nat \ {0}
    /\ Keep \in Nat \ {0}
    /\ MaxReported \in Nat
    /\ Keep <= MaxReported
    /\ MaxScans \in Nat
    /\ MaxKills \in Nat

VARIABLES
    setting,    \* what happens in this behaviour; never changes
    graph,      \* [Pairs -> State]: the endpoints as the topology holds them
    standing,   \* the pairs with a stored signature warning
    queue,      \* pending-transients.json, oldest first
    ledger,     \* reported-transients.json, in the order of the reports
    local,      \* [Procs -> Local]: what each process has in hand
    due,        \* [Pairs -> Callees]: the callee of the newest raise, as long as
                \* it stands; history
    printed,    \* [Pairs -> Seq(State)]: what the agent was shown; history
    scans, kills

files == <<queue, ledger>>
history == <<due, printed>>
counts == <<scans, kills>>
topology == <<setting, graph, standing>>
vars == <<topology, files, local, history, counts>>

-----------------------------------------------------------------------------
Procs == Scanners \cup Reporters
State == [callee: Callees, caller: Callers]
Transient == [id: Pairs, callee: Callees, caller: Callers]

\* hand: the transients the process will queue, show or remove; rest: the ones
\* its page left out.
Steps == {"idle", "refresh", "queue", "report", "unmark", "requeue", "print",
          "page", "remove"}
Local == [step: Steps, hand: SUBSET Transient, rest: SUBSET Transient]
Idle == [step |-> "idle", hand |-> {}, rest |-> {}]

TypeOK ==
    /\ setting \in Settings
    /\ graph \in [Pairs -> State]
    /\ standing \subseteq Pairs
    /\ queue \in Seq(Transient) /\ Len(queue) <= MaxPending
    /\ ledger \in Seq(Transient) /\ Len(ledger) <= MaxReported
    /\ IsInjective(ledger)
    /\ \A i, j \in DOMAIN queue : queue[i].id = queue[j].id => i = j
    /\ local \in [Procs -> Local]
    /\ due \in [Pairs -> Callees \cup {NoCallee}]
    /\ printed \in [Pairs -> Seq(State)]
    /\ scans \in Nat
    /\ kills \in Nat

Init ==
    /\ setting \in Settings
    /\ graph = [x \in Pairs |-> CHOOSE s \in State : TRUE]
    /\ standing = {}
    /\ queue = <<>>
    /\ ledger = <<>>
    /\ local = [p \in Procs |-> Idle]
    /\ due = [x \in Pairs |-> NoCallee]
    /\ printed = [x \in Pairs |-> <<>>]
    /\ scans = 0
    /\ kills = 0

-----------------------------------------------------------------------------
(* Helpers.                                                                *)

Of(x) == [id |-> x, callee |-> graph[x].callee, caller |-> graph[x].caller]
StateOf(w) == [callee |-> w.callee, caller |-> w.caller]
About(ws) == {w.id : w \in ws}
The(x, ws) == CHOOSE w \in ws : w.id = x
Go(p, step) == local' = [local EXCEPT ![p].step = step]
Become(p, l) == local' = [local EXCEPT ![p] = l]
Busy(S) == \E p \in S : local[p] # Idle

\* The entries of s at the positions in D, in their order.
Pick(s, D) ==
    LET Nth(n) == CHOOSE i \in D : Cardinality({j \in D : j <= i}) = n
    IN [n \in 1 .. Cardinality(D) |-> s[Nth(n)]]
Without(s, ws) == Pick(s, {i \in DOMAIN s : s[i] \notin ws})
WithoutIds(s, ids) == Pick(s, {i \in DOMAIN s : s[i].id \notin ids})
LastOf(s, n) == IF Len(s) > n THEN SubSeq(s, Len(s) - n + 1, Len(s)) ELSE s

\* (Operators named for a slip -- UnshownAny, QueuedOnTop, RefreshedNever, ... --
\* are the variants of the next one that the checked properties must reject.)
\* QueueTransients.  A transient already shown in this state is skipped, and
\* with it any queued copy from a state in between; a newer raise replaces the
\* queued one in place; the oldest go when the queue is full.
UnshownAny(fresh) == fresh
UnshownPair(fresh) == {w \in fresh : w.id \notin About(Range(ledger))}
Unshown(fresh) == {w \in fresh : w \notin Range(ledger)}
Merged(fresh) ==
    LET news == Unshown(fresh)
        kept == WithoutIds(queue, About(fresh \ news))
        both == [i \in DOMAIN kept |->
                    IF kept[i].id \in About(news) THEN The(kept[i].id, news) ELSE kept[i]]
    IN both \o SetToSeq({w \in news : w.id \notin About(Range(kept))})
QueuedOnTop(fresh) ==
    LastOf(queue \o SetToSeq({w \in Unshown(fresh) : w.id \notin About(Range(queue))}),
           MaxPending)
QueuedOverfull(fresh) == IF fresh = {} THEN queue ELSE Merged(fresh)
Queued(fresh) == IF fresh = {} THEN queue ELSE LastOf(Merged(fresh), MaxPending)

\* markReportedTransients, with pruneReportedTransients.
Marked(ws) ==
    LET all == Without(ledger, ws) \o SetToSeq(ws)
    IN IF Len(all) > MaxReported THEN LastOf(all, Keep) ELSE all

\* RefreshTransientCallers on one entry: the caller half follows the graph
\* while the callee stands where the entry records it.
RefreshedNever(w) == w
Refreshed(w) == IF graph[w.id].callee = w.callee THEN Of(w.id) ELSE w

\* Only the latest report of each pair follows; where two keys become one, the
\* refreshed entry stays.
Latest(i) == \A j \in i + 1 .. Len(ledger) : ledger[j].id # ledger[i].id
RefreshedLedger ==
    LET now == [i \in DOMAIN ledger |->
                    IF Latest(i) THEN Refreshed(ledger[i]) ELSE ledger[i]]
        Absorbed(i) == \E j \in i + 1 .. Len(ledger) : Latest(j) /\ now[j] = ledger[i]
    IN Pick(now, {i \in DOMAIN ledger : ~Absorbed(i)})
RefreshedQueue == [i \in DOMAIN queue |-> Refreshed(queue[i])]

\* History: the agent reads these transients.
Show(ws) ==
    printed' = [x \in Pairs |->
        printed[x] \o SetToSeq({StateOf(w) : w \in {v \in ws : v.id = x}})]

\* maxPendingTransients gives up the oldest reports, and nothing else does.
GiveUp(fresh) ==
    due' = [x \in Pairs |->
        IF x \in About(Range(Merged(fresh))) \ About(Range(Queued(fresh)))
        THEN NoCallee ELSE due[x]]

-----------------------------------------------------------------------------
(* Scanners.                                                               *)

\* A scan commits to the topology: endpoints move, and every pair whose callee
\* moved, or that has a stored warning, is judged.  Where the verdict is
\* Unverified a transient takes the place of the stored warning.
Scan(p) ==
    /\ local[p] = Idle
    /\ scans < MaxScans
    /\ "meet" \in setting \/ ~Busy(Reporters)
    /\ scans' = scans + 1
    /\ graph' \in [Pairs -> State]
    /\ "edited" \in setting \/ \A x \in Pairs : graph'[x].caller = graph[x].caller
    /\ LET moved == {x \in Pairs : graph'[x].callee # graph[x].callee}
       IN \E raised \in SUBSET (moved \cup standing) :
            /\ standing' \in SUBSET ((moved \cup standing) \ raised)
            /\ Become(p, [step |-> "refresh", rest |-> {}, hand |-> {Of(x)' : x \in raised}])
            /\ due' = [x \in Pairs |-> IF x \in raised THEN graph'[x].callee
                                       ELSE IF x \in moved THEN NoCallee ELSE due[x]]
    /\ UNCHANGED <<setting, files, printed, kills>>

\* RefreshTransientCallers, on the way out and outside the topology lock.
RefreshTransientCallers(p) ==
    /\ local[p].step = "refresh"
    /\ ledger' = RefreshedLedger
    /\ queue' = RefreshedQueue
    /\ Go(p, "queue")
    /\ UNCHANGED <<topology, history, counts>>

\* `arac update-file` goes on to print the warnings UpdateFile returned; every
\* other entry point drops them.
QueueTransients(p) ==
    /\ local[p].step = "queue"
    /\ queue' = Queued(local[p].hand)
    /\ GiveUp(local[p].hand)
    /\ IF "print_own" \in setting /\ local[p].hand # {}
       THEN Go(p, "report") ELSE Become(p, Idle)
    /\ UNCHANGED <<topology, ledger, printed, counts>>

-----------------------------------------------------------------------------
(* Reporters.                                                              *)

Fetching(p, what) ==
    /\ what \in setting
    /\ local[p] = Idle
    /\ queue # <<>>
    /\ "meet" \in setting \/ ~Busy(Scanners)
    /\ "crowd" \in setting \/ ~Busy(Reporters)

\* DrainTransients: the queue is cleared, then what it held is marked reported.
Drain(p) ==
    /\ Fetching(p, "hook")
    /\ queue' = <<>>
    /\ LET drained == Unshown(Range(queue))
       IN /\ ledger' = Marked(drained)
          /\ Become(p, IF drained = {} THEN Idle
                       ELSE [step |-> "report", hand |-> drained, rest |-> {}])
    /\ UNCHANGED <<topology, history, counts>>

\* driftWarningReport lays the page out, and requeues before it is printed.
Report(p) ==
    /\ local[p].step = "report"
    /\ \E shown \in SUBSET local[p].hand :
         /\ shown # local[p].hand => "cut" \in setting
         /\ Become(p, [step |-> IF shown = local[p].hand THEN "print" ELSE "unmark",
                       hand |-> shown, rest |-> local[p].hand \ shown])
    /\ UNCHANGED <<topology, files, history, counts>>

\* RequeueTransients, its first section: forget that the rest was reported.
Unmark(p) ==
    /\ local[p].step = "unmark"
    /\ ledger' = Without(ledger, local[p].rest)
    /\ Go(p, "requeue")
    /\ UNCHANGED <<topology, queue, history, counts>>

\* Its second section: QueueTransients, as if the rest had just been raised.
Requeue(p) ==
    /\ local[p].step = "requeue"
    /\ queue' = Queued(local[p].rest)
    /\ GiveUp(local[p].rest)
    /\ Become(p, [local[p] EXCEPT !.step = "print", !.rest = {}])
    /\ UNCHANGED <<topology, ledger, printed, counts>>

\* The hook's output reaches the agent.
Deliver(p) ==
    /\ local[p].step = "print"
    /\ Show(local[p].hand)
    /\ Become(p, Idle)
    /\ UNCHANGED <<topology, files, due, counts>>

\* PeekTransients, then a page of them is printed.
Peek(p) ==
    /\ Fetching(p, "page")
    /\ Become(p, [step |-> "page", hand |-> Range(queue), rest |-> {}])
    /\ UNCHANGED <<topology, files, history, counts>>

Page(p) ==
    /\ local[p].step = "page"
    /\ \E shown \in SUBSET local[p].hand :
         /\ Show(shown)
         /\ Become(p, IF shown = {} THEN Idle
                      ELSE [step |-> "remove", hand |-> shown, rest |-> {}])
    /\ UNCHANGED <<topology, files, due, counts>>

\* RemoveTransients takes them out of the queue by id.
RemoveTransients(p) ==
    /\ local[p].step = "remove"
    /\ queue' = WithoutIds(queue, About(local[p].hand))
    /\ ledger' = Marked(local[p].hand)
    /\ Become(p, Idle)
    /\ UNCHANGED <<topology, history, counts>>

-----------------------------------------------------------------------------
\* A process dies: between two sections, or inside the one section that makes
\* two writes it cannot take back, between clearing the queue and marking.
Kill(p) ==
    /\ "kill" \in setting
    /\ kills < MaxKills
    /\ kills' = kills + 1
    /\ \/ local[p] # Idle /\ Become(p, Idle) /\ UNCHANGED queue
       \/ p \in Reporters /\ Fetching(p, "hook") /\ queue' = <<>> /\ UNCHANGED local
    /\ UNCHANGED <<topology, ledger, history, scans>>

Handle(p) ==
    \/ RefreshTransientCallers(p) \/ QueueTransients(p) \/ Report(p) \/ Unmark(p)
    \/ Requeue(p) \/ Deliver(p) \/ Page(p) \/ RemoveTransients(p)

Next ==
    \/ \E p \in Procs : Handle(p) \/ Kill(p)
    \/ \E p \in Scanners : Scan(p)
    \/ \E p \in Reporters : Drain(p) \/ Peek(p)

Spec == Init /\ [][Next]_vars

\* A hook runs after every tool call, and a process that started goes on.
Fairness ==
    /\ \A p \in Procs : WF_vars(Handle(p))
    /\ WF_vars(\E p \in Reporters : Drain(p))

FairSpec == Spec /\ Fairness

-----------------------------------------------------------------------------
(* What has to hold.                                                       *)

Knows(x, c) == \E i \in DOMAIN printed[x] : printed[x][i].callee = c
InHand == UNION {local[p].hand \cup local[p].rest : p \in Procs}

\* A raise that still describes the callee is in the queue, in the hands of a
\* process that will queue or print it, or was read: nothing else holds a
\* transient (QueueTransients, DrainTransients, RequeueTransients).  A process
\* that was killed may have taken what it held with it.
NothingLost ==
    \A x \in Pairs :
        due[x] # NoCallee /\ kills = 0 =>
            \/ Knows(x, due[x])
            \/ \E w \in Range(queue) \cup InHand : w.id = x /\ w.callee = due[x]

Appended(x) == SubSeq(printed'[x], Len(printed[x]) + 1, Len(printed'[x]))

\* The agent is not shown a pair in a state it was shown it in before
\* (reportedTransientKey, markReportedTransients), as long as hooks are the only
\* readers and callers stay as they are.
OnlyHooks == setting \cap {"page", "print_own", "edited"} = {}
NoEcho ==
    [][OnlyHooks => \A x \in Pairs : Range(Appended(x)) \cap Range(printed[x]) = {}]_vars

\* Editing the caller, or taking the callee away and putting it back, asks
\* nothing new: two reports in a row about a pair differ in the callee
\* (RefreshTransientCallers), unless a report is under way meanwhile.
NoNag ==
    []["meet" \notin setting => \A x \in Pairs : Len(printed'[x]) > Len(printed[x]) /\ printed[x] # <<>>
          => Head(Appended(x)).callee # Last(printed[x]).callee]_vars

\* With no more scans, every report still due reaches the agent, unless a
\* process was killed with it in its hands, or pages are cut short for ever.
EventuallyTold ==
    setting \cap {"page", "cut"} = {} =>
        <>[](kills = 0 => \A x \in Pairs : due[x] # NoCallee => Knows(x, due[x]))
=============================================================================
