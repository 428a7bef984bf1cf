------------------------------ MODULE TaskGroup ------------------------------
(***************************************************************************)
(* One task group of a chat session: the sub-agents that a CreateTasks     *)
(* call starts (chat/task_runner.go, chat/task_resume.go).                 *)
(*                                                                         *)
(* A RUN is one call of runTaskGroup.  It takes the unfinished tasks of    *)
(* the group, starts workers, a feeder that hands them the tasks and a     *)
(* waiter for their end, and then answers the tool call.  A stop cancels   *)
(* the run's context; the run leaves at once, its workers when they next   *)
(* look.  A stopped group can be resumed: that is another run.             *)
(*                                                                         *)
(* One mutex guards the group, and it is held for one step here.  Group    *)
(* and tasks are saved in each of them; the rest is lost with the process. *)
(***************************************************************************)
EXTENDS Naturals, Sequences, SequencesExt, FiniteSets

CONSTANTS
    Tasks,
    Runs,
    NoRun,
    Workers,
    NoTask,
    WorkerCount,    \* group.WorkerCount
    Settings,       \* what may happen to the group: sets of Happenings
    MaxResumes,     \* bound: resumes
    MaxStops,       \* bound: stops and restarts
    MaxTools        \* bound: tool calls of the sub-agents

\* stop, close, restart: the user stops the session, the manager is closed, the
\* process starts anew.  resume: the user resumes the group; hasty: also while
\* goroutines of an earlier run are still there.
Happenings == {"stop", "close", "restart", "resume", "hasty"}

ASSUME TaskGroupAssumption ==
    /\ Runs # {} /\ NoRun \notin Runs /\ NoTask \notin Tasks
    /\ IsFiniteSet(Tasks) /\ IsFiniteSet(Workers)
    /\ Settings \subseteq SUBSET Happenings
    /\ WorkerCount \in Nat \ {0}
    /\ MaxResumes \in Nat /\ MaxStops \in Nat /\ MaxTools \in Nat

VARIABLES
    setting,    \* what may happen to this group; never changes
    group,      \* TaskGroup.Status
    task,       \* [Tasks -> Status]: AgentTask.Status
    unanswered, \* the tasks whose stored transcript ends in a tool call
    owner,      \* m.runningTaskGroups: the run that holds the group
    phase,      \* how far Close is
    run,        \* [Runs -> Run]
    worker,     \* [Workers -> Worker]
    answers,    \* what the tool call was answered, in order; history
    misasked,   \* a model was asked with an open tool call; history
    resumes, stops, tools

stored == <<group, task, unanswered>>
history == <<answers, misasked>>
counts == <<resumes, stops, tools>>
vars == <<setting, stored, owner, phase, run, worker, history, counts>>

-----------------------------------------------------------------------------
Status == {"pending", "running", "completed", "failed"}
Finished == {"completed", "failed"}

\* left: the tasks the feeder still has to hand out; need: the workers still to
\* be started; jobs: the channel between them; waits: the waiter was started.
Run == [at: {"idle", "begin", "mark", "spawn", "wait", "await", "check",
             "complete", "finish", "leave", "answer", "refuse"},
        left: SUBSET Tasks, need: Nat, jobs: {"unfed", "fed", "closed"},
        waits: BOOLEAN, cancelled: BOOLEAN]
Rest == [at |-> "idle", left |-> {}, need |-> 0, jobs |-> "unfed",
         waits |-> FALSE, cancelled |-> FALSE]

\* open: the transcript in the worker's hands ends in a tool call.
Worker == [at: {"idle", "take", "start", "mark", "call", "turn", "tool", "result",
                "succeed", "fail"},
           run: Runs \cup {NoRun}, task: Tasks \cup {NoTask}, open: BOOLEAN]
Asleep == [at |-> "idle", run |-> NoRun, task |-> NoTask, open |-> FALSE]

TypeOK ==
    /\ setting \in Settings
    /\ group \in {"pending", "running", "completed"}
    /\ task \in [Tasks -> Status]
    /\ unanswered \subseteq Tasks
    /\ owner \in Runs \cup {NoRun}
    /\ phase \in {"open", "closing", "closed"}
    /\ run \in [Runs -> Run]
    /\ worker \in [Workers -> Worker]
    /\ answers \in Seq({"result", "refusal"})
    /\ misasked \in BOOLEAN
    /\ resumes \in Nat /\ stops \in Nat /\ tools \in Nat
    /\ \A r \in Runs : run[r].at \notin {"idle", "begin", "answer", "refuse"} => owner = r

FirstRun == CHOOSE r \in Runs : TRUE

\* The group was just created by its tool call, and one run starts on it.
Init ==
    /\ setting \in Settings
    /\ group = "pending"
    /\ task = [t \in Tasks |-> "pending"]
    /\ unanswered = {}
    /\ owner = NoRun /\ phase = "open"
    /\ run = [r \in Runs |-> IF r = FirstRun THEN [Rest EXCEPT !.at = "begin"] ELSE Rest]
    /\ worker = [w \in Workers |-> Asleep]
    /\ answers = <<>> /\ misasked = FALSE
    /\ resumes = 0 /\ stops = 0 /\ tools = 0

-----------------------------------------------------------------------------
Go(r, step) == run' = [run EXCEPT ![r].at = step]
Turns(w, step) == worker' = [worker EXCEPT ![w].at = step]
Crew(r) == {w \in Workers : worker[w].run = r}
Cancelled(w) == run[worker[w].run].cancelled

\* (Operators named for a slip -- UnfinishedOrFailed, CheckNothing, ... -- are the
\* variants of the next one that the checked properties must reject.)
\* pendingTaskIDs.
UnfinishedOrFailed == {t \in Tasks : task[t] # "completed"}
Unfinished == {t \in Tasks : task[t] \notin Finished}

\* taskGroupToolResultPresent, negated.
Undelivered == answers = <<>>

Fewer(m, n) == IF m < n THEN m ELSE n

\* goBackground starts nothing once Close has begun.
Background == phase = "open"

-----------------------------------------------------------------------------
(* A run: runTaskGroup and the answer its caller gives.                    *)

Begin(r) ==
    /\ run[r].at = "begin"
    /\ IF owner # NoRun
       THEN Go(r, "refuse") /\ UNCHANGED owner
       ELSE Go(r, "mark") /\ owner' = r
    /\ UNCHANGED <<setting, stored, phase, worker, history, counts>>

MarkRunning(r) ==
    /\ run[r].at = "mark"
    /\ group' = "running"
    /\ run' = [run EXCEPT ![r].at = IF Unfinished = {} THEN "check" ELSE "spawn",
                          ![r].left = Unfinished,
                          ![r].need = Fewer(WorkerCount, Cardinality(Unfinished))]
    /\ UNCHANGED <<setting, task, unanswered, owner, phase, worker, history, counts>>

SpawnWorker(r) ==
    /\ run[r].at = "spawn" /\ run[r].need > 0
    /\ run' = [run EXCEPT ![r].need = @ - 1]
    /\ IF Background
       THEN \E w \in Workers :
              /\ worker[w] = Asleep
              /\ worker' = [worker EXCEPT ![w] = [Asleep EXCEPT !.at = "take", !.run = r]]
       ELSE UNCHANGED worker
    /\ UNCHANGED <<setting, stored, owner, phase, history, counts>>

\* A feeder that cannot be started closes the channel in its place.
SpawnFeederOpen(r) ==
    /\ run[r].at = "spawn" /\ run[r].need = 0
    /\ run' = [run EXCEPT ![r].at = "wait", ![r].jobs = IF Background THEN "fed" ELSE "unfed"]
    /\ UNCHANGED <<setting, stored, owner, phase, worker, history, counts>>

SpawnFeeder(r) ==
    /\ run[r].at = "spawn" /\ run[r].need = 0
    /\ run' = [run EXCEPT ![r].at = "wait", ![r].jobs = IF Background THEN "fed" ELSE "closed"]
    /\ UNCHANGED <<setting, stored, owner, phase, worker, history, counts>>

\* A waiter that cannot be started reports the end at once.
SpawnWaiter(r) ==
    /\ run[r].at = "wait"
    /\ run' = [run EXCEPT ![r].at = "await", ![r].waits = Background]
    /\ UNCHANGED <<setting, stored, owner, phase, worker, history, counts>>

Await(r) ==
    /\ run[r].at = "await"
    /\ \/ run[r].cancelled /\ Go(r, "leave")
       \/ (run[r].waits => Crew(r) = {}) /\ Go(r, "check")
    /\ UNCHANGED <<setting, stored, owner, phase, worker, history, counts>>

CheckNothing(r) ==
    /\ run[r].at = "check"
    /\ Go(r, "complete")
    /\ UNCHANGED <<setting, stored, owner, phase, worker, history, counts>>

Check(r) ==
    /\ run[r].at = "check"
    /\ Go(r, IF run[r].cancelled THEN "leave" ELSE "complete")
    /\ UNCHANGED <<setting, stored, owner, phase, worker, history, counts>>

Complete(r) ==
    /\ run[r].at = "complete"
    /\ group' = "completed"
    /\ Go(r, "finish")
    /\ UNCHANGED <<setting, task, unanswered, owner, phase, worker, history, counts>>

\* finishTaskGroupRun; an interrupted run gives no answer.
FinishAndAnswer(r) ==
    /\ run[r].at \in {"finish", "leave"}
    /\ owner' = NoRun
    /\ Go(r, "answer")
    /\ UNCHANGED <<setting, stored, phase, worker, history, counts>>

FinishRun(r) ==
    /\ run[r].at \in {"finish", "leave"}
    /\ owner' = NoRun
    /\ Go(r, IF run[r].at = "finish" THEN "answer" ELSE "idle")
    /\ UNCHANGED <<setting, stored, phase, worker, history, counts>>

\* appendToolResult, by the caller of runTaskGroup.
Answer(r) ==
    /\ run[r].at \in {"answer", "refuse"}
    /\ answers' = Append(answers, IF run[r].at = "answer" THEN "result" ELSE "refusal")
    /\ Go(r, "idle")
    /\ UNCHANGED <<setting, stored, owner, phase, worker, misasked, counts>>

-----------------------------------------------------------------------------
(* The feeder and the workers.                                             *)

Hand(r) ==
    /\ run[r].jobs = "fed"
    /\ \E w \in Crew(r), t \in run[r].left :
         /\ worker[w].at = "take"
         /\ worker' = [worker EXCEPT ![w].at = "start", ![w].task = t]
         /\ run' = [run EXCEPT ![r].left = @ \ {t}]
    /\ UNCHANGED <<setting, stored, owner, phase, history, counts>>

StopFeedingOnCancel(r) ==
    /\ run[r].jobs = "fed" /\ run[r].cancelled
    /\ run' = [run EXCEPT ![r].jobs = "closed"]
    /\ UNCHANGED <<setting, stored, owner, phase, worker, history, counts>>

StopFeeding(r) ==
    /\ run[r].jobs = "fed"
    /\ run[r].left = {} \/ run[r].cancelled
    /\ run' = [run EXCEPT ![r].jobs = "closed"]
    /\ UNCHANGED <<setting, stored, owner, phase, worker, history, counts>>

\* The channel is closed, or the context was cancelled when a task came.
WorkerEnds(w) ==
    /\ \/ worker[w].at = "take" /\ run[worker[w].run].jobs = "closed"
       \/ worker[w].at = "start" /\ Cancelled(w)
    /\ worker' = [worker EXCEPT ![w] = Asleep]
    /\ UNCHANGED <<setting, stored, owner, phase, run, history, counts>>

\* runAgentTask looks at the context, and marks the task afterwards.  It fails at
\* once where its agent kind, its tools or its provider cannot be had.
StartTask(w) ==
    /\ worker[w].at = "start" /\ ~Cancelled(w)
    /\ Turns(w, "mark")
    /\ UNCHANGED <<setting, stored, owner, phase, run, history, counts>>

MarkTask(w) ==
    /\ worker[w].at = "mark"
    /\ task' = [task EXCEPT ![worker[w].task] = "running"]
    /\ \E step \in {"call", "fail"} :
         worker' = [worker EXCEPT ![w].at = step, ![w].open = worker[w].task \in unanswered]
    /\ UNCHANGED <<setting, group, unanswered, owner, phase, run, history, counts>>

GiveUp(w) == worker' = [worker EXCEPT ![w].at = "take", ![w].task = NoTask, ![w].open = FALSE]

\* The sub-agent's model is asked, and answers with a tool call, with its final
\* answer or with an error.
CallModel(w) ==
    /\ worker[w].at = "call"
    /\ IF Cancelled(w)
       THEN GiveUp(w) /\ UNCHANGED <<misasked, tools>>
       ELSE /\ misasked' = (misasked \/ worker[w].open)
            /\ \/ Turns(w, "turn") /\ tools < MaxTools /\ tools' = tools + 1
               \/ Turns(w, "succeed") /\ UNCHANGED tools
               \/ Turns(w, "fail") /\ UNCHANGED tools
    /\ UNCHANGED <<setting, stored, owner, phase, run, answers, resumes, stops>>

\* The transcript in the worker's hands is stored, with or without the result.
StoreTranscript(w, open) ==
    /\ unanswered' = IF open THEN unanswered \cup {worker[w].task}
                             ELSE unanswered \ {worker[w].task}
    /\ worker' = [worker EXCEPT ![w].at = IF open THEN "tool" ELSE "call", ![w].open = open]

AppendTurn(w) ==
    /\ worker[w].at = "turn"
    /\ StoreTranscript(w, TRUE)
    /\ UNCHANGED <<setting, group, task, owner, phase, run, history, counts>>

\* The tool runs; what it returned is dropped when the context was cancelled.
RunTool(w) ==
    /\ worker[w].at = "tool"
    /\ IF Cancelled(w) THEN GiveUp(w) ELSE Turns(w, "result")
    /\ UNCHANGED <<setting, stored, owner, phase, run, history, counts>>

AppendResultOpen(w) ==
    /\ worker[w].at = "result"
    /\ Turns(w, "call")
    /\ UNCHANGED <<setting, stored, owner, phase, run, history, counts>>

AppendResult(w) ==
    /\ worker[w].at = "result"
    /\ StoreTranscript(w, FALSE)
    /\ UNCHANGED <<setting, group, task, owner, phase, run, history, counts>>

EndTask(w) ==
    /\ worker[w].at \in {"succeed", "fail"}
    /\ task' = [task EXCEPT ![worker[w].task] =
                  IF worker[w].at = "succeed" THEN "completed" ELSE "failed"]
    /\ GiveUp(w)
    /\ UNCHANGED <<setting, group, unanswered, owner, phase, run, history, counts>>

-----------------------------------------------------------------------------
(* What happens to the group.                                              *)

Abandoned(r) == Crew(r) # {} \/ run[r].jobs = "fed"
Cancel == run' = IF owner = NoRun THEN run ELSE [run EXCEPT ![owner].cancelled = TRUE]

StopSessionFrees ==
    /\ "stop" \in setting
    /\ owner # NoRun
    /\ stops < MaxStops /\ stops' = stops + 1
    /\ Cancel /\ owner' = NoRun
    /\ UNCHANGED <<setting, stored, phase, worker, history, resumes, tools>>

StopSession ==
    /\ "stop" \in setting
    /\ owner # NoRun
    /\ stops < MaxStops /\ stops' = stops + 1
    /\ Cancel
    /\ UNCHANGED <<setting, stored, owner, phase, worker, history, resumes, tools>>

\* ResumeTaskGroup: another run, or the answer alone where it is only missing.
Resume(r) ==
    /\ "resume" \in setting
    /\ "hasty" \in setting \/ \A q \in Runs : run[q].at = "idle" /\ ~Abandoned(q)
    /\ resumes < MaxResumes /\ resumes' = resumes + 1
    /\ run[r].at = "idle" /\ ~Abandoned(r)
    /\ owner = NoRun
    /\ \/ group = "completed" /\ Undelivered /\ run' = [run EXCEPT ![r] = [Rest EXCEPT !.at = "answer"]]
       \/ group # "completed" /\ Background /\ run' = [run EXCEPT ![r] = [Rest EXCEPT !.at = "begin"]]
    /\ UNCHANGED <<setting, stored, owner, phase, worker, history, stops, tools>>

\* Close: no goroutine starts any more; then what runs is cancelled.
Close ==
    /\ "close" \in setting
    /\ phase = "open"
    /\ phase' = "closing"
    /\ UNCHANGED <<setting, stored, owner, run, worker, history, counts>>

CancelAllRuns ==
    /\ phase = "closing"
    /\ phase' = "closed"
    /\ Cancel
    /\ UNCHANGED <<setting, stored, owner, worker, history, counts>>

Restart ==
    /\ "restart" \in setting
    /\ stops < MaxStops /\ stops' = stops + 1
    /\ owner' = NoRun /\ phase' = "open"
    /\ run' = [r \in Runs |-> Rest]
    /\ worker' = [w \in Workers |-> Asleep]
    /\ UNCHANGED <<setting, stored, history, resumes, tools>>

-----------------------------------------------------------------------------
RunStep(r) ==
    \/ Begin(r) \/ MarkRunning(r) \/ SpawnWorker(r) \/ SpawnFeeder(r) \/ SpawnWaiter(r)
    \/ Await(r) \/ Check(r) \/ Complete(r) \/ FinishRun(r) \/ Answer(r)
FeederStep(r) == Hand(r) \/ StopFeeding(r)
WorkerStep(w) ==
    \/ WorkerEnds(w) \/ StartTask(w) \/ MarkTask(w) \/ CallModel(w) \/ AppendTurn(w)
    \/ RunTool(w) \/ AppendResult(w) \/ EndTask(w)

Next ==
    \/ \E r \in Runs : RunStep(r) \/ FeederStep(r) \/ Resume(r)
    \/ \E w \in Workers : WorkerStep(w)
    \/ StopSession \/ Close \/ CancelAllRuns \/ Restart

Spec == Init /\ [][Next]_vars

\* Goroutines go on, models answer and tools return.
Fairness ==
    /\ \A r \in Runs : WF_vars(RunStep(r)) /\ WF_vars(FeederStep(r))
    /\ \A w \in Workers : WF_vars(WorkerStep(w))
    /\ WF_vars(CancelAllRuns)

FairSpec == Spec /\ Fairness

-----------------------------------------------------------------------------
(* What has to hold.                                                       *)

\* A group that is called completed has no unfinished task: nobody would ever
\* run it again (runTaskGroup, ResumeTaskGroup).  Not so once Close has begun.
CompletedIsDone == phase = "open" /\ group = "completed" => Unfinished = {}

\* What is settled stays settled: a finished task is not run again and keeps its
\* outcome, and a tool call that has its answer gets no other (runAgentTask,
\* pendingTaskIDs, executeCreateTasksTool, taskGroupToolResultPresent).
OutcomeStays ==
    [][/\ \A t \in Tasks : task[t] \in Finished => task'[t] = task[t]
       /\ answers # <<>> => answers' = answers]_vars

\* What answers the tool call is the result of a completed group (runTaskGroup).
TrueAnswer ==
    [][answers' # answers => Last(answers') = "result" /\ group = "completed"]_vars

\* A sub-agent's model is never asked with a tool call left without result
\* (runAgentTask), as long as nobody resumes the group.
ProviderInvariant == resumes = 0 => ~misasked

\* A group that nobody stops gets its tool call answered (runTaskGroup).
EventuallyAnswered ==
    <>(answers # <<>> \/ phase # "open" \/ stops > 0)

\* Closed, every goroutine of the group comes to its end (Close, goBackground).
CloseReturns ==
    phase = "closed" ~> \A r \in Runs : run[r].at = "idle" /\ ~Abandoned(r)
=============================================================================
