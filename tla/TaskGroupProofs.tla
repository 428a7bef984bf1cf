--------------------------- MODULE TaskGroupProofs ---------------------------
(***************************************************************************)
(* A task group keeps its types; its models are asked over no open tool    *)
(* call unless it is resumed; and where the user is patient, a completed   *)
(* group is done, its tool call is answered once, by its result, and no    *)
(* finished task is run again -- for any tasks, runs, workers and bounds.  *)
(***************************************************************************)
EXTENDS TaskGroup, FiniteSetTheorems, TLAPS

-----------------------------------------------------------------------------
(* What is always so.                                                      *)

\* The user resumes a group only when it has come to rest, and a process that
\* was closed is not started again on the same session.
Patient == \A s \in Settings : "hasty" \notin s /\ ~({"close", "restart"} \subseteq s)

\* A worker at work is at work for a run, and one that was handed a task has it.
WorkersSound ==
    \A w \in Workers :
      /\ worker[w].at = "idle" => worker[w] = Asleep
      /\ worker[w].at # "idle" => worker[w].run \in Runs
      /\ worker[w].at \in {"idle", "take"} => worker[w].task = NoTask
      /\ worker[w].at \notin {"idle", "take"} => worker[w].task \in Tasks

Typed == TypeOK /\ WorkersSound

-----------------------------------------------------------------------------
(* Of a group nobody resumed.                                              *)

\* Only the first run has ever done anything; no task it has yet to begin has an
\* open transcript, and no task is with two workers.
FirstHand ==
    /\ \A r \in Runs \ {FirstRun} : run[r] = Rest
    /\ owner \in {NoRun, FirstRun}
    /\ \A w \in Workers : worker[w].at # "idle" => run[FirstRun].at \notin {"begin", "mark"}
    /\ run[FirstRun].at \in {"begin", "mark"} => unanswered = {}
    /\ run[FirstRun].left \cap unanswered = {}
    /\ \A w \in Workers :
         /\ worker[w].task \notin run[FirstRun].left
         /\ worker[w].at \in {"start", "mark"} => worker[w].task \notin unanswered
         /\ worker[w].at = "call" => ~worker[w].open
    /\ \A v, w \in Workers : v # w /\ worker[v].task = worker[w].task => worker[v].task = NoTask
    /\ ~misasked

Unresumed == resumes = 0 => FirstHand

-----------------------------------------------------------------------------
(* Of a group whose user is patient.                                       *)

Live(r) == run[r].at # "idle" \/ Abandoned(r)
OneRun == \A q, r \in Runs : Live(q) /\ Live(r) => q = r

\* As long as nothing was closed or cancelled, every unfinished task is still to
\* be handed out or with a worker; and there is a worker, or one to come, until
\* all were handed out.
Accounted(r) ==
    /\ run[r].at \in {"begin", "mark", "spawn"} => run[r].jobs = "unfed"
    /\ run[r].at \in {"spawn", "wait", "await"} =>
         /\ Unfinished \subseteq run[r].left \cup {worker[w].task : w \in Crew(r)}
         /\ run[r].need > 0 \/ Crew(r) # {} \/ run[r].jobs = "closed"
         /\ run[r].jobs = "closed" => run[r].left = {}
    /\ run[r].at \in {"wait", "await"} => run[r].need = 0
    /\ run[r].at = "await" => run[r].waits
    /\ run[r].at = "check" => Unfinished = {}

\* A run begins when no goroutine of its own is left, holds the group from its
\* first section to its last, hands out only what is unfinished, is there only
\* before the answer, and gives it only of a completed group.
Proper(r) ==
    /\ owner = r =>
         run[r].at \in {"mark", "spawn", "wait", "await", "check", "complete", "finish", "leave"}
    /\ run[r].at # "refuse"
    /\ run[r].at \in {"begin", "mark"} => ~Abandoned(r)
    /\ Live(r) => run[r].left \subseteq Unfinished
    /\ answers # <<>> => run[r].at = "idle"
    /\ run[r].at \in {"finish", "answer"} => group = "completed"
    /\ phase = "open" =>
         /\ ~run[r].cancelled => Accounted(r)
         /\ run[r].at \in {"complete", "finish"} => Unfinished = {}

\* What a worker has in hand is unfinished, and in no other hand.
InHand ==
    /\ \A w \in Workers : worker[w].task # NoTask =>
         /\ worker[w].task \in Unfinished
         /\ worker[w].task \notin run[worker[w].run].left
    /\ \A v, w \in Workers : v # w /\ worker[v].task = worker[w].task => worker[v].task = NoTask

\* An answered group is completed, and a completed one is done.
Settled ==
    /\ answers # <<>> => group = "completed"
    /\ phase # "open" => "close" \in setting
    /\ CompletedIsDone

Orderly == OneRun /\ (\A r \in Runs : Proper(r)) /\ InHand /\ Settled

IInv == Typed /\ Orderly

-----------------------------------------------------------------------------
(* Types.                                                                  *)

\* How many workers a run starts: a number, and none only if nothing is to do.
LEMMA NeedOfUnfinished ==
    ASSUME NEW S \in SUBSET Tasks
    PROVE  /\ Fewer(WorkerCount, Cardinality(S)) \in Nat
           /\ S # {} => Fewer(WorkerCount, Cardinality(S)) > 0
  <1>1. IsFiniteSet(S)
    BY TaskGroupAssumption, FS_Subset
  <1>2. Cardinality(S) \in Nat /\ (S # {} => Cardinality(S) # 0)
    BY <1>1, FS_CardinalityType, FS_EmptySet
  <1> QED BY <1>2, TaskGroupAssumption DEF Fewer

\* The types hold at first.
LEMMA TypedInit == Init => Typed
  <1> SUFFICES ASSUME Init PROVE Typed
    OBVIOUS
  <1>1. \A step \in {"idle", "begin"} : [Rest EXCEPT !.at = step] \in Run
    BY DEF Rest, Run
  <1>2. Rest \in Run /\ Rest.at = "idle" /\ [Rest EXCEPT !.at = "begin"].at = "begin"
    BY DEF Rest, Run
  <1>3. run \in [Runs -> Run] /\ \A r \in Runs : run[r].at \in {"idle", "begin"}
    BY <1>1, <1>2 DEF Init
  <1>4. Asleep \in Worker /\ Asleep.at = "idle" /\ Asleep.task = NoTask
    BY DEF Asleep, Worker
  <1>5. worker \in [Workers -> Worker] /\ WorkersSound
    BY <1>4 DEF Init, WorkersSound
  <1>6. task \in [Tasks -> Status] /\ answers \in Seq({"result", "refusal"})
    BY DEF Init, Status
  <1> QED BY <1>3, <1>5, <1>6 DEF Init, Typed, TypeOK

\* Where a step of a run leads, and that it changes no other.
LEMMA RunMoves ==
    ASSUME Typed, NEW r \in Runs, RunStep(r)
    PROVE  /\ run' \in [Runs -> Run]
           /\ \A q \in Runs \ {r} : run'[q] = run[q]
           /\ run[r].cancelled = run'[r].cancelled
           /\ WorkersSound'
           /\ worker' \in [Workers -> Worker]
           /\ UNCHANGED <<setting, task, unanswered, phase, misasked, counts>>
  <1>0. run \in [Runs -> Run] /\ run[r] \in Run /\ worker \in [Workers -> Worker]
    BY DEF Typed, TypeOK
  <1>1. /\ \A q \in Runs \ {r} : run'[q] = run[q]
        /\ run' \in [Runs -> Run]
        /\ run'[r].cancelled = run[r].cancelled
    <2>1. CASE Begin(r)
      BY <1>0, <2>1 DEF Begin, Go, Run
    <2>2. CASE MarkRunning(r)
      <3>1. Unfinished \subseteq Tasks
        BY DEF Unfinished
      <3>2. Fewer(WorkerCount, Cardinality(Unfinished)) \in Nat
        BY <3>1, NeedOfUnfinished
      <3> QED BY <1>0, <2>2, <3>1, <3>2 DEF MarkRunning, Run
    <2>3. CASE SpawnWorker(r)
      BY <1>0, <2>3 DEF SpawnWorker, Run
    <2>4. CASE SpawnFeeder(r)
      BY <1>0, <2>4 DEF SpawnFeeder, Run
    <2>5. CASE SpawnWaiter(r)
      BY <1>0, <2>5 DEF SpawnWaiter, Run, Background
    <2>6. CASE Await(r)
      BY <1>0, <2>6 DEF Await, Go, Run
    <2>7. CASE Check(r)
      BY <1>0, <2>7 DEF Check, Go, Run
    <2>8. CASE Complete(r)
      BY <1>0, <2>8 DEF Complete, Go, Run
    <2>9. CASE FinishRun(r)
      BY <1>0, <2>9 DEF FinishRun, Go, Run
    <2>10. CASE Answer(r)
      BY <1>0, <2>10 DEF Answer, Go, Run
    <2> QED BY <2>1, <2>2, <2>3, <2>4, <2>5, <2>6, <2>7, <2>8, <2>9, <2>10 DEF RunStep
  <1>2. CASE worker' = worker
    <2>1. WorkersSound'
      BY <1>2 DEF Typed, WorkersSound
    <2> QED BY <1>0, <1>1, <1>2, <2>1
        DEF RunStep, Begin, MarkRunning, SpawnWorker, SpawnFeeder, SpawnWaiter, Await, Check,
            Complete, FinishRun, Answer, stored, history
  <1>3. CASE \E w \in Workers : 
               /\ SpawnWorker(r)
               /\ worker' = [worker EXCEPT ![w] = [Asleep EXCEPT !.at = "take", !.run = r]]
    <2>1. PICK w \in Workers :
            /\ SpawnWorker(r)
            /\ worker' = [worker EXCEPT ![w] = [Asleep EXCEPT !.at = "take", !.run = r]]
      BY <1>3
    <2>2. /\ [Asleep EXCEPT !.at = "take", !.run = r] \in Worker
          /\ [Asleep EXCEPT !.at = "take", !.run = r].at = "take"
          /\ [Asleep EXCEPT !.at = "take", !.run = r].run = r
          /\ [Asleep EXCEPT !.at = "take", !.run = r].task = NoTask
      BY DEF Asleep, Worker
    <2>3. worker' \in [Workers -> Worker] /\ WorkersSound'
      BY <1>0, <2>1, <2>2 DEF Typed, WorkersSound
    <2> QED BY <1>1, <2>1, <2>3 DEF SpawnWorker, stored, history
  <1> QED BY <1>2, <1>3
      DEF RunStep, Begin, MarkRunning, SpawnWorker, SpawnFeeder, SpawnWaiter, Await, Check,
          Complete, FinishRun, Answer

\* The step of a run keeps the types.
LEMMA TypedRun ==
    ASSUME Typed, NEW r \in Runs, RunStep(r)
    PROVE  Typed'
  <1>0. run \in [Runs -> Run] /\ run[r] \in Run
    BY DEF Typed, TypeOK
  <1>1. /\ run' \in [Runs -> Run]
        /\ \A q \in Runs \ {r} : run'[q] = run[q]
        /\ WorkersSound' /\ worker' \in [Workers -> Worker]
        /\ UNCHANGED <<setting, task, unanswered, phase, misasked, counts>>
    BY RunMoves
  <1>2. /\ owner' \in Runs \cup {NoRun}
        /\ \A q \in Runs : run'[q].at \notin {"idle", "begin", "answer", "refuse"} => owner' = q
    <2>1. CASE Begin(r)
      <3>1. run'[r].at = IF owner # NoRun THEN "refuse" ELSE "mark"
        BY <1>0, <2>1 DEF Begin, Go, Run
      <3>2. IF owner # NoRun THEN owner' = owner ELSE owner' = r
        BY <2>1 DEF Begin
      <3>3. /\ owner \in Runs \cup {NoRun}
            /\ \A q \in Runs : run[q].at \notin {"idle", "begin", "answer", "refuse"} => owner = q
        BY DEF Typed, TypeOK
      <3>4. CASE owner = NoRun
        <4>1. \A q \in Runs : run[q].at \in {"idle", "begin", "answer", "refuse"}
          BY <3>3, <3>4, TaskGroupAssumption
        <4> QED BY <1>1, <3>1, <3>2, <3>4, <4>1
      <3>5. CASE owner # NoRun
        BY <1>1, <3>1, <3>2, <3>3, <3>5
      <3> QED BY <3>4, <3>5
    <2>2. CASE FinishRun(r)
      <3>1. run'[r].at \in {"idle", "answer"}
        BY <1>0, <2>2 DEF FinishRun, Go, Run
      <3>2. run[r].at \in {"finish", "leave"} /\ owner' = NoRun
        BY <2>2 DEF FinishRun
      <3>3. \A q \in Runs \ {r} : run[q].at \in {"idle", "begin", "answer", "refuse"}
        BY <3>2 DEF Typed, TypeOK
      <3> QED BY <1>1, <3>1, <3>2, <3>3
    <2>3. CASE Answer(r)
      <3>1. run'[r].at = "idle" /\ owner' = owner
        BY <1>0, <2>3 DEF Answer, Go, Run, stored
      <3> QED BY <1>1, <3>1 DEF Typed, TypeOK
    <2>4. CASE ~Begin(r) /\ ~FinishRun(r) /\ ~Answer(r)
      <3>1. run[r].at \in {"mark", "spawn", "wait", "await", "check", "complete"}
            /\ owner' = owner
        BY <2>4 DEF RunStep, MarkRunning, SpawnWorker, SpawnFeeder, SpawnWaiter, Await, Check,
                    Complete, stored
      <3> QED BY <1>1, <3>1 DEF Typed, TypeOK
    <2> QED BY <2>1, <2>2, <2>3, <2>4
  <1>3. group' \in {"pending", "running", "completed"} /\ answers' \in Seq({"result", "refusal"})
    <2>1. answers \in Seq({"result", "refusal"}) /\ group \in {"pending", "running", "completed"}
      BY DEF Typed, TypeOK
    <2>2. answers' = answers \/ \E a \in {"result", "refusal"} : answers' = Append(answers, a)
      BY DEF RunStep, Begin, MarkRunning, SpawnWorker, SpawnFeeder, SpawnWaiter, Await, Check,
             Complete, FinishRun, Answer, history
    <2>3. group' \in {group, "running", "completed"}
      BY DEF RunStep, Begin, MarkRunning, SpawnWorker, SpawnFeeder, SpawnWaiter, Await, Check,
             Complete, FinishRun, Answer, stored
    <2> QED BY <2>1, <2>2, <2>3
  <1> QED BY <1>1, <1>2, <1>3 DEF Typed, TypeOK, counts

\* So does the feeder's.
LEMMA TypedFeeder ==
    ASSUME Typed, NEW r \in Runs, FeederStep(r)
    PROVE  Typed'
  <1> USE DEF Typed, TypeOK
  <1>1. CASE Hand(r)
    <2>1. PICK w \in Crew(r), t \in run[r].left :
            /\ worker[w].at = "take"
            /\ worker' = [worker EXCEPT ![w].at = "start", ![w].task = t]
            /\ run' = [run EXCEPT ![r].left = @ \ {t}]
      BY <1>1 DEF Hand
    <2>2. t \in Tasks /\ w \in Workers
      BY DEF Run, Crew
    <2>3. run' \in [Runs -> Run] /\ \A q \in Runs : run'[q].at = run[q].at
      BY ZenonT(60), <2>1 DEF Run
    <2>4. worker' \in [Workers -> Worker] /\ WorkersSound'
      BY <2>1, <2>2, TaskGroupAssumption DEF Worker, WorkersSound
    <2> QED BY <1>1, <2>3, <2>4 DEF Hand, stored, history, counts
  <1>2. CASE StopFeeding(r)
    BY ZenonT(60), <1>2 DEF StopFeeding, Run, WorkersSound, stored, history, counts
  <1> QED BY <1>1, <1>2 DEF FeederStep

\* A worker that lets its task go sleeps, or takes the next.
LEMMA TypedGiveUp ==
    ASSUME Typed, NEW w \in Workers, worker[w].at # "idle", GiveUp(w)
    PROVE  worker' \in [Workers -> Worker] /\ WorkersSound'
  <1> DEFINE v == [worker[w] EXCEPT !.at = "take", !.task = NoTask, !.open = FALSE]
  <1>1. worker \in [Workers -> Worker] /\ worker[w] \in Worker /\ worker[w].run \in Runs
    BY DEF Typed, TypeOK, WorkersSound
  <1>2. v \in Worker /\ v.at = "take" /\ v.task = NoTask /\ v.run = worker[w].run
    BY <1>1 DEF Worker
  <1>3. worker' = [worker EXCEPT ![w] = v]
    BY <1>1 DEF GiveUp
  <1> HIDE DEF v
  <1> QED BY <1>1, <1>2, <1>3 DEF Typed, WorkersSound

\* A worker that goes on with its task has it still.
LEMMA TypedTurns ==
    ASSUME Typed, NEW w \in Workers, worker[w].at \notin {"idle", "take"},
           NEW step \in {"start", "mark", "call", "turn", "tool", "result", "succeed", "fail"},
           NEW open \in BOOLEAN,
           \/ Turns(w, step)
           \/ worker' = [worker EXCEPT ![w].at = step, ![w].open = open]
    PROVE  worker' \in [Workers -> Worker] /\ WorkersSound'
  BY DEF Typed, TypeOK, Turns, Worker, WorkersSound

\* And so does a worker's.
LEMMA TypedWorker ==
    ASSUME Typed, NEW w \in Workers, WorkerStep(w)
    PROVE  Typed'
  <1> USE DEF Typed, TypeOK
  <1>0. /\ worker[w].at \notin {"idle", "take"} => worker[w].task \in Tasks
        /\ "pending" \in Status /\ "running" \in Status /\ Finished \subseteq Status
    BY DEF WorkersSound, Status, Finished
  <1>1. CASE WorkerEnds(w)
    <2>1. worker' \in [Workers -> Worker] /\ WorkersSound'
      BY <1>1 DEF WorkerEnds, Worker, WorkersSound, Asleep
    <2> QED BY <1>1, <2>1 DEF WorkerEnds, stored, history, counts
  <1>2. CASE StartTask(w)
    BY <1>2, TypedTurns DEF StartTask, stored, history, counts
  <1>3. CASE MarkTask(w)
    <2>1. PICK step \in {"call", "fail"} :
            worker' = [worker EXCEPT ![w].at = step, ![w].open = worker[w].task \in unanswered]
      BY <1>3 DEF MarkTask
    <2> DEFINE open == worker[w].task \in unanswered
    <2>2. worker' \in [Workers -> Worker] /\ WorkersSound'
      <3>1. worker[w].at = "mark" /\ open \in BOOLEAN
        BY <1>3 DEF MarkTask
      <3>2. worker' = [worker EXCEPT ![w].at = step, ![w].open = open]
        BY <2>1
      <3> HIDE DEF open
      <3> QED BY <3>1, <3>2, TypedTurns
    <2>3. task' \in [Tasks -> Status]
      BY <1>0, <1>3 DEF MarkTask
    <2> QED BY <1>3, <2>2, <2>3 DEF MarkTask, history, counts
  <1>4. CASE CallModel(w)
    <2>1. worker' \in [Workers -> Worker] /\ WorkersSound'
      BY <1>4, TypedTurns, TypedGiveUp DEF CallModel
    <2>2. misasked' \in BOOLEAN /\ tools' \in Nat
      BY <1>4 DEF CallModel, Worker
    <2> QED BY <1>4, <2>1, <2>2 DEF CallModel, stored
  <1>5. CASE AppendTurn(w)
    <2>1. worker' \in [Workers -> Worker] /\ WorkersSound'
      BY <1>5, TypedTurns DEF AppendTurn, StoreTranscript
    <2> QED BY <1>0, <1>5, <2>1 DEF AppendTurn, StoreTranscript, history, counts
  <1>6. CASE RunTool(w)
    <2>1. worker' \in [Workers -> Worker] /\ WorkersSound'
      BY <1>6, TypedTurns, TypedGiveUp DEF RunTool
    <2> QED BY <1>6, <2>1 DEF RunTool, stored, history, counts
  <1>7. CASE AppendResult(w)
    <2>1. worker' \in [Workers -> Worker] /\ WorkersSound'
      BY <1>7, TypedTurns DEF AppendResult, StoreTranscript
    <2> QED BY <1>0, <1>7, <2>1 DEF AppendResult, StoreTranscript, history, counts
  <1>8. CASE EndTask(w)
    <2>1. worker' \in [Workers -> Worker] /\ WorkersSound'
      BY <1>8, TypedGiveUp DEF EndTask
    <2>2. task' \in [Tasks -> Status]
      BY <1>0, <1>8 DEF EndTask, Finished
    <2> QED BY <1>8, <2>1, <2>2 DEF EndTask, history, counts
  <1> QED BY <1>1, <1>2, <1>3, <1>4, <1>5, <1>6, <1>7, <1>8 DEF WorkerStep

\* Cancelling changes a flag of the run that holds the group, and nothing else.
LEMMA Cancelling ==
    ASSUME Typed, Cancel
    PROVE  /\ run' \in [Runs -> Run]
           /\ \A r \in Runs :
                /\ run'[r].at = run[r].at /\ run'[r].left = run[r].left
                /\ run'[r].need = run[r].need /\ run'[r].jobs = run[r].jobs
                /\ run'[r].waits = run[r].waits
                /\ run[r].cancelled => run'[r].cancelled
  BY ZenonT(60) DEF Typed, TypeOK, Run, Cancel

\* And so does everything that happens to the group.
LEMMA TypedHappening ==
    ASSUME Typed, \/ \E r \in Runs : Resume(r)
                  \/ StopSession \/ Close \/ CancelAllRuns \/ Restart
    PROVE  Typed'
  <1> USE DEF Typed, TypeOK
  <1>1. ASSUME NEW r \in Runs, Resume(r) PROVE Typed'
    <2>1. \A step \in {"answer", "begin"} :
            [Rest EXCEPT !.at = step] \in Run /\ [Rest EXCEPT !.at = step].at = step
      BY DEF Rest, Run
    <2>2. PICK step \in {"answer", "begin"} :
            run' = [run EXCEPT ![r] = [Rest EXCEPT !.at = step]]
      BY <1>1 DEF Resume
    <2>3. /\ run' \in [Runs -> Run]
          /\ \A q \in Runs : run'[q].at \in {run[q].at, "answer", "begin"}
      BY <2>1, <2>2
    <2>4. WorkersSound'
      BY <1>1 DEF Resume, WorkersSound
    <2> QED BY <1>1, <2>3, <2>4 DEF Resume, stored, history
  <1>2. CASE StopSession
    <2>1. run' \in [Runs -> Run] /\ \A r \in Runs : run'[r].at = run[r].at
      BY <1>2, Cancelling DEF StopSession
    <2> QED BY <1>2, <2>1 DEF StopSession, WorkersSound, stored, history
  <1>3. CASE Close
    BY <1>3 DEF Close, WorkersSound, stored, history, counts
  <1>4. CASE CancelAllRuns
    <2>1. run' \in [Runs -> Run] /\ \A r \in Runs : run'[r].at = run[r].at
      BY <1>4, Cancelling DEF CancelAllRuns
    <2> QED BY <1>4, <2>1 DEF CancelAllRuns, WorkersSound, stored, history, counts
  <1>5. CASE Restart
    BY <1>5, TaskGroupAssumption
    DEF Restart, WorkersSound, stored, history, Rest, Run, Asleep, Worker
  <1> QED BY <1>1, <1>2, <1>3, <1>4, <1>5

LEMMA TypedStep == Typed /\ [Next]_vars => Typed'
  <1> SUFFICES ASSUME Typed, [Next]_vars PROVE Typed'
    OBVIOUS
  <1>1. CASE Next
    BY <1>1, TypedRun, TypedFeeder, TypedWorker, TypedHappening DEF Next
  <1>2. CASE UNCHANGED vars
    BY <1>2 DEF vars, stored, history, counts, Typed, TypeOK, WorkersSound
  <1> QED BY <1>1, <1>2

\* A task group keeps its types (task_runner.go, task_resume.go), for any bounds.
THEOREM TypeCorrect == Spec => []TypeOK
  <1>1. Spec => []Typed
    BY TypedInit, TypedStep, PTL DEF Spec
  <1>2. Typed => TypeOK
    BY DEF Typed
  <1> QED BY <1>1, <1>2, PTL

-----------------------------------------------------------------------------
(* No open tool call, in a group nobody resumed.                           *)

\* A worker's step touches that worker, its task and its transcript alone; its
\* task it keeps or lets go.
LEMMA WorkerMoves ==
    ASSUME Typed, NEW w \in Workers, WorkerStep(w)
    PROVE  /\ UNCHANGED <<setting, group, owner, phase, run, answers, resumes, stops>>
           /\ worker[w].at # "idle"
           /\ \A v \in Workers \ {w} : worker'[v] = worker[v]
           /\ \/ worker'[w].at \in {"take", "idle"} /\ worker'[w].task = NoTask
              \/ worker[w].at # "take" /\ worker'[w].task = worker[w].task
           /\ worker'[w] = Asleep \/ worker'[w].run = worker[w].run
  <1>1. worker \in [Workers -> Worker] /\ worker[w] \in Worker
    BY DEF Typed, TypeOK
  <1>2. CASE WorkerEnds(w)
    BY <1>1, <1>2 DEF WorkerEnds, Asleep, stored, history, counts
  <1>3. CASE StartTask(w)
    BY <1>1, <1>3 DEF StartTask, Turns, Worker, stored, history, counts
  <1>4. CASE MarkTask(w)
    <2>1. PICK step \in {"call", "fail"} :
            worker' = [worker EXCEPT ![w].at = step, ![w].open = worker[w].task \in unanswered]
      BY <1>4 DEF MarkTask
    <2> DEFINE open == worker[w].task \in unanswered
    <2>2. worker' = [worker EXCEPT ![w].at = step, ![w].open = open]
      BY <2>1
    <2> HIDE DEF open
    <2>3. /\ worker'[w].task = worker[w].task /\ worker'[w].run = worker[w].run
          /\ \A v \in Workers \ {w} : worker'[v] = worker[v]
      BY <1>1, <2>2 DEF Worker
    <2> QED BY <1>4, <2>3 DEF MarkTask, history, counts
  <1>5. CASE CallModel(w)
    BY <1>1, <1>5 DEF CallModel, Turns, GiveUp, Worker, stored
  <1>6. CASE AppendTurn(w)
    BY <1>1, <1>6 DEF AppendTurn, StoreTranscript, Worker, history, counts
  <1>7. CASE RunTool(w)
    BY <1>1, <1>7 DEF RunTool, Turns, GiveUp, Worker, stored, history, counts
  <1>8. CASE AppendResult(w)
    BY <1>1, <1>8 DEF AppendResult, StoreTranscript, Worker, history, counts
  <1>9. CASE EndTask(w)
    BY <1>1, <1>9 DEF EndTask, GiveUp, Worker, history, counts
  <1> QED BY <1>2, <1>3, <1>4, <1>5, <1>6, <1>7, <1>8, <1>9 DEF WorkerStep

\* In the hands of such a worker no transcript is open when the model is asked,
\* and none is opened but its own.
LEMMA WorkerAsksClosed ==
    ASSUME Typed, FirstHand, NEW w \in Workers, WorkerStep(w)
    PROVE  /\ ~misasked'
           /\ worker'[w].at = "call" => ~worker'[w].open
           /\ unanswered' \subseteq unanswered \cup {worker[w].task}
           /\ worker'[w].at \in {"start", "mark"} =>
                unanswered' = unanswered /\ worker[w].at = "start"
  <1>1. /\ worker \in [Workers -> Worker] /\ worker[w] \in Worker
        /\ ~misasked
        /\ worker[w].at = "call" => ~worker[w].open
        /\ worker[w].at \in {"start", "mark"} => worker[w].task \notin unanswered
    BY DEF Typed, TypeOK, FirstHand
  <1>2. CASE WorkerEnds(w)
    BY <1>1, <1>2 DEF WorkerEnds, Asleep, stored, history
  <1>3. CASE StartTask(w)
    BY <1>1, <1>3 DEF StartTask, Turns, Worker, stored, history
  <1>4. CASE MarkTask(w)
    <2>1. PICK step \in {"call", "fail"} :
            worker' = [worker EXCEPT ![w].at = step, ![w].open = worker[w].task \in unanswered]
      BY <1>4 DEF MarkTask
    <2>2. worker'[w].at = step /\ worker'[w].open = (worker[w].task \in unanswered)
      BY <1>1, <2>1, Zenon DEF Worker
    <2> QED BY <1>1, <1>4, <2>2 DEF MarkTask, history
  <1>5. CASE CallModel(w)
    BY <1>1, <1>5 DEF CallModel, Turns, GiveUp, Worker, stored
  <1>6. CASE AppendTurn(w)
    BY <1>1, <1>6 DEF AppendTurn, StoreTranscript, Worker, history
  <1>7. CASE RunTool(w)
    BY <1>1, <1>7 DEF RunTool, Turns, GiveUp, Worker, stored, history
  <1>8. CASE AppendResult(w)
    BY <1>1, <1>8 DEF AppendResult, StoreTranscript, Worker, history
  <1>9. CASE EndTask(w)
    BY <1>1, <1>9 DEF EndTask, GiveUp, Worker, history
  <1> QED BY <1>2, <1>3, <1>4, <1>5, <1>6, <1>7, <1>8, <1>9 DEF WorkerStep

LEMMA FirstHandWorker ==
    ASSUME Typed, FirstHand, NEW w \in Workers, WorkerStep(w)
    PROVE  FirstHand'
  <1>1. /\ run' = run /\ owner' = owner /\ worker[w].at # "idle"
        /\ \A v \in Workers \ {w} : worker'[v] = worker[v]
        /\ worker'[w].task \in {NoTask, worker[w].task}
    BY WorkerMoves
  <1>2. /\ ~misasked'
        /\ worker'[w].at = "call" => ~worker'[w].open
        /\ unanswered' \subseteq unanswered \cup {worker[w].task}
        /\ worker'[w].at \in {"start", "mark"} =>
             unanswered' = unanswered /\ worker[w].at = "start"
    BY WorkerAsksClosed
  <1>3. Typed'
    BY TypedWorker
  <1>4. run[FirstRun].at \notin {"begin", "mark"}
    BY <1>1 DEF FirstHand
  <1>5. \A v \in Workers : v # w /\ worker[v].task = worker[w].task => worker[v].task = NoTask
    BY DEF FirstHand
  <1>6. /\ NoTask \notin run[FirstRun].left
        /\ \A v \in Workers : worker[v].at \in {"start", "mark"} => worker[v].task # NoTask
    BY TaskGroupAssumption DEF Typed, TypeOK, Run, FirstRun, WorkersSound
  <1>7. \A v \in Workers :
          /\ worker'[v].task \notin run[FirstRun].left
          /\ worker'[v].at \in {"start", "mark"} => worker'[v].task \notin unanswered'
          /\ worker'[v].at = "call" => ~worker'[v].open
    <2> SUFFICES ASSUME NEW v \in Workers
        PROVE  /\ worker'[v].task \notin run[FirstRun].left
               /\ worker'[v].at \in {"start", "mark"} => worker'[v].task \notin unanswered'
               /\ worker'[v].at = "call" => ~worker'[v].open
      OBVIOUS
    <2>1. CASE v = w
      <3>1. worker'[w].at \in {"start", "mark"} => worker'[w].task = worker[w].task
        BY WorkerMoves
      <3> QED BY <1>1, <1>2, <1>6, <2>1, <3>1 DEF FirstHand
    <2>2. CASE v # w
      BY <1>1, <1>2, <1>5, <1>6, <2>2 DEF FirstHand
    <2> QED BY <2>1, <2>2
  <1>8. run[FirstRun].left \cap unanswered' = {}
    BY <1>2 DEF FirstHand
  <1>9. \A u, v \in Workers :
          u # v /\ worker'[u].task = worker'[v].task => worker'[u].task = NoTask
    BY <1>1 DEF FirstHand
  <1> QED BY <1>1, <1>2, <1>4, <1>7, <1>8, <1>9 DEF FirstHand

LEMMA FirstHandFeeder ==
    ASSUME Typed, FirstHand, NEW r \in Runs, FeederStep(r)
    PROVE  FirstHand'
  <1>1. r = FirstRun
    BY DEF FirstHand, FeederStep, Hand, StopFeeding, Rest
  <1>2. CASE Hand(r)
    <2>1. PICK w \in Crew(r), t \in run[r].left :
            /\ worker[w].at = "take"
            /\ worker' = [worker EXCEPT ![w].at = "start", ![w].task = t]
            /\ run' = [run EXCEPT ![r].left = @ \ {t}]
      BY <1>2 DEF Hand
    <2>2. t \in Tasks /\ w \in Workers /\ t # NoTask
      BY TaskGroupAssumption DEF Typed, TypeOK, Run, Crew
    <2>3. /\ run'[r].left = run[r].left \ {t} /\ run'[r].at = run[r].at
          /\ \A q \in Runs \ {r} : run'[q] = run[q]
      BY <2>1 DEF Typed, TypeOK, Run
    <2>4. /\ worker'[w].task = t /\ worker'[w].at = "start"
          /\ \A v \in Workers \ {w} : worker'[v] = worker[v]
      BY <2>1, <2>2 DEF Typed, TypeOK, Worker
    <2>5. UNCHANGED <<unanswered, misasked, owner>>
      BY <1>2 DEF Hand, stored, history
    <2>6. /\ \A v \in Workers : worker[v].task # t
          /\ t \notin unanswered
      BY <1>1, <2>1 DEF FirstHand
    <2>7. \A v \in Workers :
            /\ worker'[v].task \notin run'[r].left
            /\ worker'[v].at \in {"start", "mark"} => worker'[v].task \notin unanswered
            /\ worker'[v].at = "call" => ~worker'[v].open
      BY <1>1, <2>3, <2>4, <2>6 DEF FirstHand
    <2>8. \A u, v \in Workers :
            u # v /\ worker'[u].task = worker'[v].task => worker'[u].task = NoTask
      BY <2>4, <2>6 DEF FirstHand
    <2>9. run[r].at \notin {"begin", "mark"}
      BY <1>1, <2>1, <2>2 DEF FirstHand
    <2> QED BY <1>1, <2>3, <2>5, <2>7, <2>8, <2>9 DEF FirstHand
  <1>3. CASE StopFeeding(r)
    <2>1. /\ run'[r].left = run[r].left /\ run'[r].at = run[r].at
          /\ \A q \in Runs \ {r} : run'[q] = run[q]
      BY <1>3 DEF StopFeeding, Typed, TypeOK, Run
    <2>2. UNCHANGED <<unanswered, misasked, worker, owner>>
      BY <1>3 DEF StopFeeding, stored, history
    <2> QED BY <1>1, <2>1, <2>2 DEF FirstHand
  <1> QED BY <1>2, <1>3 DEF FeederStep

\* The first run takes the tasks in hand when it marks the group, and then no
\* worker has one and no transcript is open.
LEMMA FirstHandRun ==
    ASSUME Typed, FirstHand, NEW r \in Runs, RunStep(r)
    PROVE  FirstHand'
  <1>0. run[r].at # "idle"
    BY DEF RunStep, Begin, MarkRunning, SpawnWorker, SpawnFeeder, SpawnWaiter, Await, Check,
           Complete, FinishRun, Answer
  <1>1. r = FirstRun /\ run[r] \in Run
    BY <1>0 DEF FirstHand, Typed, TypeOK, Rest
  <1>2. /\ \A q \in Runs \ {r} : run'[q] = run[q]
        /\ UNCHANGED <<unanswered, misasked>>
        /\ owner' \in {NoRun, FirstRun}
    <2>1. owner' \in {owner, NoRun, r}
      BY DEF RunStep, Begin, MarkRunning, SpawnWorker, SpawnFeeder, SpawnWaiter, Await, Check,
             Complete, FinishRun, Answer, stored
    <2> QED BY <1>1, <2>1, RunMoves DEF FirstHand
  <1>3. CASE MarkRunning(r)
    <2>1. worker' = worker /\ \A w \in Workers : worker[w] = Asleep
      BY <1>1, <1>3 DEF MarkRunning, FirstHand, Typed, WorkersSound
    <2>2. Asleep.at = "idle" /\ Asleep.task = NoTask
      BY DEF Asleep
    <2>3. run'[r].left = Unfinished /\ run'[r].at \in {"check", "spawn"}
      BY <1>1, <1>3 DEF MarkRunning, Typed, TypeOK, Run
    <2>4. unanswered = {} /\ NoTask \notin Unfinished
      BY <1>1, <1>3, TaskGroupAssumption DEF FirstHand, MarkRunning, Unfinished
    <2> QED BY <1>1, <1>2, <2>1, <2>2, <2>3, <2>4 DEF FirstHand
  <1>4. CASE SpawnWorker(r)
    <2>1. run'[r].left = run[r].left /\ run'[r].at = "spawn"
      BY <1>1, <1>4 DEF SpawnWorker, Typed, TypeOK, Run
    <2>2. \/ worker' = worker
          \/ \E w \in Workers :
               worker' = [worker EXCEPT ![w] = [Asleep EXCEPT !.at = "take", !.run = r]]
      BY <1>4 DEF SpawnWorker
    <2>3. /\ [Asleep EXCEPT !.at = "take", !.run = r].task = NoTask
          /\ [Asleep EXCEPT !.at = "take", !.run = r].at = "take"
      BY DEF Asleep
    <2>4. \A w \in Workers : \/ worker'[w] = worker[w]
                             \/ worker'[w].task = NoTask /\ worker'[w].at = "take"
      BY <2>2, <2>3 DEF Typed, TypeOK
    <2>5. NoTask \notin run[r].left
      BY <1>1, TaskGroupAssumption DEF Run
    <2> QED BY <1>1, <1>2, <2>1, <2>4, <2>5 DEF FirstHand
  <1>5. CASE ~MarkRunning(r) /\ ~SpawnWorker(r)
    <2>1. worker' = worker
      BY <1>5 DEF RunStep, Begin, SpawnFeeder, SpawnWaiter, Await, Check, Complete, FinishRun, Answer
    <2>2. run'[r].left = run[r].left
      BY <1>1, <1>5 DEF RunStep, Begin, SpawnFeeder, SpawnWaiter, Await, Check, Complete, FinishRun,
                        Answer, Go, Typed, TypeOK, Run
    <2>3. run'[r].at \in {"begin", "mark"} => run[r].at = "begin"
      BY <1>1, <1>5 DEF RunStep, Begin, SpawnFeeder, SpawnWaiter, Await, Check, Complete, FinishRun,
                        Answer, Go, Typed, TypeOK, Run
    <2> QED BY <1>1, <1>2, <2>1, <2>2, <2>3 DEF FirstHand
  <1> QED BY <1>3, <1>4, <1>5

LEMMA FirstHandHappening ==
    ASSUME Typed, FirstHand, StopSession \/ Close \/ CancelAllRuns \/ Restart
    PROVE  FirstHand'
  <1>0. FirstRun \in Runs
    BY TaskGroupAssumption DEF FirstRun
  <1>1. CASE Close
    BY <1>1 DEF Close, FirstHand, stored, history
  <1>2. CASE Restart
    BY <1>0, <1>2, TaskGroupAssumption DEF Restart, FirstHand, stored, history, Rest, Asleep
  <1>3. CASE StopSession \/ CancelAllRuns
    <2>1. Cancel /\ UNCHANGED <<unanswered, worker, misasked, owner>>
      BY <1>3 DEF StopSession, CancelAllRuns, stored, history
    <2>2. /\ run'[FirstRun].at = run[FirstRun].at /\ run'[FirstRun].left = run[FirstRun].left
          /\ \A r \in Runs \ {FirstRun} : run'[r] = run[r]
      <3>1. owner # NoRun => owner = FirstRun
        BY DEF FirstHand
      <3>2. run'[FirstRun].at = run[FirstRun].at /\ run'[FirstRun].left = run[FirstRun].left
        BY <1>0, <2>1, Cancelling
      <3>3. \A r \in Runs \ {FirstRun} : run'[r] = run[r]
        BY <2>1, <3>1 DEF Cancel, Typed, TypeOK
      <3> QED BY <3>2, <3>3
    <2> QED BY <2>1, <2>2 DEF FirstHand
  <1> QED BY <1>1, <1>2, <1>3

LEMMA UnresumedInit == Init => Unresumed
  <1>1. FirstRun \in Runs
    BY TaskGroupAssumption DEF FirstRun
  <1> QED BY <1>1, TaskGroupAssumption DEF Init, Unresumed, FirstHand, Rest, Asleep

LEMMA UnresumedStep == Typed /\ Unresumed /\ [Next]_vars => Unresumed'
  <1> SUFFICES ASSUME Typed, Unresumed, [Next]_vars, resumes' = 0 PROVE FirstHand'
    BY DEF Unresumed
  <1>1. CASE \E r \in Runs : Resume(r)
    BY <1>1 DEF Resume, Typed, TypeOK
  <1>2. CASE \E r \in Runs : RunStep(r)
    BY <1>2, RunMoves, FirstHandRun DEF Unresumed, counts
  <1>3. CASE \E r \in Runs : FeederStep(r)
    BY <1>3, FirstHandFeeder DEF Unresumed, FeederStep, Hand, StopFeeding, counts
  <1>4. CASE \E w \in Workers : WorkerStep(w)
    BY <1>4, WorkerMoves, FirstHandWorker DEF Unresumed
  <1>5. CASE StopSession \/ Close \/ CancelAllRuns \/ Restart
    BY <1>5, FirstHandHappening DEF Unresumed, StopSession, Close, CancelAllRuns, Restart, counts
  <1>6. CASE UNCHANGED vars
    BY <1>6 DEF vars, stored, history, counts, Unresumed, FirstHand
  <1> QED BY <1>1, <1>2, <1>3, <1>4, <1>5, <1>6 DEF Next

\* A sub-agent's model is never asked with a tool call left without result
\* (runAgentTask) in a group that nobody resumes, whatever is stopped, closed and
\* started anew.
THEOREM AsksClosed == Spec => []ProviderInvariant
  <1>1. Spec => [](Typed /\ Unresumed)
    BY TypedInit, TypedStep, UnresumedInit, UnresumedStep, PTL DEF Spec
  <1>2. Unresumed => ProviderInvariant
    BY DEF Unresumed, FirstHand, ProviderInvariant
  <1> QED BY <1>1, <1>2, PTL

-----------------------------------------------------------------------------
(* The group of a patient user.                                            *)

\* While a run is there, no other is, and every worker at work is its own.
LEMMA Alone ==
    ASSUME IInv, NEW r \in Runs, Live(r)
    PROVE  /\ \A q \in Runs \ {r} : run[q].at = "idle" /\ run[q].jobs # "fed"
           /\ owner \in {NoRun, r}
           /\ \A w \in Workers : worker[w].at # "idle" => worker[w].run = r
  <1>1. \A q \in Runs \ {r} : ~Live(q)
    BY DEF IInv, Orderly, OneRun
  <1>2. owner \in {NoRun, r}
    BY <1>1 DEF IInv, Orderly, Proper, Typed, TypeOK, Live
  <1>3. ASSUME NEW w \in Workers, worker[w].at # "idle" PROVE worker[w].run = r
    BY <1>1, <1>3 DEF IInv, Typed, WorkersSound, Live, Abandoned, Crew
  <1> QED BY <1>1, <1>2, <1>3 DEF Live, Abandoned

\* As long as it is the only one, nothing is to be shown of the others.
LEMMA StillAlone ==
    ASSUME Typed', NEW r \in Runs, owner' \in {NoRun, r},
           \A q \in Runs \ {r} : run'[q].at = "idle" /\ run'[q].jobs # "fed",
           \A w \in Workers : worker'[w].at # "idle" => worker'[w].run = r
    PROVE  OneRun' /\ \A q \in Runs \ {r} : Proper(q)'
  <1>1. \A q \in Runs \ {r} : Crew(q)' = {}
    BY TaskGroupAssumption DEF Crew, Typed, WorkersSound, Asleep
  <1>2. \A q \in Runs \ {r} : ~Live(q)'
    BY <1>1 DEF Live, Abandoned
  <1>3. OneRun'
    BY <1>2 DEF OneRun
  <1>4. \A q \in Runs \ {r} : Proper(q)'
    BY <1>2, TaskGroupAssumption DEF Proper, Accounted
  <1> QED BY <1>3, <1>4

\* A group whose goroutines have all come to their end has its workers asleep.
LEMMA AllAsleep ==
    ASSUME Typed, \A r \in Runs : Crew(r) = {}
    PROVE  \A w \in Workers : worker[w] = Asleep /\ worker[w].task = NoTask
                              /\ worker[w].at = "idle" /\ worker[w].run = NoRun
  <1>0. Asleep.task = NoTask /\ Asleep.at = "idle" /\ Asleep.run = NoRun
    BY DEF Asleep
  <1> SUFFICES ASSUME NEW w \in Workers, worker[w] # Asleep
      PROVE  FALSE
    BY <1>0
  <1>1. worker[w].run \in Runs
    BY DEF Typed, WorkersSound
  <1>2. w \in Crew(worker[w].run)
    BY DEF Crew
  <1> QED BY <1>1, <1>2

\* A run changes what workers have in hand at no step; it only wakes one.
LEMMA HandsOfRun ==
    ASSUME IInv, NEW r \in Runs, RunStep(r)
    PROVE  /\ \A w \in Workers :
                \/ worker'[w] = worker[w]
                \/ /\ worker[w] = Asleep
                   /\ worker'[w].run = r /\ worker'[w].task = NoTask /\ worker'[w].at = "take"
           /\ Unfinished' = Unfinished
  <1>1. Unfinished' = Unfinished
    BY RunMoves DEF IInv, Unfinished
  <1>2. CASE worker' = worker
    BY <1>1, <1>2
  <1>3. CASE \E w \in Workers :
               /\ worker[w] = Asleep
               /\ worker' = [worker EXCEPT ![w] = [Asleep EXCEPT !.at = "take", !.run = r]]
    <2>1. /\ [Asleep EXCEPT !.at = "take", !.run = r].at = "take"
          /\ [Asleep EXCEPT !.at = "take", !.run = r].run = r
          /\ [Asleep EXCEPT !.at = "take", !.run = r].task = NoTask
      BY DEF Asleep
    <2> QED BY <1>1, <1>3, <2>1 DEF IInv, Typed, TypeOK
  <1> QED BY <1>2, <1>3
      DEF RunStep, Begin, MarkRunning, SpawnWorker, SpawnFeeder, SpawnWaiter, Await, Check,
          Complete, FinishRun, Answer

\* A run stays proper.
LEMMA ProperRun ==
    ASSUME IInv, NEW r \in Runs, RunStep(r)
    PROVE  Proper(r)' /\ (answers' # <<>> => group' = "completed") /\ CompletedIsDone'
  <1>0. /\ run \in [Runs -> Run] /\ run[r] \in Run
        /\ Proper(r) /\ Settled
        /\ owner \in Runs \cup {NoRun}
        /\ r # NoRun
    BY TaskGroupAssumption DEF IInv, Typed, TypeOK, Orderly
  <1>1. run[r].at # "idle" /\ Live(r)
    BY DEF Live, RunStep, Begin, MarkRunning, SpawnWorker, SpawnFeeder,
           SpawnWaiter, Await, Check, Complete, FinishRun, Answer
  <1>2. owner \in {NoRun, r} /\ answers = <<>>
    BY <1>0, <1>1, Alone DEF Proper
  <1>3. Unfinished' = Unfinished /\ UNCHANGED <<setting, phase>>
    BY HandsOfRun, RunMoves DEF IInv
  <1>4. run[r].left \subseteq Unfinished
    BY <1>0, <1>1 DEF Proper
  <1>5. CASE Begin(r)
    <2>1. owner = NoRun
      BY <1>0, <1>2, <1>5 DEF Begin, Proper
    <2>2. /\ run'[r].at = "mark" /\ run'[r].left = run[r].left /\ run'[r].jobs = run[r].jobs
          /\ run'[r].cancelled = run[r].cancelled
      BY <1>0, <1>5, <2>1 DEF Begin, Go, Run
    <2>3. Crew(r)' = Crew(r) /\ owner' = r /\ UNCHANGED <<group, answers>>
      BY <1>5, <2>1 DEF Begin, Crew, stored, history
    <2> QED BY <1>0, <1>2, <1>3, <1>4, <1>5, <2>2, <2>3
            DEF Begin, Proper, Settled, CompletedIsDone, Abandoned, Accounted
  <1>6. CASE MarkRunning(r)
    <2>1. Unfinished \subseteq Tasks /\ Fewer(WorkerCount, Cardinality(Unfinished)) \in Nat
      BY NeedOfUnfinished DEF Unfinished
    <2>2. Unfinished # {} => Fewer(WorkerCount, Cardinality(Unfinished)) > 0
      BY NeedOfUnfinished DEF Unfinished
    <2>3. /\ run'[r].at = IF Unfinished = {} THEN "check" ELSE "spawn"
          /\ run'[r].left = Unfinished /\ run'[r].jobs = run[r].jobs
          /\ run'[r].cancelled = run[r].cancelled
          /\ run'[r].need = Fewer(WorkerCount, Cardinality(Unfinished))
      BY <1>0, <1>6, <2>1 DEF MarkRunning, Run
    <2>4. group' = "running" /\ UNCHANGED <<owner, answers>> /\ owner = r
      BY <1>0, <1>6 DEF MarkRunning, history, IInv, Typed, TypeOK
    <2>5. phase = "open" /\ ~run[r].cancelled => run[r].jobs = "unfed"
      BY <1>0, <1>6 DEF MarkRunning, Proper, Accounted
    <2>6. Proper(r)'
      BY <1>2, <1>3, <2>2, <2>3, <2>4, <2>5 DEF Proper, Accounted
    <2> QED BY <1>2, <2>4, <2>6 DEF CompletedIsDone
  <1>7. CASE SpawnWorker(r)
    <2>1. /\ run'[r].at = "spawn" /\ run'[r].left = run[r].left /\ run'[r].jobs = run[r].jobs
          /\ run'[r].cancelled = run[r].cancelled
      BY <1>0, <1>7 DEF SpawnWorker, Run
    <2>2. UNCHANGED <<owner, group, answers>> /\ owner = r
      BY <1>0, <1>7 DEF SpawnWorker, stored, history, IInv, Typed, TypeOK
    <2>3. ASSUME phase = "open", ~run[r].cancelled PROVE Accounted(r)'
      <3>1. /\ run[r].jobs = "unfed"
            /\ Unfinished \subseteq run[r].left \cup {worker[w].task : w \in Crew(r)}
        BY <1>0, <1>7, <2>3 DEF SpawnWorker, Proper, Accounted
      <3>2. PICK w \in Workers :
              /\ worker[w] = Asleep
              /\ worker' = [worker EXCEPT ![w] = [Asleep EXCEPT !.at = "take", !.run = r]]
        BY <1>7, <2>3 DEF SpawnWorker, Background
      <3>3. worker'[w].run = r
        BY <3>2 DEF IInv, Typed, TypeOK, Asleep
      <3>4. \A v \in Crew(r) : v \in Crew(r)' /\ worker'[v] = worker[v]
        BY <1>0, <3>2 DEF Crew, IInv, Typed, TypeOK, Asleep
      <3>5. {worker[v].task : v \in Crew(r)} \subseteq {worker'[v].task : v \in Crew(r)'}
        BY <3>4
      <3>6. Crew(r)' # {}
        BY <3>3 DEF Crew
      <3> QED BY <1>3, <2>1, <3>1, <3>5, <3>6 DEF Accounted
    <2>4. Proper(r)'
      BY <1>2, <1>3, <1>4, <2>1, <2>2, <2>3 DEF Proper
    <2> QED BY <1>0, <1>2, <1>3, <2>2, <2>4 DEF Settled, CompletedIsDone
  <1>8. CASE SpawnFeeder(r)
    <2>1. /\ run'[r].at = "wait" /\ run'[r].left = run[r].left /\ run'[r].need = 0
          /\ run[r].at = "spawn" /\ run[r].need = 0
          /\ run'[r].cancelled = run[r].cancelled
          /\ phase = "open" => run'[r].jobs = "fed"
      BY <1>0, <1>8 DEF SpawnFeeder, Run, Background
    <2>2. UNCHANGED <<owner, group, answers, worker>> /\ owner = r
      BY <1>0, <1>8 DEF SpawnFeeder, stored, history, IInv, Typed, TypeOK
    <2>3. Crew(r)' = Crew(r) /\ \A w \in Crew(r) : worker'[w] = worker[w]
      BY <2>2 DEF Crew
    <2>4. ASSUME phase = "open", ~run[r].cancelled PROVE Accounted(r)'
      <3>1. /\ run[r].jobs = "unfed" /\ Crew(r) # {}
            /\ Unfinished \subseteq run[r].left \cup {worker[w].task : w \in Crew(r)}
        BY <1>0, <2>1, <2>4 DEF Proper, Accounted
      <3> QED BY <1>3, <2>1, <2>2, <2>3, <2>4, <3>1 DEF Accounted
    <2>5. Proper(r)'
      BY <1>2, <1>3, <1>4, <2>1, <2>2, <2>4 DEF Proper
    <2> QED BY <1>0, <1>2, <1>3, <2>2, <2>5 DEF Settled, CompletedIsDone
  <1>9. CASE SpawnWaiter(r)
    <2>1. /\ run'[r].at = "await" /\ run'[r].left = run[r].left /\ run'[r].need = run[r].need
          /\ run[r].at = "wait" /\ run'[r].jobs = run[r].jobs
          /\ run'[r].cancelled = run[r].cancelled
          /\ phase = "open" => run'[r].waits
      BY <1>0, <1>9 DEF SpawnWaiter, Run, Background
    <2>2. UNCHANGED <<owner, group, answers, worker>> /\ owner = r
      BY <1>0, <1>9 DEF SpawnWaiter, stored, history, IInv, Typed, TypeOK
    <2>3. Crew(r)' = Crew(r)
      BY <2>2 DEF Crew
    <2>4. ASSUME phase = "open", ~run[r].cancelled PROVE Accounted(r)'
      <3>1. Accounted(r)
        BY <1>0, <2>4 DEF Proper
      <3> QED BY <1>3, <2>1, <2>2, <2>3, <2>4, <3>1 DEF Accounted
    <2>5. Proper(r)'
      BY <1>2, <1>3, <1>4, <2>1, <2>2, <2>4 DEF Proper
    <2> QED BY <1>0, <1>2, <1>3, <2>2, <2>5 DEF Settled, CompletedIsDone
  <1>10. CASE Await(r)
    <2>1. /\ \/ run'[r].at = "leave"
             \/ run'[r].at = "check" /\ (run[r].waits => Crew(r) = {})
          /\ run'[r].left = run[r].left /\ run'[r].cancelled = run[r].cancelled
          /\ run[r].at = "await"
      <3>1. run[r].at = "await"
        BY <1>10 DEF Await
      <3>2. CASE Go(r, "leave")
        BY <1>0, <3>1, <3>2 DEF Go, Run
      <3>3. CASE (run[r].waits => Crew(r) = {}) /\ Go(r, "check")
        BY <1>0, <3>1, <3>3 DEF Go, Run
      <3> QED BY <1>10, <3>2, <3>3 DEF Await
    <2>2. UNCHANGED <<owner, group, answers>> /\ owner = r
      BY <1>0, <1>10 DEF Await, stored, history, IInv, Typed, TypeOK
    <2>3. ASSUME phase = "open", ~run[r].cancelled PROVE Accounted(r)'
      <3>1. Accounted(r)
        BY <1>0, <2>3 DEF Proper
      <3>2. CASE run'[r].at = "check"
        <4>1. Crew(r) = {} /\ run[r].jobs = "closed" /\ run[r].left = {}
          BY <2>1, <3>1, <3>2 DEF Accounted
        <4>2. Unfinished = {}
          BY <2>1, <3>1, <4>1 DEF Accounted
        <4> QED BY <1>3, <3>2, <4>2 DEF Accounted
      <3> QED BY <2>1, <3>2 DEF Accounted
    <2>4. Proper(r)'
      BY <1>2, <1>3, <1>4, <2>1, <2>2, <2>3 DEF Proper
    <2> QED BY <1>0, <1>2, <1>3, <2>2, <2>4 DEF Settled, CompletedIsDone
  <1>11. CASE Check(r)
    <2>1. /\ run'[r].at = IF run[r].cancelled THEN "leave" ELSE "complete"
          /\ run'[r].left = run[r].left /\ run'[r].cancelled = run[r].cancelled
          /\ run[r].at = "check"
      BY <1>0, <1>11 DEF Check, Go, Run
    <2>2. UNCHANGED <<owner, group, answers>> /\ owner = r
      BY <1>0, <1>11 DEF Check, stored, history, IInv, Typed, TypeOK
    <2>3. phase = "open" /\ ~run[r].cancelled => Unfinished = {}
      BY <1>0, <2>1 DEF Proper, Accounted
    <2>4. Proper(r)'
      BY <1>2, <1>3, <1>4, <2>1, <2>2, <2>3 DEF Proper, Accounted
    <2> QED BY <1>0, <1>2, <1>3, <2>2, <2>4 DEF Settled, CompletedIsDone
  <1>12. CASE Complete(r)
    <2>1. /\ run'[r].at = "finish" /\ run[r].at = "complete"
          /\ run'[r].left = run[r].left /\ run'[r].cancelled = run[r].cancelled
      BY <1>0, <1>12 DEF Complete, Go, Run
    <2>2. UNCHANGED <<owner, answers>> /\ owner = r /\ group' = "completed"
      BY <1>0, <1>12 DEF Complete, history, IInv, Typed, TypeOK
    <2>3. phase = "open" => Unfinished = {}
      BY <1>0, <2>1 DEF Proper
    <2>4. Proper(r)'
      BY <1>2, <1>3, <1>4, <2>1, <2>2, <2>3 DEF Proper, Accounted
    <2> QED BY <1>2, <1>3, <2>2, <2>3, <2>4 DEF CompletedIsDone
  <1>13. CASE FinishRun(r)
    <2>1. /\ run'[r].at = IF run[r].at = "finish" THEN "answer" ELSE "idle"
          /\ run'[r].left = run[r].left /\ run'[r].cancelled = run[r].cancelled
      BY <1>0, <1>13 DEF FinishRun, Go, Run
    <2>2. UNCHANGED <<group, answers>> /\ owner' = NoRun
      BY <1>13 DEF FinishRun, stored, history
    <2>3. run[r].at = "finish" => group = "completed"
      BY <1>0 DEF Proper
    <2>4. Proper(r)'
      BY <1>0, <1>2, <1>3, <1>4, <2>1, <2>2, <2>3 DEF Proper, Accounted
    <2> QED BY <1>0, <1>2, <1>3, <2>2, <2>4 DEF Settled, CompletedIsDone
  <1>14. CASE Answer(r)
    <2>1. /\ run'[r].at = "idle" /\ run[r].at = "answer"
          /\ run'[r].left = run[r].left /\ run'[r].cancelled = run[r].cancelled
      BY <1>0, <1>14 DEF Answer, Go, Run, Proper
    <2>2. UNCHANGED <<owner, group>> /\ owner # r /\ group = "completed"
      BY <1>0, <1>14, <2>1 DEF Answer, stored, Proper
    <2>3. Proper(r)'
      BY <1>3, <1>4, <2>1, <2>2 DEF Proper, Accounted
    <2> QED BY <1>0, <1>3, <2>2, <2>3 DEF Settled, CompletedIsDone
  <1> QED BY <1>5, <1>6, <1>7, <1>8, <1>9, <1>10, <1>11, <1>12, <1>13, <1>14 DEF RunStep

LEMMA OrderlyRun ==
    ASSUME IInv, NEW r \in Runs, RunStep(r)
    PROVE  Orderly'
  <1>0. Typed /\ Live(r) /\ run[r].at # "idle"
    BY DEF IInv, Live, RunStep, Begin, MarkRunning, SpawnWorker, SpawnFeeder, SpawnWaiter, Await, Check,
           Complete, FinishRun, Answer
  <1>1. /\ \A q \in Runs \ {r} : run[q].at = "idle" /\ run[q].jobs # "fed"
        /\ owner \in {NoRun, r}
        /\ \A w \in Workers : worker[w].at # "idle" => worker[w].run = r
    BY <1>0, Alone
  <1>2. /\ \A w \in Workers :
             \/ worker'[w] = worker[w]
             \/ worker'[w].run = r /\ worker'[w].task = NoTask
        /\ Unfinished' = Unfinished
    BY HandsOfRun
  <1>3. /\ \A q \in Runs \ {r} : run'[q] = run[q]
        /\ UNCHANGED <<setting, phase>>
    BY <1>0, RunMoves
  <1>4. owner' \in {NoRun, r}
    BY <1>1, <1>3 DEF RunStep, Begin, MarkRunning, SpawnWorker, SpawnFeeder, SpawnWaiter, Await, Check,
                Complete, FinishRun, Answer, stored
  <1>5. OneRun' /\ \A q \in Runs \ {r} : Proper(q)'
    BY <1>0, <1>1, <1>2, <1>3, <1>4, TypedRun, StillAlone
  <1>6. /\ Proper(r)' /\ CompletedIsDone'
        /\ answers' # <<>> => group' = "completed"
    BY ProperRun
  <1>7. Settled'
    BY <1>3, <1>6 DEF IInv, Orderly, Settled
  <1>8. InHand'
    <2>1. ASSUME NEW w \in Workers, worker'[w].task # NoTask
          PROVE  worker'[w].task \in Unfinished /\ worker'[w].task \notin run'[worker'[w].run].left
      <3>1. worker'[w] = worker[w]
        BY <1>2, <2>1
      <3>2. worker[w].run = r
        BY <1>0, <1>1, <2>1, <3>1 DEF Typed, WorkersSound
      <3>3. CASE MarkRunning(r)
        BY <1>0, <3>1, <3>2, <3>3, <2>1 DEF MarkRunning, IInv, Orderly, Proper, Abandoned, Crew
      <3>4. CASE ~MarkRunning(r)
        <4>1. run'[r].left = run[r].left
          BY <1>0, <3>4 DEF RunStep, Begin, SpawnWorker, SpawnFeeder, SpawnWaiter, Await, Check,
                 Complete, FinishRun, Answer, Go, Typed, TypeOK, Run
        <4> QED BY <2>1, <3>1, <3>2, <4>1 DEF IInv, Orderly, InHand
      <3> QED BY <3>3, <3>4
    <2>2. \A v, w \in Workers :
            v # w /\ worker'[v].task = worker'[w].task => worker'[v].task = NoTask
      BY <1>2 DEF IInv, Orderly, InHand
    <2> QED BY <1>2, <2>1, <2>2 DEF InHand
  <1> QED BY <1>5, <1>6, <1>7, <1>8 DEF Orderly

\* The feeder hands a task from the run to a worker, or ends.
LEMMA OrderlyFeeder ==
    ASSUME IInv, NEW r \in Runs, FeederStep(r)
    PROVE  Orderly'
  <1>0. /\ Typed /\ Typed' /\ run \in [Runs -> Run] /\ worker \in [Workers -> Worker]
        /\ run[r].jobs = "fed" /\ Live(r)
        /\ UNCHANGED <<setting, task, group, owner, phase, answers>>
    BY TypedFeeder
    DEF IInv, Typed, TypeOK, Live, Abandoned, FeederStep, Hand, StopFeeding, stored, history
  <1>1. /\ \A q \in Runs \ {r} : run[q].at = "idle" /\ run[q].jobs # "fed"
        /\ owner \in {NoRun, r}
        /\ \A w \in Workers : worker[w].at # "idle" => worker[w].run = r
    BY <1>0, Alone
  <1>2. /\ Proper(r) /\ InHand /\ Settled
        /\ run[r].left \subseteq Unfinished
        /\ run[r].at \notin {"begin", "mark", "spawn"} \/ phase # "open" \/ run[r].cancelled
        /\ run[r].at \notin {"begin", "mark"}
    BY <1>0 DEF IInv, Orderly, Proper, Accounted, Abandoned
  <1>3. Unfinished' = Unfinished
    BY <1>0 DEF Unfinished
  <1>4. Settled'
    BY <1>0, <1>2, <1>3 DEF Settled, CompletedIsDone
  <1>5. CASE Hand(r)
    <2>1. PICK w \in Crew(r), t \in run[r].left :
            /\ worker[w].at = "take"
            /\ worker' = [worker EXCEPT ![w].at = "start", ![w].task = t]
            /\ run' = [run EXCEPT ![r].left = @ \ {t}]
      BY <1>5 DEF Hand
    <2>2. w \in Workers /\ worker[w].run = r /\ worker[w].task = NoTask /\ t # NoTask
      BY <1>0, <2>1, TaskGroupAssumption DEF Crew, Typed, WorkersSound, Run
    <2>3. /\ run'[r].left = run[r].left \ {t} /\ run'[r].at = run[r].at
          /\ run'[r].jobs = run[r].jobs /\ run'[r].need = run[r].need
          /\ run'[r].waits = run[r].waits /\ run'[r].cancelled = run[r].cancelled
          /\ \A q \in Runs \ {r} : run'[q] = run[q]
      BY <1>0, <2>1 DEF Run
    <2>4. /\ worker'[w].task = t /\ worker'[w].run = r
          /\ \A v \in Workers \ {w} : worker'[v] = worker[v]
      BY <1>0, <2>1, <2>2 DEF Worker
    <2>5. OneRun' /\ \A q \in Runs \ {r} : Proper(q)'
      BY <1>0, <1>1, <2>2, <2>3, <2>4, StillAlone
    <2>6. \A v \in Workers : worker[v].task # t
      BY <1>0, <1>1, <1>2, <2>1, <2>2 DEF InHand, Typed, WorkersSound
    <2>7. InHand'
      <3>1. ASSUME NEW v \in Workers, worker'[v].task # NoTask
            PROVE  worker'[v].task \in Unfinished /\ worker'[v].task \notin run'[worker'[v].run].left
        <4>1. CASE v = w
          BY <1>2, <2>1, <2>3, <2>4, <4>1
        <4>2. CASE v # w
          <5>1. worker'[v] = worker[v] /\ worker[v].run = r
            BY <1>0, <1>1, <2>4, <3>1, <4>2 DEF Typed, WorkersSound
          <5> QED BY <1>2, <2>3, <3>1, <5>1 DEF InHand
        <4> QED BY <4>1, <4>2
      <3>2. \A u, v \in Workers :
              u # v /\ worker'[u].task = worker'[v].task => worker'[u].task = NoTask
        BY <1>2, <2>4, <2>6 DEF InHand
      <3> QED BY <1>3, <3>1, <3>2 DEF InHand
    <2>8. Crew(r)' = Crew(r)
      BY <2>2, <2>4 DEF Crew
    <2>9. ASSUME phase = "open", ~run[r].cancelled PROVE Accounted(r)'
      <3>1. Accounted(r)
        BY <1>2, <2>9 DEF Proper
      <3>2. run[r].left \cup {worker[v].task : v \in Crew(r)}
              \subseteq run'[r].left \cup {worker'[v].task : v \in Crew(r)'} \cup {NoTask}
        <4>1. t \in {worker'[v].task : v \in Crew(r)'}
          BY <2>1, <2>4, <2>8
        <4>2. ASSUME NEW v \in Crew(r)
              PROVE  worker[v].task \in {worker'[u].task : u \in Crew(r)'} \cup {NoTask}
          <5>1. CASE v = w
            BY <2>2, <5>1
          <5>2. CASE v # w
            BY <2>4, <2>8, <5>2 DEF Crew
          <5> QED BY <5>1, <5>2
        <4> QED BY <2>3, <4>1, <4>2
      <3>3. NoTask \notin Unfinished
        BY TaskGroupAssumption DEF Unfinished
      <3> QED BY <1>2, <1>3, <2>3, <2>8, <2>9, <3>1, <3>2, <3>3 DEF Accounted
    <2>10. Proper(r)'
      BY <1>0, <1>2, <1>3, <2>3, <2>9 DEF Proper
    <2> QED BY <1>4, <2>5, <2>7, <2>10 DEF Orderly
  <1>6. CASE StopFeeding(r)
    <2>1. /\ run'[r].left = run[r].left /\ run'[r].at = run[r].at
          /\ run'[r].jobs = "closed" /\ run'[r].need = run[r].need
          /\ run'[r].waits = run[r].waits /\ run'[r].cancelled = run[r].cancelled
          /\ \A q \in Runs \ {r} : run'[q] = run[q]
          /\ run[r].left = {} \/ run[r].cancelled
      BY <1>0, <1>6 DEF StopFeeding, Run
    <2>2. worker' = worker
      BY <1>6 DEF StopFeeding
    <2>3. OneRun' /\ \A q \in Runs \ {r} : Proper(q)'
      BY <1>0, <1>1, <2>1, <2>2, StillAlone
    <2>4. InHand'
      <3>1. \A w \in Workers : worker[w].task # NoTask => worker[w].run = r
        BY <1>0, <1>1 DEF Typed, WorkersSound
      <3> QED BY <1>2, <1>3, <2>1, <2>2, <3>1 DEF InHand
    <2>5. Crew(r)' = Crew(r)
      BY <2>2 DEF Crew
    <2>6. ASSUME phase = "open", ~run[r].cancelled PROVE Accounted(r)'
      <3>1. Accounted(r)
        BY <1>2, <2>6 DEF Proper
      <3> QED BY <1>2, <1>3, <2>1, <2>2, <2>5, <2>6, <3>1 DEF Accounted
    <2>7. Proper(r)'
      BY <1>0, <1>2, <1>3, <2>1, <2>6 DEF Proper
    <2> QED BY <1>4, <2>3, <2>4, <2>7 DEF Orderly
  <1> QED BY <1>5, <1>6 DEF FeederStep

\* A worker that goes to sleep does so at a closed channel or a cancelled run,
\* and one that lets its task go has ended it or was cancelled.
LEMMA WorkerLetsGo ==
    ASSUME Typed, NEW w \in Workers, WorkerStep(w)
    PROVE  /\ worker'[w].task # worker[w].task => Cancelled(w) \/ EndTask(w)
           /\ worker'[w].at = "idle" => Cancelled(w) \/ run[worker[w].run].jobs = "closed"
  <1>1. /\ worker \in [Workers -> Worker] /\ worker[w] \in Worker
        /\ worker[w].at = "take" => worker[w].task = NoTask
    BY DEF Typed, TypeOK, WorkersSound
  <1>2. CASE WorkerEnds(w)
    BY <1>1, <1>2 DEF WorkerEnds, Asleep
  <1>3. CASE StartTask(w)
    BY <1>1, <1>3 DEF StartTask, Turns, Worker
  <1>4. CASE MarkTask(w)
    <2>1. PICK step \in {"call", "fail"} :
            worker' = [worker EXCEPT ![w].at = step, ![w].open = worker[w].task \in unanswered]
      BY <1>4 DEF MarkTask
    <2>2. worker'[w].at = step /\ worker'[w].task = worker[w].task
      BY <1>1, <2>1, Zenon DEF Worker
    <2> QED BY <2>2
  <1>5. CASE CallModel(w)
    BY <1>1, <1>5 DEF CallModel, Turns, GiveUp, Worker
  <1>6. CASE AppendTurn(w)
    BY <1>1, <1>6 DEF AppendTurn, StoreTranscript, Worker
  <1>7. CASE RunTool(w)
    BY <1>1, <1>7 DEF RunTool, Turns, GiveUp, Worker
  <1>8. CASE AppendResult(w)
    BY <1>1, <1>8 DEF AppendResult, StoreTranscript, Worker
  <1>9. CASE EndTask(w)
    BY <1>1, <1>9 DEF EndTask, GiveUp, Worker
  <1> QED BY <1>2, <1>3, <1>4, <1>5, <1>6, <1>7, <1>8, <1>9 DEF WorkerStep

\* A worker's step finishes at most its own task, and touches no finished one.
LEMMA WorkerFinishes ==
    ASSUME IInv, NEW w \in Workers, WorkerStep(w)
    PROVE  /\ Unfinished' \subseteq Unfinished
           /\ Unfinished \ Unfinished' \subseteq {worker[w].task}
           /\ EndTask(w) => worker'[w].task = NoTask /\ worker[w].task \notin Unfinished'
           /\ ~EndTask(w) => Unfinished' = Unfinished
           /\ \A t \in Tasks : task[t] \in Finished => task'[t] = task[t]
  <1>1. /\ task \in [Tasks -> Status] /\ worker \in [Workers -> Worker] /\ worker[w] \in Worker
        /\ worker[w].at \notin {"idle", "take"} => worker[w].task \in Tasks
        /\ worker[w].task # NoTask => worker[w].task \in Unfinished
        /\ NoTask \notin Tasks
    BY TaskGroupAssumption DEF IInv, Typed, TypeOK, WorkersSound, Orderly, InHand
  <1>2. CASE ~MarkTask(w) /\ ~EndTask(w)
    <2>1. task' = task
      BY <1>2 DEF WorkerStep, WorkerEnds, StartTask, CallModel, AppendTurn, RunTool, AppendResult, stored
    <2> QED BY <1>2, <2>1 DEF Unfinished
  <1>3. CASE MarkTask(w)
    <2>1. worker[w].task \in Tasks /\ worker[w].task \in Unfinished
      BY <1>1, <1>3 DEF MarkTask
    <2>2. task' = [task EXCEPT ![worker[w].task] = "running"] /\ worker[w].at = "mark"
      BY <1>3 DEF MarkTask
    <2> QED BY <1>1, <2>1, <2>2 DEF Unfinished, Finished, EndTask
  <1>4. CASE EndTask(w)
    <2>1. worker[w].task \in Tasks /\ worker[w].task \in Unfinished
      BY <1>1, <1>4 DEF EndTask
    <2>2. /\ task' = [task EXCEPT ![worker[w].task] =
                        IF worker[w].at = "succeed" THEN "completed" ELSE "failed"]
          /\ worker'[w].task = NoTask
      BY <1>1, <1>4 DEF EndTask, GiveUp, Worker
    <2> QED BY <1>1, <1>4, <2>1, <2>2 DEF Unfinished, Finished
  <1> QED BY <1>2, <1>3, <1>4

LEMMA OrderlyWorker ==
    ASSUME IInv, NEW w \in Workers, WorkerStep(w)
    PROVE  Orderly'
  <1> DEFINE r == worker[w].run
  <1>0. Typed /\ Typed' /\ InHand /\ Settled /\ \A q \in Runs : Proper(q)
    BY TypedWorker DEF IInv, Orderly
  <1>1. /\ UNCHANGED <<setting, group, owner, phase, run, answers>>
        /\ worker[w].at # "idle"
        /\ \A v \in Workers \ {w} : worker'[v] = worker[v]
        /\ worker'[w].task \in {NoTask, worker[w].task}
        /\ worker'[w] = Asleep \/ worker'[w].run = r
    BY <1>0, WorkerMoves
  <1>2. /\ worker'[w].task # worker[w].task => Cancelled(w) \/ EndTask(w)
        /\ worker'[w].at = "idle" => Cancelled(w) \/ run[r].jobs = "closed"
    BY <1>0, WorkerLetsGo
  <1>3. /\ Unfinished' \subseteq Unfinished
        /\ Unfinished \ Unfinished' \subseteq {worker[w].task}
        /\ EndTask(w) => worker'[w].task = NoTask /\ worker[w].task \notin Unfinished'
        /\ ~EndTask(w) => Unfinished' = Unfinished
    BY WorkerFinishes
  <1>4. r \in Runs /\ w \in Crew(r) /\ NoTask \notin Unfinished /\ NoRun \notin Runs
    BY <1>0, <1>1, TaskGroupAssumption DEF Typed, WorkersSound, Crew, Unfinished
  <1>5. /\ Asleep.run = NoRun /\ Asleep.at = "idle"
        /\ \A q \in Runs : Crew(q)' \subseteq Crew(q)
    BY <1>1, <1>4 DEF Crew, Asleep
  <1>6. \A q \in Runs : Live(q)' => Live(q)
    BY <1>1, <1>5 DEF Live, Abandoned
  <1>7. OneRun'
    BY <1>6 DEF IInv, Orderly, OneRun
  <1>8. Live(r)
    BY <1>4 DEF Live, Abandoned
  <1>9. InHand'
    <2>1. ASSUME NEW v \in Workers, worker'[v].task # NoTask
          PROVE  worker'[v].task \in Unfinished' /\ worker'[v].task \notin run'[worker'[v].run].left
      <3>1. CASE v = w
        BY <1>0, <1>1, <1>3, <2>1, <3>1 DEF InHand, Typed, WorkersSound, Asleep
      <3>2. CASE v # w
        BY <1>0, <1>1, <1>3, <2>1, <3>2 DEF InHand
      <3> QED BY <3>1, <3>2
    <2>2. \A u, v \in Workers :
            u # v /\ worker'[u].task = worker'[v].task => worker'[u].task = NoTask
      BY <1>0, <1>1 DEF InHand
    <2> QED BY <2>1, <2>2 DEF InHand
  <1>10. Settled'
    BY <1>0, <1>1, <1>3 DEF Settled, CompletedIsDone
  <1>11. ASSUME NEW q \in Runs PROVE Proper(q)'
    <2>1. Proper(q) /\ (Abandoned(q)' => Abandoned(q))
      BY <1>0, <1>1, <1>5 DEF Abandoned
    <2>2. ASSUME Live(q)' PROVE run[q].left \subseteq Unfinished'
      <3>1. q = r /\ run[q].left \subseteq Unfinished
        BY <1>4, <1>6, <1>8, <2>1, <2>2 DEF IInv, Orderly, OneRun, Proper
      <3>2. worker[w].task \notin run[q].left
        BY <1>0, <3>1, <1>4 DEF InHand
      <3> QED BY <1>3, <3>1, <3>2
    <2>3. ASSUME phase = "open", ~run[q].cancelled PROVE Accounted(q)'
      <3>1. Accounted(q)
        BY <2>1, <2>3 DEF Proper
      <3>2. ASSUME run[q].at \in {"spawn", "wait", "await"}
            PROVE  /\ Unfinished' \subseteq run[q].left \cup {worker'[v].task : v \in Crew(q)'}
                   /\ run[q].need > 0 \/ Crew(q)' # {} \/ run[q].jobs = "closed"
        <4>1. q = r
          BY <1>4, <1>8, <3>2 DEF Live, IInv, Orderly, OneRun
        <4>2. w \in Crew(q)' \/ run[q].jobs = "closed"
          <5>1. worker'[w] = Asleep \/ w \in Crew(q)'
            BY <1>1, <4>1 DEF Crew
          <5> QED BY <1>2, <1>5, <2>3, <4>1, <5>1 DEF Cancelled
        <4>3. ASSUME NEW t \in Unfinished', t \notin run[q].left
              PROVE  t \in {worker'[v].task : v \in Crew(q)'}
          <5>1. PICK v \in Crew(q) : worker[v].task = t
            BY <1>3, <3>1, <3>2, <4>3 DEF Accounted
          <5>2. CASE v = w
            <6>1. worker'[w].task = t
              BY <1>2, <1>3, <2>3, <4>1, <4>3, <5>1, <5>2 DEF Cancelled
            <6>2. w \in Crew(q)'
              BY <1>0, <1>1, <1>3, <1>4, <4>1, <4>3, <6>1 DEF Crew, Asleep
            <6> QED BY <6>1, <6>2
          <5>3. CASE v # w
            BY <1>1, <5>1, <5>3 DEF Crew
          <5> QED BY <5>2, <5>3
        <4> QED BY <4>2, <4>3
      <3>3. run'[q] = run[q]
        BY <1>1
      <3>4. run[q].at = "check" => Unfinished' = {}
        BY <1>3, <3>1 DEF Accounted
      <3> QED BY <3>1, <3>2, <3>3, <3>4 DEF Accounted
    <2>4. UNCHANGED <<owner, run, answers, group, phase>>
      BY <1>1
    <2>5. phase = "open" /\ run[q].at \in {"complete", "finish"} => Unfinished' = {}
      BY <1>3, <2>1 DEF Proper
    <2> QED BY <2>1, <2>2, <2>3, <2>4, <2>5 DEF Proper
  <1> QED BY <1>7, <1>9, <1>10, <1>11 DEF Orderly

\* A group is resumed when no goroutine of an earlier run is left.
LEMMA OrderlyResume ==
    ASSUME Patient, IInv, NEW r \in Runs, Resume(r)
    PROVE  Orderly'
  <1>0. Typed /\ Typed' /\ InHand /\ Settled /\ Proper(r) /\ r # NoRun
    BY TypedHappening, TaskGroupAssumption DEF IInv, Orderly
  <1>1. \A q \in Runs : run[q].at = "idle" /\ ~Abandoned(q)
    <2>1. "hasty" \notin setting
      BY <1>0 DEF Patient, Typed, TypeOK
    <2> QED BY <2>1 DEF Resume
  <1>2. \A w \in Workers : worker[w].at = "idle" /\ worker[w].task = NoTask /\ worker[w].run = NoRun
    BY <1>0, <1>1, AllAsleep DEF Abandoned
  <1>3. /\ owner = NoRun
        /\ UNCHANGED <<setting, task, group, owner, phase, worker, answers>>
        /\ \/ run' = [run EXCEPT ![r] = [Rest EXCEPT !.at = "answer"]]
              /\ group = "completed" /\ answers = <<>>
           \/ run' = [run EXCEPT ![r] = [Rest EXCEPT !.at = "begin"]] /\ group # "completed"
    BY DEF Resume, Undelivered, stored, history
  <1>4. /\ \A step \in {"answer", "begin"} :
             LET v == [Rest EXCEPT !.at = step]
             IN  v.at = step /\ v.left = {} /\ v.jobs = "unfed" /\ ~v.cancelled
    BY DEF Rest
  <1>5. /\ run'[r].left = {} /\ run'[r].jobs = "unfed"
        /\ \/ run'[r].at = "answer" /\ group = "completed" /\ answers = <<>>
           \/ run'[r].at = "begin" /\ group # "completed"
        /\ \A q \in Runs \ {r} : run'[q] = run[q]
    BY <1>0, <1>3, <1>4 DEF Typed, TypeOK
  <1>6. answers = <<>>
    BY <1>0, <1>5 DEF Settled
  <1>7. Unfinished' = Unfinished /\ Crew(r)' = {}
    BY <1>0, <1>2, <1>3 DEF Unfinished, Crew
  <1>8. OneRun' /\ \A q \in Runs \ {r} : Proper(q)'
    BY <1>0, <1>1, <1>2, <1>3, <1>5, StillAlone DEF Abandoned
  <1>9. InHand' /\ Settled'
    BY <1>0, <1>2, <1>3, <1>7 DEF InHand, Settled, CompletedIsDone
  <1>10. Proper(r)'
    BY <1>0, <1>3, <1>5, <1>6, <1>7 DEF Proper, Accounted, Abandoned
  <1> QED BY <1>8, <1>9, <1>10 DEF Orderly

\* Stopping the session and closing the manager cancel; a restart leaves nothing.
LEMMA OrderlyHappening ==
    ASSUME Patient, IInv, StopSession \/ Close \/ CancelAllRuns \/ Restart
    PROVE  Orderly'
  <1>0. Typed /\ InHand /\ Settled /\ OneRun /\ \A r \in Runs : Proper(r)
    BY DEF IInv, Orderly
  <1>1. CASE StopSession \/ CancelAllRuns
    <2>1. /\ Cancel /\ UNCHANGED <<setting, task, group, owner, worker, answers>>
          /\ phase' = phase \/ (phase' # "open" /\ phase # "open")
      BY <1>1 DEF StopSession, CancelAllRuns, stored, history
    <2>2. \A r \in Runs :
            /\ run'[r].at = run[r].at /\ run'[r].left = run[r].left
            /\ run'[r].need = run[r].need /\ run'[r].jobs = run[r].jobs
            /\ run'[r].waits = run[r].waits
            /\ run[r].cancelled => run'[r].cancelled
      BY <1>0, <2>1, Cancelling
    <2>3. /\ Unfinished' = Unfinished
          /\ \A r \in Runs : Crew(r)' = Crew(r) /\ (Abandoned(r)' <=> Abandoned(r))
      BY <2>1, <2>2 DEF Unfinished, Crew, Abandoned
    <2>4. OneRun'
      BY <1>0, <2>2, <2>3 DEF OneRun, Live
    <2>5. InHand'
      BY <1>0, <2>1, <2>2, <2>3 DEF InHand, Typed, WorkersSound
    <2>6. Settled'
      BY <1>0, <2>1, <2>3 DEF Settled, CompletedIsDone
    <2>7. ASSUME NEW r \in Runs PROVE Proper(r)'
      <3>1. Proper(r) /\ (Live(r)' => Live(r))
        BY <1>0, <2>2, <2>3 DEF Live
      <3>2. Accounted(r) => Accounted(r)'
        BY <2>1, <2>2, <2>3 DEF Accounted
      <3> QED BY <2>1, <2>2, <2>3, <3>1, <3>2 DEF Proper
    <2> QED BY <2>4, <2>5, <2>6, <2>7 DEF Orderly
  <1>2. CASE Close
    <2>1. /\ "close" \in setting /\ phase' = "closing"
          /\ UNCHANGED <<setting, task, group, owner, worker, answers, run>>
      BY <1>2 DEF Close, stored, history
    <2>2. Unfinished' = Unfinished /\ \A r \in Runs : Crew(r)' = Crew(r)
      BY <2>1 DEF Unfinished, Crew
    <2>3. OneRun' /\ InHand'
      BY <1>0, <2>1, <2>2 DEF OneRun, Live, Abandoned, InHand
    <2>4. Settled'
      BY <1>0, <2>1 DEF Settled, CompletedIsDone
    <2>5. \A r \in Runs : Proper(r)'
      BY <1>0, <2>1, <2>2 DEF Proper, Live, Abandoned
    <2> QED BY <2>3, <2>4, <2>5 DEF Orderly
  <1>3. CASE Restart
    <2>1. /\ "restart" \in setting /\ phase' = "open" /\ owner' = NoRun
          /\ UNCHANGED <<setting, task, group, answers>>
          /\ run' = [r \in Runs |-> Rest] /\ worker' = [w \in Workers |-> Asleep]
      BY <1>3 DEF Restart, stored, history
    <2>2. phase = "open"
      BY <1>0, <2>1 DEF Patient, Typed, TypeOK, Settled
    <2>3. /\ \A r \in Runs : run'[r].at = "idle" /\ run'[r].left = {} /\ run'[r].jobs = "unfed"
          /\ \A w \in Workers : worker'[w].task = NoTask /\ worker'[w].run = NoRun
      BY <2>1 DEF Rest, Asleep
    <2>4. /\ \A r \in Runs : Crew(r)' = {} /\ ~Live(r)'
          /\ Unfinished' = Unfinished
      BY <2>1, <2>3, TaskGroupAssumption DEF Crew, Live, Abandoned, Unfinished
    <2>5. OneRun' /\ InHand' /\ Settled'
      BY <1>0, <2>1, <2>2, <2>3, <2>4 DEF OneRun, InHand, Settled, CompletedIsDone
    <2>6. \A r \in Runs : Proper(r)'
      BY <2>1, <2>3, <2>4, TaskGroupAssumption DEF Proper, Accounted
    <2> QED BY <2>5, <2>6 DEF Orderly
  <1> QED BY <1>1, <1>2, <1>3

LEMMA OrderlyInit == Init => Orderly
  <1> SUFFICES ASSUME Init PROVE Orderly
    OBVIOUS
  <1>0. /\ owner = NoRun /\ answers = <<>> /\ group = "pending" /\ phase = "open"
        /\ run = [r \in Runs |-> IF r = FirstRun THEN [Rest EXCEPT !.at = "begin"] ELSE Rest]
        /\ worker = [w \in Workers |-> Asleep]
    BY DEF Init
  <1>1. /\ \A r \in Runs : run[r].at = (IF r = FirstRun THEN "begin" ELSE "idle")
                           /\ run[r].left = {} /\ run[r].jobs = "unfed"
        /\ \A w \in Workers : worker[w].task = NoTask /\ worker[w].run = NoRun
    BY <1>0 DEF Rest, Asleep
  <1>2. \A r \in Runs : Crew(r) = {} /\ ~Abandoned(r)
    BY <1>1, TaskGroupAssumption DEF Crew, Abandoned
  <1>3. OneRun /\ InHand
    BY <1>1, <1>2 DEF OneRun, Live, InHand
  <1>4. Settled
    BY <1>0 DEF Settled, CompletedIsDone
  <1>5. \A r \in Runs : Proper(r)
    BY <1>0, <1>1, <1>2, TaskGroupAssumption DEF Proper, Accounted, Live
  <1> QED BY <1>3, <1>4, <1>5 DEF Orderly

LEMMA OrderlyStep == ASSUME Patient PROVE IInv /\ [Next]_vars => IInv'
  <1> SUFFICES ASSUME IInv, [Next]_vars PROVE IInv'
    OBVIOUS
  <1>1. Typed'
    BY TypedStep DEF IInv
  <1>2. CASE Next
    <2>1. Orderly'
      BY <1>2, OrderlyRun, OrderlyFeeder, OrderlyWorker, OrderlyResume, OrderlyHappening DEF Next
    <2> QED BY <1>1, <2>1 DEF IInv
  <1>3. CASE UNCHANGED vars
    BY <1>1, <1>3 DEF vars, stored, history, counts, IInv, Orderly, OneRun, Live, Proper, Accounted,
                      Abandoned, Crew, Unfinished, InHand, Settled, CompletedIsDone
  <1> QED BY <1>2, <1>3

\* What is always so of the group of a patient user.
THEOREM Invariance == ASSUME Patient PROVE Spec => []IInv
  <1>1. Init => IInv
    BY TypedInit, OrderlyInit DEF IInv
  <1>2. IInv /\ [Next]_vars => IInv'
    BY OrderlyStep
  <1> QED BY <1>1, <1>2, PTL DEF Spec

\* A group that is called completed has no unfinished task (runTaskGroup,
\* finishTaskGroupRun, ResumeTaskGroup): nobody would ever run it again.
THEOREM NothingLeftUndone == ASSUME Patient PROVE Spec => []CompletedIsDone
  <1>1. Spec => []IInv
    BY Invariance
  <1>2. IInv => CompletedIsDone
    BY DEF IInv, Orderly, Settled
  <1> QED BY <1>1, <1>2, PTL

\* What answers the tool call is the result of a completed group (runTaskGroup,
\* executeCreateTasksTool): the patient user's group is never refused.
THEOREM AnsweredByResult == ASSUME Patient PROVE Spec => TrueAnswer
  <1>1. Spec => []IInv
    BY Invariance
  <1>2. IInv /\ [Next]_vars =>
          [answers' # answers => Last(answers') = "result" /\ group = "completed"]_vars
    <2> SUFFICES ASSUME IInv, [Next]_vars, answers' # answers
        PROVE  Last(answers') = "result" /\ group = "completed"
      OBVIOUS
    <2>1. PICK r \in Runs : Answer(r)
      BY RunMoves, WorkerMoves
      DEF IInv, Next, RunStep, Begin, MarkRunning, SpawnWorker, SpawnFeeder, SpawnWaiter, Await,
          Check, Complete, FinishRun, FeederStep, Hand, StopFeeding, Resume, StopSession, Close,
          CancelAllRuns, Restart, vars, history
    <2>2. run[r].at = "answer" /\ group = "completed"
      BY <2>1 DEF IInv, Orderly, Proper, Answer
    <2>3. answers' = Append(answers, "result") /\ answers \in Seq({"result", "refusal"})
      BY <2>1, <2>2 DEF Answer, IInv, Typed, TypeOK
    <2>4. Last(answers') = "result"
      BY <2>3 DEF Last
    <2> QED BY <2>2, <2>4
  <1> QED BY <1>1, <1>2, PTL DEF Spec, TrueAnswer

\* What is settled stays settled (runAgentTask, pendingTaskIDs,
\* taskGroupToolResultPresent): a finished task keeps its outcome, and the tool
\* call its one answer, however often the group is stopped and resumed.
THEOREM SettledForGood == ASSUME Patient PROVE Spec => OutcomeStays
  <1>1. Spec => []IInv
    BY Invariance
  <1>2. IInv /\ [Next]_vars =>
          [/\ \A t \in Tasks : task[t] \in Finished => task'[t] = task[t]
           /\ answers # <<>> => answers' = answers]_vars
    <2> SUFFICES ASSUME IInv, [Next]_vars
        PROVE  /\ \A t \in Tasks : task[t] \in Finished => task'[t] = task[t]
               /\ answers # <<>> => answers' = answers
      OBVIOUS
    <2>1. CASE \E r \in Runs : RunStep(r)
      <3>1. PICK r \in Runs : RunStep(r)
        BY <2>1
      <3>2. run[r].at # "idle" /\ task' = task
        BY <3>1, RunMoves
        DEF IInv, RunStep, Begin, MarkRunning, SpawnWorker, SpawnFeeder, SpawnWaiter, Await, Check,
            Complete, FinishRun, Answer
      <3> QED BY <3>2 DEF IInv, Orderly, Proper
    <2>2. CASE \E w \in Workers : WorkerStep(w)
      BY <2>2, WorkerFinishes, WorkerMoves DEF IInv
    <2>3. CASE ~(\E r \in Runs : RunStep(r)) /\ ~(\E w \in Workers : WorkerStep(w))
      BY <2>3 DEF Next, FeederStep, Hand, StopFeeding, Resume, StopSession, Close, CancelAllRuns,
                  Restart, vars, stored, history
    <2> QED BY <2>1, <2>2, <2>3
  <1> QED BY <1>1, <1>2, PTL DEF Spec, OutcomeStays

=============================================================================
