------------------------------- MODULE ChatRun -------------------------------
(***************************************************************************)
(* One chat session of the web server (chat.Manager).                      *)
(*                                                                         *)
(* A RUN is one background goroutine: it asks the model for a turn, runs   *)
(* the turn's tool calls in order and asks again, until a turn has no tool *)
(* call, a call has to wait for the user, or somebody stops it.  REQUESTS  *)
(* are HTTP handlers: send, approve or decline, answer a question, stop,   *)
(* rewind.  Resolving an approval runs the tool, and the calls queued      *)
(* behind it, in the handler itself; the run starts again only after that. *)
(* A WORKFLOW is another goroutine: it writes a turn of its own, whose one *)
(* call stands for a group of tasks, runs the group, answers the call, and *)
(* may do so again before it starts a run.                                 *)
(*                                                                         *)
(* One mutex guards the session, and it is released between any two steps: *)
(* a step here is one locked section.  The session is saved in each of     *)
(* them, so a restart loses the threads and the flags and nothing else.    *)
(*                                                                         *)
(* The transcript keeps of a message who wrote it and, by id, which tool   *)
(* calls it makes or answers.                                              *)
(***************************************************************************)
EXTENDS Naturals, Sequences, SequencesExt

CONSTANTS
    Requests,    \* the HTTP handlers that may be at work at the same time
    Run,         \* the thread of the run
    Job,         \* the thread of a workflow, or of a group that is resumed (bound: one)
    Users,       \* the users there may be: a user is the set of their Habits
    MaxBatch,    \* bound: tool calls in one turn
    MaxCalls,    \* bound: tool calls in all
    MaxTurns,    \* bound: answers of the model
    MaxRounds,   \* bound: rounds of a workflow (maxHunterRounds, maxDescriptionRounds)
    MaxSends,    \* bound: messages sent, rewinds and workflows
    MaxStops     \* bound: stops and restarts

\* What a user may do.
\* send_open: sends while a call of the last turn has no result.
\* early: resolves an approval, or starts or resumes a workflow, while a run is on.
\* overlap: makes a request while another one is still being served.
\* stop_waiting: stops while neither a run nor a group of tasks is on.
\* rounds: starts workflows that may go on to another round.
\* stop, rewind, restart, workflow: does that.
Habits == {"send_open", "early", "overlap", "stop_waiting", "stop", "rewind", "restart",
           "workflow", "rounds"}

ASSUME ChatRunAssumption ==
    /\ Run \notin Requests /\ Job \notin Requests \cup {Run}
    /\ Users \subseteq SUBSET Habits
    /\ MaxBatch \in Nat /\ MaxCalls \in Nat /\ MaxTurns \in Nat
    /\ MaxRounds \in Nat \ {0} /\ MaxSends \in Nat /\ MaxStops \in Nat

VARIABLES
    user,           \* the user of this session, who never changes
    transcript,     \* session.LLMMessages
    approvals,      \* session.PendingApprovals, by their call
    questions,      \* session.PendingQuestions
    queued,         \* session.PendingToolCalls
    groups,         \* session.TaskGroups of workflows, by their call
    rounds,         \* the round the workflow is in; 0 for a group that is resumed
    running,        \* m.running: a run is on
    stopRequested,  \* m.stopRequested
    runningTool,    \* m.runningToolCalls: the call a stop would interrupt
    interrupted,    \* m.interruptedTools
    thread,         \* [Threads -> Thread]: where each thread is
    sent,           \* the transcript the model was last asked with
    ran,            \* the calls whose tool was started, in order; history
    approved,       \* the calls the user approved; history
    declined,       \* the calls the user declined; history
    halted,         \* the last thing the user did was to stop; history
    failed,         \* the last run ended in an error; history
    issued, turns, sends, stops

session == <<transcript, approvals, questions, queued>>
work == <<groups, rounds>>
flags == <<running, stopRequested, runningTool, interrupted>>
history == <<ran, approved, declined, halted, failed>>
counts == <<issued, turns, sends, stops>>
vars == <<user, session, work, flags, thread, sent, history, counts>>

-----------------------------------------------------------------------------
Threads == Requests \cup {Run, Job}
Calls == 1 .. MaxCalls
NoCall == 0

User == [role |-> "user", calls |-> <<>>]
Turn(calls) == [role |-> "assistant", calls |-> calls]
Result(c) == [role |-> "tool", calls |-> <<c>>]
Message == [role: {"user", "assistant", "tool"}, calls: Seq(Calls)]

\* at: the next step.  todo: the calls processToolCalls still has to go
\* through, the current one first.  own: the call that an approval or an answer
\* is about, which the handler sees to before it takes what is queued.
Steps == {"idle", "loop", "begin", "stream", "append", "next", "execute", "tool",
          "result", "check", "pause", "exit", "take", "start", "send", "interrupt",
          "launch", "group", "broken", "deliver", "round"}
Thread == [at: Steps, todo: Seq(Calls), own: Calls \cup {NoCall}]

Idle == [at |-> "idle", todo |-> <<>>, own |-> NoCall]

\* A group is open; or done, and its call shows no result; or its result is told.
Groups == {"none", "open", "done", "told"}

TypeOK ==
    /\ user \in Users
    /\ transcript \in Seq(Message)
    /\ approvals \subseteq Calls
    /\ questions \subseteq Calls
    /\ queued \in Seq(Calls)
    /\ groups \in [Calls -> Groups]
    /\ rounds \in 0 .. MaxRounds
    /\ running \in BOOLEAN
    /\ stopRequested \in BOOLEAN
    /\ runningTool \in Calls \cup {NoCall}
    /\ interrupted \subseteq Calls
    /\ thread \in [Threads -> Thread]
    /\ sent \in Seq(Message)
    /\ ran \in Seq(Calls)
    /\ approved \subseteq Calls /\ declined \subseteq Calls
    /\ halted \in BOOLEAN /\ failed \in BOOLEAN
    /\ issued \in Nat /\ turns \in Nat /\ sends \in Nat /\ stops \in Nat
    /\ ~running => thread[Run] = Idle

Init ==
    /\ user \in Users
    /\ transcript = <<>> /\ approvals = {} /\ questions = {} /\ queued = <<>>
    /\ groups = [c \in Calls |-> "none"] /\ rounds = 0
    /\ running = FALSE /\ stopRequested = FALSE
    /\ runningTool = NoCall /\ interrupted = {}
    /\ thread = [t \in Threads |-> Idle]
    /\ sent = <<>>
    /\ ran = <<>> /\ approved = {} /\ declined = {} /\ halted = FALSE /\ failed = FALSE
    /\ issued = 0 /\ turns = 0 /\ sends = 0 /\ stops = 0

-----------------------------------------------------------------------------
(* Helpers.                                                                *)

At(t, step) == thread[t].at = step
Become(t, r) == thread' = [thread EXCEPT ![t] = r]
Go(t, step) == thread' = [thread EXCEPT ![t].at = step]
Current(t) == IF thread[t].own # NoCall THEN thread[t].own ELSE Head(thread[t].todo)
Say(m) == transcript' = Append(transcript, m)

\* Where a thread goes once it is through with its current call.
After(t) == IF thread[t].own # NoCall THEN "take" ELSE "check"

Said(c, s) == \E i \in DOMAIN s : s[i].role = "assistant" /\ c \in Range(s[i].calls)
TurnsIn(s) == {i \in DOMAIN s : s[i].role = "assistant" /\ s[i].calls # <<>>}
LastTurn(s) == CHOOSE i \in TurnsIn(s) : \A j \in TurnsIn(s) : j <= i
ResultsAfter(s, i) == {s[j].calls[1] : j \in {k \in i + 1 .. Len(s) : s[k].role = "tool"}}
Open(s) ==
    IF TurnsIn(s) = {} THEN {}
    ELSE Range(s[LastTurn(s)].calls) \ ResultsAfter(s, LastTurn(s))

\* (Operators named for a slip -- DroppedNever, FailureRetried, BehindAndCurrent, ... --
\* are the variants of the next one that the checked properties must reject.)
\* ensureToolResultsComplete: a result for every call of the last turn that has
\* none, unless the conversation has moved past that turn.  In what order does not
\* matter here.
Completed(s) ==
    IF TurnsIn(s) # {} /\ \A j \in LastTurn(s) + 1 .. Len(s) : s[j].role = "tool"
    THEN LET missing == SetToSeq(Open(s))
         IN  s \o [i \in DOMAIN missing |-> Result(missing[i])]
    ELSE s

-----------------------------------------------------------------------------
(* The run: runLoop, as startRun wraps it.                                 *)

\* The top of the loop.
Loop ==
    /\ At(Run, "loop")
    /\ IF stopRequested \/ approvals \cup questions # {}
       THEN Go(Run, "exit") /\ UNCHANGED <<transcript, sent>>
       ELSE /\ transcript' = Completed(transcript)
            /\ sent' = transcript'
            /\ Go(Run, "begin")
    /\ UNCHANGED <<user, work, approvals, questions, queued, flags, history, counts>>

\* beginLLMCall refuses when a stop came in.
BeginLLMCallAnyway ==
    /\ At(Run, "begin")
    /\ Go(Run, "stream")
    /\ UNCHANGED <<user, work, session, flags, sent, history, counts>>

BeginLLMCall ==
    /\ At(Run, "begin")
    /\ Go(Run, IF stopRequested THEN "exit" ELSE "stream")
    /\ UNCHANGED <<user, work, session, flags, sent, history, counts>>

\* A failed call is reported and ends the run; so does the limit of turns.
FailureRetried == failed' = TRUE /\ Go(Run, "loop")
Failure == failed' = TRUE /\ Go(Run, "exit")

\* The model answers with a turn, or fails; a stop cancels the call.
StreamChat ==
    /\ At(Run, "stream")
    /\ IF stopRequested
       THEN Go(Run, "exit") /\ UNCHANGED <<failed, issued, turns>>
       ELSE \/ /\ turns < MaxTurns
               /\ turns' = turns + 1
               /\ \E n \in 0 .. MaxBatch :
                    /\ issued + n <= MaxCalls
                    /\ issued' = issued + n
                    /\ Become(Run, [at |-> "append", own |-> NoCall,
                                    todo |-> [i \in 1 .. n |-> issued + i]])
               /\ UNCHANGED failed
            \/ Failure /\ UNCHANGED <<issued, turns>>
    /\ UNCHANGED <<user, work, session, flags, sent, ran, approved, declined, halted,
                   sends, stops>>

AppendTurn ==
    /\ At(Run, "append")
    /\ Say(Turn(thread[Run].todo))
    /\ Go(Run, IF thread[Run].todo = <<>> THEN "exit" ELSE "next")
    /\ UNCHANGED <<user, work, approvals, questions, queued, flags, sent, history, counts>>

\* startRun's deferred function.
ExitStopped ==
    /\ At(Run, "exit")
    /\ running' = FALSE
    /\ runningTool' = NoCall
    /\ Become(Run, Idle)
    /\ UNCHANGED <<user, work, session, stopRequested, interrupted, sent, history, counts>>

Exit ==
    /\ At(Run, "exit")
    /\ running' = FALSE
    /\ stopRequested' = FALSE
    /\ runningTool' = NoCall
    /\ Become(Run, Idle)
    /\ UNCHANGED <<user, work, session, interrupted, sent, history, counts>>

-----------------------------------------------------------------------------
(* processToolCalls, in the run and in a handler.                          *)

\* Where a batch leads that was paused, and one that is through.
Pausing(t) == IF t = Run THEN "exit" ELSE "start"
GoingOnlyInRun(t) == IF t = Run THEN "loop" ELSE "idle"
GoingOn(t) == IF t = Run THEN "loop" ELSE "start"

\* The batch is through: nothing stays queued.
Drained(t) ==
    /\ At(t, "next")
    /\ thread[t].todo = <<>>
    /\ queued' = <<>>
    /\ Go(t, GoingOn(t))
    /\ UNCHANGED <<user, work, transcript, approvals, questions, flags, sent, history, counts>>

\* prepareOrExecuteTool: the policy denies the call, lets it run, or asks; a
\* question asks in any case.
PrepareTool(t) ==
    /\ At(t, "next")
    /\ thread[t].todo # <<>>
    /\ \/ Go(t, "result") /\ UNCHANGED <<approvals, questions>>
       \/ Go(t, "execute") /\ UNCHANGED <<approvals, questions>>
       \/ /\ approvals' = approvals \cup {Current(t)}
          /\ Go(t, "pause") /\ UNCHANGED questions
       \/ /\ questions' = questions \cup {Current(t)}
          /\ Go(t, "pause") /\ UNCHANGED approvals
    /\ UNCHANGED <<user, work, transcript, queued, flags, sent, history, counts>>

\* executeToolCall up to the tool, which the registry knows: markRunningTool
\* refuses after a stop, and the call is left without a result.
ExecuteTool(t) ==
    /\ At(t, "execute")
    /\ IF stopRequested
       THEN Go(t, After(t)) /\ UNCHANGED <<runningTool, ran>>
       ELSE /\ runningTool' = Current(t)
            /\ ran' = Append(ran, Current(t))
            /\ Go(t, "tool")
    /\ UNCHANGED <<user, work, session, running, stopRequested, interrupted, sent,
                   approved, declined, halted, failed, counts>>

\* The tool returns.  clearRunningTool drops its result when it was
\* interrupted, or a stop came in.
DroppedNever(t) == FALSE
Dropped(t) == Current(t) \in interrupted \/ stopRequested

ToolReturns(t) ==
    /\ At(t, "tool")
    /\ runningTool' = IF runningTool = Current(t) THEN NoCall ELSE runningTool
    /\ interrupted' = interrupted \ {Current(t)}
    /\ Go(t, IF Dropped(t) THEN After(t) ELSE "result")
    /\ UNCHANGED <<user, work, session, running, stopRequested, sent, history, counts>>

\* appendToolResult.
AppendResult(t) ==
    /\ At(t, "result")
    /\ Say(Result(Current(t)))
    /\ Go(t, After(t))
    /\ UNCHANGED <<user, work, approvals, questions, queued, flags, sent, history, counts>>

CheckStop(t) ==
    /\ At(t, "check")
    /\ Become(t, IF stopRequested THEN [thread[t] EXCEPT !.at = "pause"]
                 ELSE [thread[t] EXCEPT !.at = "next", !.todo = Tail(@)])
    /\ UNCHANGED <<user, work, session, flags, sent, history, counts>>

\* setPendingToolCalls with the calls behind the one that paused the batch.
BehindAndCurrent(t) == thread[t].todo
Behind(t) == Tail(thread[t].todo)

Pause(t) ==
    /\ At(t, "pause")
    /\ queued' = Behind(t)
    /\ Become(t, [Idle EXCEPT !.at = Pausing(t)])
    /\ UNCHANGED <<user, work, transcript, approvals, questions, flags, sent, history, counts>>

-----------------------------------------------------------------------------
(* Requests.                                                               *)

\* A user without the habit of overlapping waits for the page to answer.
Asks(h) ==
    /\ thread[h] = Idle
    /\ "overlap" \in user \/ \A g \in Requests : thread[g] = Idle

\* Nor does such a user send anything while a workflow is on.
NoJob == "overlap" \in user \/ thread[Job] = Idle

\* Send, up to the point where it releases the mutex.
Sent(h) ==
    /\ Say(User)
    /\ Become(h, [Idle EXCEPT !.at = "start"])

Send(h) ==
    /\ Asks(h)
    /\ NoJob
    /\ sends < MaxSends
    /\ "send_open" \in user \/ Open(transcript) = {}
    /\ ~running
    /\ Sent(h)
    /\ sends' = sends + 1
    /\ halted' = FALSE
    /\ UNCHANGED <<user, work, approvals, questions, queued, flags, sent, ran, approved, declined,
                   failed, issued, turns, stops>>

\* RewindAndResend (RegenerateLast takes the last user message): cut before a
\* user message, forget what waits for the user; then Send, which may find that
\* a run has started meanwhile.
Rewind(h) ==
    /\ Asks(h)
    /\ NoJob
    /\ "rewind" \in user
    /\ sends < MaxSends
    /\ ~running
    /\ \E i \in DOMAIN transcript :
         /\ transcript[i].role = "user"
         /\ transcript' = SubSeq(transcript, 1, i - 1)
         /\ groups' = [c \in Calls |-> IF groups[c] = "told" /\ ~Said(c, transcript')
                                       THEN "done" ELSE groups[c]]
    /\ approvals' = {}
    /\ questions' = {}
    /\ Become(h, [Idle EXCEPT !.at = "send"])
    /\ sends' = sends + 1
    /\ halted' = FALSE
    /\ UNCHANGED <<user, rounds, queued, flags, sent, ran, approved, declined, failed,
                   issued, turns, stops>>

Resend(h) ==
    /\ At(h, "send")
    /\ IF running THEN Become(h, Idle) /\ UNCHANGED transcript ELSE Sent(h)
    /\ UNCHANGED <<user, work, approvals, questions, queued, flags, sent, history, counts>>

\* ResolveApproval takes the approval away before it sees to the call.
ResolvedKept(c) == approvals
Resolved(c) == approvals \ {c}

ResolveApproval(h) ==
    /\ Asks(h)
    /\ "early" \in user \/ ~running
    /\ \E c \in approvals, yes \in BOOLEAN :
         /\ approvals' = Resolved(c)
         /\ Become(h, [Idle EXCEPT !.at = IF yes THEN "execute" ELSE "result", !.own = c])
         /\ IF yes THEN approved' = approved \cup {c} /\ UNCHANGED declined
                   ELSE declined' = declined \cup {c} /\ UNCHANGED approved
    /\ halted' = FALSE
    /\ UNCHANGED <<user, work, transcript, questions, queued, flags, sent, ran, failed, counts>>

AnswerQuestion(h) ==
    /\ Asks(h)
    /\ "early" \in user \/ ~running
    /\ \E c \in questions :
         /\ questions' = questions \ {c}
         /\ Become(h, [Idle EXCEPT !.at = "result", !.own = c])
    /\ halted' = FALSE
    /\ UNCHANGED <<user, work, transcript, approvals, queued, flags, sent, ran, approved, declined,
                   failed, counts>>

\* takePendingToolCalls.
TakeQueued(h) ==
    /\ At(h, "take")
    /\ Become(h, [at |-> "next", todo |-> queued, own |-> NoCall])
    /\ queued' = <<>>
    /\ UNCHANGED <<user, work, transcript, approvals, questions, flags, sent, history, counts>>

\* startRun.
StartRun(h) ==
    /\ At(h, "start")
    /\ IF running
       THEN Become(h, Idle) /\ UNCHANGED <<running, stopRequested, failed>>
       ELSE /\ running' = TRUE
            /\ stopRequested' = FALSE
            /\ failed' = FALSE
            /\ thread' = [thread EXCEPT ![h] = Idle, ![Run] = [Idle EXCEPT !.at = "loop"]]
    /\ UNCHANGED <<user, work, session, runningTool, interrupted, sent, ran, approved, declined,
                   halted, counts>>

StopSessionFrees(h) ==
    /\ Asks(h)
    /\ "stop" \in user
    /\ running
    /\ stops < MaxStops
    /\ stops' = stops + 1
    /\ stopRequested' = TRUE /\ running' = FALSE /\ halted' = TRUE
    /\ UNCHANGED <<user, work, session, runningTool, interrupted, thread, sent, ran, approved,
                   declined, failed, issued, turns, sends>>

\* StopSession marks the running tool as interrupted and, after releasing the
\* mutex, writes the result the tool will not give.  It stops the group that
\* is on.
Interrupting == IF runningTool \in {NoCall} \cup interrupted THEN Idle
                ELSE [Idle EXCEPT !.at = "interrupt", !.own = runningTool]
Broken == IF At(Job, "group") THEN [thread[Job] EXCEPT !.at = "broken"] ELSE thread[Job]

StopSession(h) ==
    /\ Asks(h)
    /\ "stop" \in user
    /\ "stop_waiting" \in user \/ running \/ At(Job, "group")
    /\ stops < MaxStops
    /\ stops' = stops + 1
    /\ stopRequested' = TRUE
    /\ interrupted' = interrupted \cup ({runningTool} \ {NoCall})
    /\ thread' = [thread EXCEPT ![h] = Interrupting, ![Job] = Broken]
    /\ halted' = TRUE
    /\ UNCHANGED <<user, work, session, running, runningTool, sent, ran, approved, declined,
                   failed, issued, turns, sends>>

InterruptTool(h) ==
    /\ At(h, "interrupt")
    /\ Say(Result(thread[h].own))
    /\ Become(h, Idle)
    /\ UNCHANGED <<user, work, approvals, questions, queued, flags, sent, history, counts>>

-----------------------------------------------------------------------------
(* Workflows: StartForcedWorkflow and its goroutine.                       *)

\* addForcedCreateTasksCall: a user message, and a turn with one call.
ForcedCall(c) == transcript' = transcript \o <<User, Turn(<<c>>)>>

\* startForcedRound, for a group that can be created.
Round ==
    /\ issued < MaxCalls
    /\ issued' = issued + 1
    /\ ForcedCall(issued')
    /\ groups' = [groups EXCEPT ![issued'] = "open"]
    /\ Become(Job, [Idle EXCEPT !.at = "launch", !.own = issued'])

\* It asks neither whether a run is on nor whether a call is open.
StartForcedWorkflow(h) ==
    /\ Asks(h)
    /\ thread[Job] = Idle
    /\ {"workflow", "rounds"} \cap user # {}
    /\ "early" \in user \/ ~running
    /\ "send_open" \in user \/ Open(transcript) = {}
    /\ sends < MaxSends
    /\ Round
    /\ rounds' = 1
    /\ sends' = sends + 1
    /\ halted' = FALSE
    /\ UNCHANGED <<user, approvals, questions, queued, flags, sent, ran, approved, declined,
                   failed, turns, stops>>

\* ResumeTaskGroup refuses a group that is told.  Of one that is done it only gives
\* the result -- in the handler, which is left to Job here.
ResumeTaskGroup(h) ==
    /\ Asks(h)
    /\ thread[Job] = Idle
    /\ "early" \in user \/ ~running
    /\ \E c \in Calls :
         /\ groups[c] \in {"open", "done"}
         /\ Become(Job, [Idle EXCEPT !.at = IF groups[c] = "done" THEN "deliver" ELSE "launch",
                                     !.own = c])
    /\ rounds' = 0
    /\ halted' = FALSE
    /\ UNCHANGED <<user, groups, session, flags, sent, ran, approved, declined, failed, counts>>

\* runTaskGroup makes the group one that a stop finds, and waits for its tasks.
Launch ==
    /\ At(Job, "launch")
    /\ Go(Job, "group")
    /\ UNCHANGED <<user, work, session, flags, sent, history, counts>>

GroupEnds ==
    /\ At(Job, "group")
    /\ groups' = [groups EXCEPT ![Current(Job)] = "done"]
    /\ Go(Job, "deliver")
    /\ UNCHANGED <<user, rounds, session, flags, sent, history, counts>>

\* After an interruption the goroutine is through -- in its first round.  Out of a
\* later one it comes back to StartForcedWorkflow, which starts a run.
GroupInterrupted ==
    /\ At(Job, "broken")
    /\ Become(Job, IF rounds <= 1 THEN Idle ELSE [Idle EXCEPT !.at = "start"])
    /\ UNCHANGED <<user, work, session, flags, sent, history, counts>>

\* appendToolResult, for the call of the group; the message of the call may be gone.
Deliver ==
    /\ At(Job, "deliver")
    /\ Say(Result(Current(Job)))
    /\ groups' = IF Said(Current(Job), transcript)
                 THEN [groups EXCEPT ![Current(Job)] = "told"] ELSE groups
    /\ Become(Job, [Idle EXCEPT !.at = "round"])
    /\ UNCHANGED <<user, rounds, approvals, questions, queued, flags, sent, history, counts>>

\* runHunterFollowupRounds, runDescriptionsFollowupRounds: as long as a round made
\* progress.
FollowUp ==
    /\ At(Job, "round")
    /\ \/ /\ "rounds" \in user
          /\ rounds \in 1 .. MaxRounds - 1
          /\ Round
          /\ rounds' = rounds + 1
       \/ /\ Become(Job, [Idle EXCEPT !.at = "start"])
          /\ UNCHANGED <<work, transcript, issued>>
    /\ UNCHANGED <<user, approvals, questions, queued, flags, sent, history, turns, sends, stops>>

\* The server goes down and comes up: threads and flags are gone, the session
\* is loaded as it was last saved.
Restart ==
    /\ "restart" \in user
    /\ stops < MaxStops
    /\ stops' = stops + 1
    /\ thread' = [t \in Threads |-> Idle]
    /\ rounds' = 0
    /\ running' = FALSE /\ stopRequested' = FALSE
    /\ runningTool' = NoCall /\ interrupted' = {}
    /\ approved' = approved \cap Range(ran)
    /\ halted' = TRUE
    /\ UNCHANGED <<user, groups, session, sent, ran, declined, failed, issued, turns, sends>>

-----------------------------------------------------------------------------
Conversation == Loop \/ BeginLLMCall \/ StreamChat \/ AppendTurn \/ Exit
Batch(t) ==
    \/ Drained(t) \/ PrepareTool(t) \/ ExecuteTool(t) \/ ToolReturns(t)
    \/ AppendResult(t) \/ CheckStop(t) \/ Pause(t)
Serve(h) == Resend(h) \/ TakeQueued(h) \/ StartRun(h) \/ InterruptTool(h)
UserActs(h) ==
    \/ Send(h) \/ Rewind(h) \/ ResolveApproval(h) \/ AnswerQuestion(h) \/ StopSession(h)
    \/ StartForcedWorkflow(h) \/ ResumeTaskGroup(h)
Workflow ==
    Launch \/ GroupEnds \/ GroupInterrupted \/ Deliver \/ FollowUp \/ StartRun(Job)

Next ==
    \/ Conversation
    \/ \E t \in Requests \cup {Run} : Batch(t)
    \/ \E h \in Requests : Serve(h) \/ UserActs(h)
    \/ Workflow
    \/ Restart

Spec == Init /\ [][Next]_vars

\* Goroutines and handlers go on, models answer and tools return.
Fairness ==
    /\ WF_vars(Conversation)
    /\ \A t \in Requests \cup {Run} : WF_vars(Batch(t))
    /\ \A h \in Requests : WF_vars(Serve(h))
    /\ WF_vars(Workflow)

FairSpec == Spec /\ Fairness

-----------------------------------------------------------------------------
(* What has to hold.                                                       *)

\* Every turn is followed by exactly one result for each of its calls before
\* anything else is said, and there is no other result.
Wellformed(s) ==
    /\ \A i \in TurnsIn(s) :
         LET n == Len(s[i].calls)
         IN /\ i + n <= Len(s)
            /\ \A j \in i + 1 .. i + n : s[j].role = "tool"
            /\ {s[j].calls[1] : j \in i + 1 .. i + n} = Range(s[i].calls)
    /\ \A j \in DOMAIN s : s[j].role = "tool" =>
         \E i \in TurnsIn(s) : i < j /\ j <= i + Len(s[i].calls)

\* What the model is asked with obeys the provider's rule: every tool call is
\* answered before the next request (ensureToolResultsComplete).
ProviderInvariant == Wellformed(sent)

\* A tool is started only for a call the conversation is waiting for: it is in
\* the last turn and has no result (takePendingToolCalls, RewindAndResend).
NoStrayTool ==
    [][ran' # ran => Last(ran') \in Open(transcript)]_vars

\* No tool call runs twice, and none the user declined runs at all
\* (ResolveApproval, setPendingToolCalls).
RanOnce == IsInjective(ran) /\ Range(ran) \cap declined = {}

\* After a stop nothing is started until the user asks for something
\* (StopSession, beginLLMCall, markRunningTool).
StopSticks ==
    [][halted => /\ ran' = ran
                 /\ At(Run, "begin") => thread'[Run].at # "stream"]_vars

Resting == \A t \in Threads : thread[t] = Idle
Waiting == approvals \cup questions # {}

\* When everything rests and nobody is asked anything, the model has had the
\* last word: no conversation is left in the middle, unless the user stopped
\* it or it failed (processToolCalls, startRun).
NotStuck ==
    Resting /\ ~Waiting /\ ~halted /\ ~failed /\ transcript # <<>> =>
        /\ Last(transcript).role = "assistant"
        /\ Last(transcript).calls = <<>>

\* A call the user approved has run by the time the session rests, unless the
\* user stopped it (ResolveApproval, executeToolCall).
ApprovedRuns ==
    Resting /\ ~halted => approved \subseteq Range(ran)

\* A run comes to its end, stopped or not: it never keeps the session busy for
\* ever (runLoop, with its limit of turns).
RunEnds == running ~> ~running
=============================================================================
